------------------------------ MODULE Computers ------------------------------
(***************************************************************************)
(* The workspaces in which Computers run programs and agents: two pieces   *)
(* of work whose sessions share files, the client that sends and repeats   *)
(* requests (computers.py, execute_invocation), the Cloudflare runtime     *)
(* (cloudflare/computer-runtime) and the local provider                    *)
(* (local_computer.py).                                                    *)
(*                                                                         *)
(* Nothing locks a session.  What keeps runs apart is that the local       *)
(* provider prepares the directory anew, and that the runtime caches what  *)
(* it has answered, marks a fork when it is complete and compares the      *)
(* files it wrote with what it finds.                                      *)
(***************************************************************************)
EXTENDS Naturals, Sequences, FiniteSets

CONSTANTS
    Preserved,  \* retention.preserve: the paths that a fork copies, in order
    Worlds,     \* the deployments that are looked at
    MaxRuns     \* bound: the largest number of requests

RunIds == 1 .. MaxRuns

ASSUME ComputersAssumption ==
    /\ MaxRuns \in Nat
    /\ Preserved \in Seq(STRING)
    /\ Worlds \subseteq
        [provider : {"local", "cloudflare"},
         kind : {"resume", "fork", "tasks"}, \* how the second work got its session
         overlaps : BOOLEAN,  \* it does not wait for the first to end
         lossy : BOOLEAN,     \* answers of the runtime get lost
         changes : BOOLEAN,   \* records change meanwhile
         most : RunIds]       \* bound: requests that are sent

VARIABLES
    world,     \* one of Worlds, which does not change
    tasks,     \* tasks[w]: an invocation, or a task of a derivation run
    evidence,  \* the version of the records that a request renders
    runs,      \* executions by number, of the local provider or the runtime
    sessions   \* the files of each session

computerVars == <<world, tasks, evidence, runs, sessions>>

Works == {1, 2}
None == 0
Paths == {Preserved[k] : k \in DOMAIN Preserved}
MaxReplies == 1   \* bound: replies to one invocation
Versions == 0 .. 1 \* bound: versions of the records

\* _session_key: work 2 resumes the session of work 1, shares that of its
\* derivation run, or has one of its own with the first as parent.
SessionOf(w) == IF w = 2 /\ world.kind = "fork" THEN "child" ELSE "parent"
Interactive == world.kind # "tasks"   \* mode "invocation"

\* What tells one request from another: the task, its turns, what it renders.
Requests == [work : Works, replies : 0 .. MaxReplies, evidence : Versions]
NoRequest == [work |-> None, replies |-> 0, evidence |-> 0]
NoAnswer == [for |-> NoRequest, saw |-> NoRequest, asks |-> FALSE, outbox |-> {}]
Responses == [for : Requests, saw : Requests, asks : BOOLEAN, outbox : SUBSET RunIds]

\* Of a session, outside its writable roots: context, inputs, marker and cache.
Protections == (Requests \cup {NoRequest}) \X (SUBSET Requests) \X BOOLEAN
                    \X (SUBSET (Responses \X Requests))

RunPhases == {"sent", "forking", "open", "missed", "context", "working", "read", "acted", "valid",
           "collected", "returning", "failed", "gone"}

ComputerTypes ==
    /\ world \in Worlds
    /\ tasks \in [Works -> [status : {"new", "queued", "running", "asked", "answered", "failed"},
                            replies : 0 .. MaxReplies, run : 0 .. MaxRuns,
                            answer : Responses \cup {NoAnswer}]]
    /\ evidence \in Versions
    /\ runs \in Seq([phase : RunPhases, request : Requests, copied : 0 .. Len(Preserved),
                     before : {<<>>} \cup Protections, answer : Responses \cup {NoAnswer}])
    /\ sessions \in [{"parent", "child"} ->
            [files : [Paths -> 0 .. MaxRuns],  \* the run that wrote each, 0 for none
             outbox : SUBSET RunIds,           \* the runs whose entries are there
             results : SUBSET Works,           \* the output paths that exist
             context : Requests \cup {NoRequest},
             inputs : SUBSET Requests,
             marked : BOOLEAN,
             cache : SUBSET (Responses \X Requests)]]

EmptySession == [files |-> [p \in Paths |-> 0], outbox |-> {}, results |-> {},
                 context |-> NoRequest, inputs |-> {}, marked |-> FALSE, cache |-> {}]

ComputersInit ==
    /\ world \in Worlds
    /\ tasks = [w \in Works |-> [status |-> "new", replies |-> 0, run |-> None,
                                 answer |-> NoAnswer]]
    /\ evidence = 0
    /\ runs = <<>>
    /\ sessions = [s \in {"parent", "child"} |-> EmptySession]

Session(r) == SessionOf(runs[r].request.work)
Here(r) == sessions[Session(r)]
At(r, phase) == r \in DOMAIN runs /\ runs[r].phase = phase
Local == world.provider = "local"

(***************************************************************************)
(* The client.                                                             *)
(***************************************************************************)
\* A run that ends forgets what it held.
Ended(run, phase) ==
    [run EXCEPT !.phase = phase, !.copied = 0, !.before = <<>>, !.answer = NoAnswer]

Still == \A r \in DOMAIN runs : runs[r].phase = "gone"

\* create_invocation, for a session that is active whether or not a run is at
\* work in it; the second task of a derivation follows the first.
Creates(w) ==
    /\ tasks[w].status = "new"
    /\ w = 2 /\ ~world.overlaps => tasks[1].status \in {"answered", "failed"} /\ Still
    /\ w = 2 => tasks[1].status # "new"
    /\ tasks' = [tasks EXCEPT ![w].status = "queued"]
    /\ UNCHANGED <<world, evidence, runs, sessions>>

\* Records change, and every attempt renders them again.
EvidenceChanges ==
    /\ world.changes /\ evidence < 1
    /\ evidence' = evidence + 1
    /\ UNCHANGED <<world, tasks, runs, sessions>>

\* execute_invocation hands the work to the provider.
Sends(w) ==
    /\ tasks[w].status = "queued" /\ Len(runs) < world.most
    /\ runs' = Append(runs, [phase |-> "sent",
            request |-> [work |-> w, replies |-> tasks[w].replies, evidence |-> evidence],
            copied |-> 0, before |-> <<>>, answer |-> NoAnswer])
    /\ tasks' = [tasks EXCEPT ![w].status = "running", ![w].run = Len(runs) + 1]
    /\ UNCHANGED <<world, evidence, sessions>>

\* RemoteComputerProvider: a request that times out is repeated, and the
\* runtime knows nothing of it.
Loses(w) ==
    /\ world.lossy /\ ~Local /\ tasks[w].status = "running"
    /\ tasks' = [tasks EXCEPT ![w].status = "queued", ![w].run = None]
    /\ UNCHANGED <<world, evidence, runs, sessions>>

\* The answer, or the error, of a run; that of a run given up is not heard.
\* An invocation that asks must not have written; its user may reply.
Settles(r) ==
    LET w == runs[r].request.work
        a == runs[r].answer IN
    /\ runs[r].phase \in {"returning", "failed"}
    /\ tasks' =
        IF tasks[w].run # r THEN tasks
        ELSE [tasks EXCEPT ![w] =
            IF runs[r].phase = "failed" THEN [@ EXCEPT !.status = "queued", !.run = None]
            ELSE [@ EXCEPT !.run = None, !.answer = a,
                           !.status = CASE ~a.asks -> "answered"
                                        [] a.asks /\ a.outbox # {} -> "failed"
                                        [] OTHER -> "asked"]]
    /\ runs' = [runs EXCEPT ![r] = Ended(@, "gone")]
    /\ UNCHANGED <<world, evidence, sessions>>

Replies(w) ==
    /\ tasks[w].status = "asked" /\ tasks[w].replies < MaxReplies
    /\ tasks' = [tasks EXCEPT ![w].status = "queued", ![w].replies = @ + 1,
                              ![w].answer = NoAnswer]
    /\ UNCHANGED <<world, evidence, runs, sessions>>

(***************************************************************************)
(* Either provider: what the program or the agent does.                    *)
(***************************************************************************)
\* It reads its instructions, its input and what they mount.
ReadsContext(r) ==
    /\ At(r, "working")
    /\ runs' = [runs EXCEPT ![r].phase = "read", ![r].answer =
            [NoAnswer EXCEPT !.for = runs[r].request, !.saw = Here(r).context]]
    /\ UNCHANGED <<world, tasks, evidence, sessions>>

\* It writes working files and observations, or asks without writing, or
\* breaks after having written.  A writeback tool of the runtime replaces the
\* file (writeback-tools.ts), one of a harness appends to it (writeback.py).
Acts(r) ==
    /\ At(r, "read")
    /\ \E writes, asks, breaks \in BOOLEAN :
        /\ asks => Interactive /\ ~writes /\ ~breaks
        /\ writes => Interactive
        /\ sessions' = IF asks THEN sessions
            ELSE [sessions EXCEPT
                ![Session(r)].files = [p \in Paths |-> r],
                ![Session(r)].outbox = CASE ~writes -> @
                                         [] writes /\ Local -> @ \cup {r}
                                         [] writes /\ ~Local -> {r}]
        /\ runs' = [runs EXCEPT ![r].answer.asks = asks,
                ![r].phase = CASE breaks -> "failed"
                               [] ~breaks /\ Local -> "valid"
                               [] ~breaks /\ ~Local -> "acted"]
    /\ UNCHANGED <<world, tasks, evidence>>

(***************************************************************************)
(* The runtime: execute of index.ts.                                       *)
(***************************************************************************)
HasParent(r) == Session(r) = "child"

\* materializeFork: a marked session is taken as it is; any other copies the
\* preserved paths one after the other.
Opens(r) ==
    /\ At(r, "sent") /\ ~Local
    /\ runs' = [runs EXCEPT ![r].phase =
            IF HasParent(r) /\ ~Here(r).marked THEN "forking" ELSE "open"]
    /\ UNCHANGED <<world, tasks, evidence, sessions>>

\* copyPreservedPath
Copies(r) ==
    LET p == Preserved[runs[r].copied + 1] IN
    /\ At(r, "forking") /\ runs[r].copied < Len(Preserved)
    /\ sessions' = [sessions EXCEPT !["child"].files[p] =
            IF sessions["parent"].files[p] = 0 THEN @ ELSE sessions["parent"].files[p]]
    /\ runs' = [runs EXCEPT ![r].copied = @ + 1]
    /\ UNCHANGED <<world, tasks, evidence>>

\* The marker, when every path is there.
Marks(r) ==
    /\ At(r, "forking") /\ runs[r].copied = Len(Preserved)
    /\ runs' = [runs EXCEPT ![r].phase = "open"]
    /\ sessions' = [sessions EXCEPT !["child"].marked = TRUE]
    /\ UNCHANGED <<world, tasks, evidence>>

\* Fault: the path that docs/computer-cloudflare.md names.
PathOfTask(request) == [work |-> request.work, replies |-> 0, evidence |-> 0]

\* resultCachePath: a digest of the whole request.
ResultCachePath(request) == request

Cached(r) == {c \in Here(r).cache : c[2] = ResultCachePath(runs[r].request)}

Probes(r) ==
    /\ At(r, "open")
    /\ \/ /\ Cached(r) = {}
          /\ runs' = [runs EXCEPT ![r].phase = "missed"]
       \/ \E c \in Cached(r) :
            runs' = [runs EXCEPT ![r].phase = "returning", ![r].answer = c[1]]
    /\ UNCHANGED <<world, tasks, evidence, sessions>>

\* A session with the context, the manifest and the input of a request, each
\* at a fixed path.
WithContext(session, q) ==
    [session EXCEPT !.context = q, !.inputs = {i \in @ : i.work # q.work} \cup {q}]

\* materialize
Materializes(r) ==
    /\ At(r, "missed")
    /\ sessions' = [sessions EXCEPT ![Session(r)] = WithContext(@, runs[r].request)]
    /\ runs' = [runs EXCEPT ![r].phase = "context"]
    /\ UNCHANGED <<world, tasks, evidence>>

\* What a snapshot of a session shows outside the writable roots.
Protected(s) == <<sessions[s].context, sessions[s].inputs, sessions[s].marked, sessions[s].cache>>

\* The snapshot before.
Snapshots(r) ==
    /\ At(r, "context")
    /\ runs' = [runs EXCEPT ![r].phase = "working", ![r].before = Protected(Session(r))]
    /\ UNCHANGED <<world, tasks, evidence, sessions>>

\* restoreAndFindTampering: a file that differs from what was materialized is
\* restored and fails the run; so does one that differs from the snapshot
\* before, outside the writable roots.
Validates(r) ==
    LET q == runs[r].request
        tampered == Here(r).context # q \/ q \notin Here(r).inputs IN
    /\ At(r, "acted")
    /\ sessions' = IF tampered THEN [sessions EXCEPT ![Session(r)] = WithContext(@, q)]
                                ELSE sessions
    /\ runs' = [runs EXCEPT ![r].phase =
            IF tampered \/ runs[r].before # Protected(Session(r)) THEN "failed" ELSE "valid"]
    /\ UNCHANGED <<world, tasks, evidence>>

\* Where the result is written: an invocation has one path, a task its own.
ResultOf(w) == IF Interactive THEN 1 ELSE w

\* Writes the result and collects the outbox; a derivation accepts no file but
\* the one it has declared.
Collects(r) ==
    LET w == runs[r].request.work IN
    /\ At(r, "valid") /\ ~Local
    /\ sessions' = [sessions EXCEPT ![Session(r)].results = @ \cup {ResultOf(w)}]
    /\ runs' = [runs EXCEPT
            ![r].phase = IF Here(r).results \subseteq {ResultOf(w)} THEN "collected" ELSE "failed",
            ![r].answer.outbox = IF Interactive THEN Here(r).outbox ELSE {}]
    /\ UNCHANGED <<world, tasks, evidence>>

\* The response is cached before it is sent.
Caches(r) ==
    LET path == ResultCachePath(runs[r].request) IN
    /\ At(r, "collected")
    /\ sessions' = [sessions EXCEPT ![Session(r)].cache =
            {c \in @ : c[2] # path} \cup {<<runs[r].answer, path>>}]
    /\ runs' = [runs EXCEPT ![r].phase = "returning"]
    /\ UNCHANGED <<world, tasks, evidence>>

\* The runtime is evicted, or its container dies, between any two steps.
RuntimeDies(r) ==
    /\ world.lossy /\ r \in DOMAIN runs /\ ~Local
    /\ runs[r].phase \notin {"failed", "gone"}
    /\ runs' = [runs EXCEPT ![r] = Ended(@, "failed")]
    /\ UNCHANGED <<world, tasks, evidence, sessions>>

(***************************************************************************)
(* The local provider.                                                     *)
(***************************************************************************)
\* Fault: the outbox of the session is kept, as /workspace is.
PreparesKeeping(r) ==
    /\ At(r, "sent") /\ Local
    /\ sessions' = [sessions EXCEPT ![Session(r)].context = runs[r].request]
    /\ runs' = [runs EXCEPT ![r].phase = "working"]
    /\ UNCHANGED <<world, tasks, evidence>>

\* _prepare_root: context, inputs and outbox are removed and written anew; the
\* working files stay.  Nothing reads parent_session_key.
Prepares(r) ==
    /\ At(r, "sent") /\ Local
    /\ sessions' = [sessions EXCEPT ![Session(r)].context = runs[r].request,
            ![Session(r)].inputs = {runs[r].request},
            ![Session(r)].outbox = {}, ![Session(r)].results = {}]
    /\ runs' = [runs EXCEPT ![r].phase = "working"]
    /\ UNCHANGED <<world, tasks, evidence>>

\* _collect_outbox: what is not declared is left out, and fails nothing.
CollectsLocal(r) ==
    LET w == runs[r].request.work IN
    /\ At(r, "valid") /\ Local
    /\ sessions' = [sessions EXCEPT ![Session(r)].results = @ \cup {ResultOf(w)}]
    /\ runs' = [runs EXCEPT ![r].phase = "returning",
            ![r].answer.outbox = IF Interactive THEN Here(r).outbox ELSE {}]
    /\ UNCHANGED <<world, tasks, evidence>>

(***************************************************************************)
ComputersNext ==
    \/ EvidenceChanges
    \/ \E w \in Works : Creates(w) \/ Sends(w) \/ Loses(w) \/ Replies(w)
    \/ \E r \in RunIds :
        \/ Opens(r) \/ Copies(r) \/ Marks(r) \/ Probes(r) \/ Materializes(r) \/ Snapshots(r)
        \/ ReadsContext(r) \/ Acts(r) \/ Validates(r) \/ Collects(r) \/ Caches(r)
        \/ RuntimeDies(r) \/ Prepares(r) \/ CollectsLocal(r)
    \/ \E r \in DOMAIN runs : Settles(r)

ComputersSpec == ComputersInit /\ [][ComputersNext]_computerVars

(***************************************************************************)
(* Properties.                                                             *)
(***************************************************************************)
Settled(w) == tasks[w].status \in {"asked", "answered"}

\* Where no answer is lost, an answer of the runtime comes from a run that saw
\* its own context: two runs that overlap leave traces in what they compare.
ContextHeld == \A w \in Works : Settled(w) => tasks[w].answer.saw = tasks[w].answer.for

\* What an invocation takes for its answer was computed for it, with all its
\* replies and from its own context: not for an earlier turn, nor for other work
\* of the session that the cache remembers or that overlaps (turn-policy.ts:
\* "new replies, authority or contract never do"; restoreAndFindTampering).
AnswersAreOwn ==
    /\ ComputerTypes
    /\ \A w \in Works : Settled(w) =>
        tasks[w].answer.for.work = w /\ tasks[w].answer.for.replies = tasks[w].replies
    /\ ~Local /\ ~world.lossy => ContextHeld

NeverAnothers ==
    \A w \in Works : Settled(w) =>
        \A r \in tasks[w].answer.outbox : runs[r].request.work = w

ForkInherits ==
    \A p \in Paths : sessions["parent"].files[p] # 0 => sessions["child"].files[p] # 0

\* A session has the files that it should have, where its works do not overlap.
\* One that counts as forked has
\* every path that its parent preserves, whatever died while they were copied
\* (index.ts, materializeFork); and a local session offers to an invocation no
\* entry of another one that has ended (local_computer.py:431: "The outbox is
\* cleared so one invocation never collects another's").
OwnFiles ==
    /\ ~world.overlaps /\ sessions["child"].marked => ForkInherits
    /\ Local /\ ~world.overlaps => NeverAnothers

(* Stated, and refuted. *)
\* docs/computers.md:473: a fork gives the child the preserved paths.  The local
\* provider copies nothing.
ForksInherit == tasks[2].status = "answered" /\ world.kind = "fork" => ForkInherits

\* local_computer.py:431, for every session: refuted on the runtime, which keeps
\* the outbox, and on overlapping local runs.
NothingOfAnothers == Interactive => NeverAnothers

\* A question is put to the user (docs/api-surface.md:672): refuted by an outbox
\* that an earlier attempt has left behind.
QuestionsArePut == \A w \in Works : tasks[w].status # "failed"

\* docs/computer-cloudflare.md:614: the tasks of a run share a filesystem.  The
\* result of one is an unknown file in the outbox of the next.
TasksShare ==
    [][\A r \in DOMAIN runs :
        At(r, "valid") /\ ~Interactive => runs'[r].phase # "failed"]_computerVars

\* docs/computer-cloudflare.md:615: a retry of a request that was answered replays it.
AnsweredOnce ==
    \A s \in DOMAIN sessions : \A c, d \in sessions[s].cache :
        c[1].for.work = d[1].for.work /\ c[1].for.replies = d[1].for.replies => c = d
=============================================================================
