---------------------------- MODULE MCPipelines ----------------------------
(***************************************************************************)
(* Small instances for TLC of what derivations owe in the end: one         *)
(* derivation in detail, and pipelines that feed each other.  A behaviour  *)
(* belongs to one of the two, its part; nobody writes to the other, so     *)
(* that the state spaces add up and each part has its own fairness only.   *)
(***************************************************************************)
EXTENDS MCDerivation, Cascade

CONSTANTS p1, p2,
    Parts   \* those that are looked at

VARIABLE part

pipelineVars == <<part, vars, cascadeVars>>

On(on, kinds, ignore) == [on |-> on, kinds |-> kinds, ignore |-> ignore]
T(p, inline, guards, scopes) ==
    [processor |-> p, inline |-> inline, guards |-> guards, scopes |-> scopes]
Both(a, b) == [p \in Pipes |-> IF p = p1 THEN a ELSE b]   \* p1 first
D(emits, driver, changes, driverKey, arrivals, triggers) ==
    [emits |-> emits, driver |-> driver, changes |-> changes, driverKey |-> driverKey,
     windowed |-> Both(FALSE, FALSE), arrivals |-> arrivals, triggers |-> triggers]
Yes == Both(TRUE, TRUE)
No == Both(FALSE, FALSE)

\* Accepted: a chain over writes and quiet; a pipeline that rewrites what it
\* reads, next to a threshold; deadlines that the outputs of another set;
\* changes, then retractions and a census. The last three are not accepted:
\* they feed themselves or each other.
MCDesigns == {
    D(Both("a", "b"), Both({"x"}, {"x", "a"}), Yes, No, 2,
      {T(p1, TRUE, {}, {On("write", {"x"}, FALSE)}),
       T(p2, TRUE, {}, {On("quiet", {"x", "a"}, FALSE)})}),
    D(Both("x", "b"), Both({"x"}, {"x"}), Yes, Both(TRUE, FALSE), 2,
      {T(p1, TRUE, {}, {On("write", {"x"}, TRUE)}), T(p2, FALSE, {"threshold"}, {})}),
    D(Both("a", "b"), Both({"x"}, {"x"}), Both(FALSE, TRUE), No, 1,
      {T(p1, FALSE, {}, {On("at", {"x", "b"}, FALSE)}),
       T(p2, TRUE, {}, {On("write", {"x"}, FALSE)})}),
    D(Both("a", "b"), Both({"x"}, {"a"}), Both(TRUE, FALSE), No, 2,
      {T(p1, TRUE, {}, {On("changed", {"x"}, FALSE)}),
       T(p2, FALSE, {}, {On("retraction", {"a"}, FALSE), On("census", {"x", "a"}, FALSE)})}),
    D(Both("a", "b"), Both({"x", "a"}, {"x"}), Yes, No, 1,
      {T(p1, TRUE, {}, {On("write", {"x", "a"}, FALSE)})}),
    D(Both("a", "b"), Both({"x", "b"}, {"a"}), No, No, 1,
      {T(p1, TRUE, {"lifecycle"}, {}), T(p2, TRUE, {"threshold"}, {})}),
    D(Both("a", "b"), Both({"x"}, {"x"}), No, No, 1,
      {T(p1, TRUE, {}, {On("at", {"x", "b"}, FALSE)}),
       T(p2, TRUE, {}, {On("at", {"a"}, FALSE)})})}

\* The driver reads the outputs, the trigger does not: accepted.
MCFeeding == {
    D(Both("a", "b"), Both({"x", "a"}, {"x"}), Yes, Both(TRUE, FALSE), 1,
      {T(p1, TRUE, {}, {On("write", {"x"}, FALSE)})})}

PipelinesInit ==
    /\ part \in Parts
    /\ Init
    /\ CascadeInit
    /\ part = "derivation" => design = CHOOSE d \in Designs : Accepted(d)

PipelinesNext ==
    \/ part = "derivation" /\ Next /\ UNCHANGED <<part, cascadeVars>>
    \/ part = "cascade" /\ CascadeNext /\ UNCHANGED <<part, vars>>

PipelinesSpec == PipelinesInit /\ [][PipelinesNext]_pipelineVars

FairPipelinesSpec == PipelinesSpec /\ Fairness /\ CascadeFairness
=============================================================================
