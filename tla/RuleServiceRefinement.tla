------------------------ MODULE RuleServiceRefinement ------------------------
(***************************************************************************)
(* ParentalControl implements RuleService while nobody edits the router's  *)
(* table behind the integration's back and the router does what it accepts *)
(* before it is read again (Faults = {}).                                  *)
(***************************************************************************)
EXTENDS ParentalControl

\* The writers that wait for the effect of a write the router accepted.
Awaiting == {w \in Writers : pc[w] \in {"written", "confirm", "reply"}}

\* An accepted write that will change the table, and whose writer has gone.
Straggler ==
  IF pend # NoWrite /\ Awaiting = {} /\ pend.tbl # table
  THEN pend.req ELSE NoRequest

Service == INSTANCE RuleService WITH call <- req, straggler <- Straggler

\* Refinement: the lock, the fresh snapshot and the single whole-table write
\* make a call an atomic update of the router's table, and a call that reports
\* success does so only while its request holds.
ImplementsService == Service!Spec

\* What makes it so.  A table is built from the router's current one and stays
\* so built until it is sent; an accepted write is the update of the table it
\* replaces, is not overtaken by another snapshot, and belongs to the writer
\* that awaits it, if there is one.  While a writer confirms, the table has
\* either taken its update or is still the one that it was made from.
SnapshotCurrent ==
  \A w \in Writers :
    pc[w] = "write" => expected[w] = Updated(table, req[w])

WriteCurrent ==
  pend # NoWrite =>
    /\ pend.tbl = Updated(table, pend.req)
    /\ \A w \in Writers : pc[w] # "write"
    /\ \A w \in Writers : pc[w] = "cleanup" => pend.tbl = table
    /\ \A w \in Awaiting : pend = [tbl |-> expected[w], req |-> req[w]]

\* An answer on its way to a writer shows the router's table, or the one that
\* the write it awaits has replaced since.
AnswerCurrent ==
  \A w \in Writers :
    pc[w] = "reply" =>
      \/ answer[w] = table
      \/ /\ pend = NoWrite
         /\ table = expected[w]
         /\ expected[w] = Updated(answer[w], req[w])

\* While a writer removes switches, the router has no rule it removed.
RemovalCurrent ==
  \A w \in Writers :
    pc[w] = "cleanup" =>
      req[w].state = "remove" /\ Rows(table) \cap req[w].macs = {}

RefInv == SnapshotCurrent /\ WriteCurrent /\ AnswerCurrent /\ RemovalCurrent
=============================================================================
