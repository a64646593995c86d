------------------------------- MODULE Office -------------------------------
(***************************************************************************)
(* The office of the tenants: stores, suppliers and users, invoices, taxes,    *)
(* drafts and the tenants themselves over one database, with requests of all    *)
(* kinds at work together.                                                   *)
(***************************************************************************)
EXTENDS Shops, Invoicing, Taxes, Drafts, Tenants

Receive(r) ==
    ReceiveShops(r) \/ ReceiveInvoicing(r) \/ ReceiveTaxes(r) \/ ReceiveDrafts(r)
    \/ ReceiveTenants(r)

Step(r) ==
    StepShops(r) \/ StepInvoicing(r) \/ StepTaxes(r) \/ StepDrafts(r) \/ StepTenants(r)

Finished == (\A r \in Requests : pc[r] \in Ended) /\ UNCHANGED vars

Next ==
    \/ \E r \in Requests : (pc[r] = "idle" /\ Receive(r)) \/ Step(r) \/ Fault(r)
    \/ Crash
    \/ Finished

Spec == Init /\ [][Next]_vars

----------------------------------------------------------------------------
(* Properties *)

\* The state has its type; the tables respect their keys, foreign keys and unique
\* indexes, and a transaction that is over holds no lock.
TypeOK ==
    /\ KeysHold(rows) /\ Cardinality(Keys(rows)) = Cardinality(rows)
    /\ IndexesHold(rows)
    /\ \A x \in In("Users", rows) : x.out \subseteq Features
    /\ \A r \in Requests : ~ InFlight(r) => lock[r] = {} /\ seen[r] = {} /\ at[r] = 0
    /\ raced \subseteq SUBSET Requests
    /\ faults \in 0..MaxFaults

\* A business reaches its user, and the status of a tenant its users: what is one
\* change in two rows is in both, unless two of them met.
RowsChangeTogether == []BusinessReachesUser /\ StatusReachesUsers

\* Nobody is misled by what was read but by a race: suppliers join open stores, and
\* exclusions change as asked.
OnlyRacesMislead == SuppliersJoinOpenStores /\ ExclusionsChangeAsAsked

\* Invoices are refused their number, and tenants their deletion, for the reasons the
\* code and the schema give, and for no other.
FailuresAreExplained == NumbersClashOnlyWhen /\ DeletionFailsOnlyWhen

\* What a save or a replacement wrote in the place of something else is not mixed
\* with it, unless the two met.
ReplacementsStandAlone == AssignmentsStandAlone /\ DraftsHoldOneSave
=============================================================================
