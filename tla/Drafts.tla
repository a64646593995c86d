------------------------------- MODULE Drafts -------------------------------
(***************************************************************************)
(* Drafts of sales and their items (SaleDraftService).  What the items are of   *)
(* is left out: a save stands for its items by one row with the id of the save. *)
(***************************************************************************)
EXTENDS OfficeTables

ItemsOf(d) == {x \in In("SalesDraftItems", rows) : RefersTo(x, "saleDraftId", d)}

ItemRow(r, d, c) == New("SalesDraftItems", r, [clientId |-> c, saleDraftId |-> d])

DraftRow(r) ==
    New("SalesDraft", r, [clientId |-> call[r].client, storeId |-> call[r].store,
                          userId |-> call[r].user])

----------------------------------------------------------------------------
(* Saving *)

\* The drafts a user may go on with, or none.
GetDraftSales(u) == Own(ClientOf(u), "SalesDraft") \cup {None}

\* saveDraftSale of user u for a store; client, store and draft are in the body.
BeginSaveDraft(r, u, s, d) ==
    LET c == [op |-> "saveDraft", user |-> u, store |-> s, draft |-> d,
              client |-> Get("Stores", s).to["clientId"]] IN
    Begin(r, c, {}, "draft")

\* The transaction looks for the draft; without one it makes one.
CreateDraft(r) ==
    LET S == {DraftRow(r), ItemRow(r, r, call[r].client)} IN
    /\ pc[r] = "draft"
    /\ ~ Has("SalesDraft", call[r].draft)
    /\ Insert(r, S) \/ InsertFails(r, S)

\* The items the deletion is going to see.
ReadDraft(r) ==
    /\ pc[r] = "draft"
    /\ Has("SalesDraft", call[r].draft)
    /\ seen' = [seen EXCEPT ![r] = ItemsOf(call[r].draft)]
    /\ Goto(r, "clear")
    /\ UNCHANGED <<rows, call, lock, at, raced, faults>>

\* deleteMany: it waits for other transactions that deleted some of them; those
\* inserted meanwhile are not in its snapshot.
ClearDraft(r) ==
    /\ pc[r] = "clear"
    /\ Free(r, Keys(seen[r]))
    /\ lock' = [lock EXCEPT ![r] = Keys(seen[r] \cap rows)]
    /\ Goto(r, "items")
    /\ UNCHANGED <<rows, call, seen, at, raced, faults>>

\* The draft is updated, the new items are inserted, and all of it is committed.
FillDraft(r) ==
    LET d == call[r].draft IN
    /\ pc[r] = "items"
    /\ Free(r, {<<"SalesDraft", d>>})
    /\ IF Has("SalesDraft", d) /\ Has("Clients", call[r].client)
       THEN /\ rows' = {x \in rows : Key(x) \notin lock[r]} \cup {ItemRow(r, d, call[r].client)}
            /\ End(r, "ok")
       ELSE Fails(r)

----------------------------------------------------------------------------
(* Deleting: without a transaction *)

\* deleteDraftSale answers as well when there is no such draft in the store.
BeginDeleteDraft(r, d) ==
    LET c == [op |-> "deleteDraft", draft |-> d] IN
    Check(r, c, Has("SalesDraft", d), {},
          IF ItemsOf(d) = {} THEN "dropDraft" ELSE "dropItems")

DropItems(r) ==
    LET D == ItemsOf(call[r].draft) IN
    /\ pc[r] = "dropItems"
    /\ Free(r, Keys(D))
    /\ rows' = rows \ D
    /\ Goto(r, "dropDraft")
    /\ UNCHANGED <<call, seen, lock, at, raced, faults>>

DropDraft(r) ==
    /\ pc[r] = "dropDraft"
    /\ Delete(r, "SalesDraft", call[r].draft)

----------------------------------------------------------------------------

ReceiveDrafts(r) ==
    \E u \in Ids("Users", rows) : \E s \in Own(ClientOf(u), "Stores") :
        \E d \in GetDraftSales(u) :
            \/ BeginSaveDraft(r, u, s, d)
            \/ BeginDeleteDraft(r, d)

StepDrafts(r) ==
    \/ CreateDraft(r) \/ ReadDraft(r) \/ ClearDraft(r) \/ FillDraft(r)
    \/ DropItems(r) \/ DropDraft(r)

----------------------------------------------------------------------------
(* Properties *)

\* The drafts at the start come from one save each.
SeedsHoldOneSave ==
    \A x, y \in In("SalesDraftItems", SeedRows) : x.to["saleDraftId"] = y.to["saleDraftId"] => x = y

\* The items of a draft come from one save of it, unless the saves were at work
\* together: a save replaces all that was there before (saveDraftSale).
DraftsHoldOneSave ==
    \A x, y \in In("SalesDraftItems", rows) :
        (x # y /\ x.to["saleDraftId"] = y.to["saleDraftId"]) =>
            x.id \in Requests /\ y.id \in Requests /\ Met(x.id, y.id)
=============================================================================
