---------------------------- MODULE TradeJournal ----------------------------
(***************************************************************************)
(* What the execution endpoint promises the AI service, whatever happens   *)
(* to the positions: a journal that only grows, in which each proposal and *)
(* each execution id is entered at most once, and receipts that repeat an  *)
(* entry of the journal.                                                   *)
(***************************************************************************)
CONSTANTS Requests, NoReceipt

VARIABLES journal, receipts

SameTrade(a, b) == a.proposal = b.proposal \/ a.execution = b.execution

Enter ==
    /\ \E entry \in journal' :
        /\ journal' = journal \cup {entry}
        /\ \A e \in journal : ~SameTrade(e.order, entry.order)
    /\ UNCHANGED receipts

Acknowledge(r) ==
    /\ receipts[r] = NoReceipt
    /\ \E e \in journal : receipts' = [receipts EXCEPT ![r] = e]
    /\ UNCHANGED journal

Init == journal = {} /\ receipts = [r \in Requests |-> NoReceipt]
Next == Enter \/ \E r \in Requests : Acknowledge(r)
Spec == Init /\ [][Next]_<<journal, receipts>>
=============================================================================
