-------------------------------- MODULE CostBook --------------------------------
(***************************************************************************)
(* What "setting a cost never overwrites one" promises (costs.py, CST-1,   *)
(* CST-4, CST-5): every variant has a book of costs, a write adds one line *)
(* to the book of each variant it names, all of them or none, and answers  *)
(* with the line each new one replaced.                                    *)
(***************************************************************************)
EXTENDS Sequences, SequencesExt

CONSTANTS Writer, NoWriter, Sku

VARIABLES
  book,         \* [Sku -> Seq(Writer)]: the writes that set its cost, oldest first
  stage,        \* [Writer -> {"open", "done", "failed"}]
  replaced      \* [Writer -> [Sku -> the line the write replaced, or NoWriter]]

bookVars == <<book, stage, replaced>>

Current(s) == IF book[s] = <<>> THEN NoWriter ELSE Last(book[s])

Init ==
  /\ book = [s \in Sku |-> <<>>]
  /\ stage = [w \in Writer |-> "open"]
  /\ replaced = [w \in Writer |-> [s \in Sku |-> NoWriter]]

Write(w, lines) ==
  /\ stage[w] = "open"
  /\ stage' = [stage EXCEPT ![w] = "done"]
  /\ book' = [s \in Sku |-> IF s \in lines THEN Append(book[s], w) ELSE book[s]]
  /\ replaced' = [replaced EXCEPT ![w] =
                    [s \in Sku |-> IF s \in lines THEN Current(s) ELSE NoWriter]]

Fail(w) ==
  /\ stage[w] = "open"
  /\ stage' = [stage EXCEPT ![w] = "failed"]
  /\ UNCHANGED <<book, replaced>>

Next == \E w \in Writer : Fail(w) \/ \E lines \in SUBSET Sku : Write(w, lines)

Spec == Init /\ [][Next]_bookVars
===============================================================================
