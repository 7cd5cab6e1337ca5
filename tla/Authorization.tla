---------------------------- MODULE Authorization ----------------------------
(***************************************************************************)
(* From a user's words to an execution (llm_vla/grounding.py, coverage.py):*)
(* a language model proposes a decision with two quotes, the host resolves *)
(* the quotes in the original text, and version 3 also derives the whole   *)
(* text by a finite grammar.  A permit is bound to the text, the proposal  *)
(* and the contract, and is derived once more before an execution backend  *)
(* is made.  In between the request and the contract may have changed.     *)
(*                                                                         *)
(* Text is a sequence of words; "#" stands for characters that the lexer   *)
(* does not know.  The grammar is a set of sentences over words and the    *)
(* two symbols "T" and "B" that aliases are replaced by.                   *)
(***************************************************************************)
EXTENDS Naturals, Sequences, FiniteSets, SequencesExt

CONSTANTS
    Words,
    Grammar,       \* sentences: some of GRAMMAR, with PRE, POST and articles
    Prepositions, Negations, Articles,
    Contracts,     \* contract -> [target, destination: aliases, guards: words]
    Proposals,     \* accepting ones: [target, destination]: quotes
    Starts,        \* texts a request starts as
    MaxEdits       \* bound: words inserted, dropped or exchanged

AuthorizationAssumption ==
    /\ Prepositions \cup Negations \cup Articles \subseteq Words
    /\ \A c \in DOMAIN Contracts : Contracts[c].guards \subseteq Words
    /\ MaxEdits \in Nat

VARIABLES
    text, contract,
    raw,        \* the model's output: [decision], with quotes when it accepts
    permit,     \* CoveragePermit, or None
    outcome,    \* "idle", "port", "refused"
    edits
vars == <<text, contract, raw, permit, outcome, edits>>

None == [none |-> TRUE]
Unread == [decision |-> "none"]

-----------------------------------------------------------------------------
(* Version 2 *)

(* Where a phrase stands in a text. *)
Occurrences(t, phrase) ==
    {i \in 1..(Len(t) - Len(phrase) + 1) :
        SubSeq(t, i, i + Len(phrase) - 1) = phrase}

(* One leading article is no part of an alias. *)
Alias(quote) ==
    IF Len(quote) > 1 /\ quote[1] \in Articles THEN Tail(quote) ELSE quote

(* resolve_mention: the quote stands once in the text and is a known alias. *)
Resolves(t, quote, slot, c) ==
    /\ Cardinality(Occurrences(t, quote)) = 1
    /\ Alias(quote) \in Contracts[c][slot]

Guarded(t, c) == \E i \in DOMAIN t : t[i] \in Contracts[c].guards

(* adjudicate *)
Adjudicate(t, r, c) ==
    IF r.decision = "malformed" THEN "explicit_failure"
    ELSE IF r.decision # "accept" THEN r.decision
    ELSE IF ~(/\ Resolves(t, r.target, "target", c)
              /\ Resolves(t, r.destination, "destination", c)) THEN "explicit_failure"
    ELSE IF Guarded(t, c) THEN "reject" ELSE "accept"

-----------------------------------------------------------------------------
(* Version 3 *)

Lexed(t) == SelectSeq(t, LAMBDA w : w # "#")
Gaps(t) == \E i \in DOMAIN t : t[i] = "#"

(* The longest alias that starts at a word, of either slot. *)
AliasesAt(t, i, c) ==
    {a \in Contracts[c].target \cup Contracts[c].destination :
        i \in Occurrences(t, a)}
Longest(S) == CHOOSE a \in S : \A b \in S : Len(b) <= Len(a)

(* The ledger: [from, to, symbol] for the words, aliases taken together. *)
Ledger(t, c) ==
    LET rows[i \in 1..(Len(t) + 1)] ==
          IF i > Len(t) THEN <<>>
          ELSE IF AliasesAt(t, i, c) = {}
               THEN <<[from |-> i, to |-> i, symbol |-> t[i]]>> \o rows[i + 1]
          ELSE LET a == Longest(AliasesAt(t, i, c))
               IN <<[from |-> i, to |-> i + Len(a) - 1,
                     symbol |-> IF a \in Contracts[c].target THEN "T" ELSE "B"]>>
                  \o rows[i + Len(a)]
    IN rows[1]
Symbols(t, c) ==
    LET rows == Ledger(t, c) IN [i \in DOMAIN rows |-> rows[i].symbol]

(* inspect_coverage *)
Complete(t, c) ==
    /\ Symbols(Lexed(t), c) \in Grammar
    /\ ~Gaps(t)
    /\ ~\E i \in DOMAIN t : t[i] \in Negations
Uncovered(t) ==
    IF \E i \in DOMAIN t : t[i] \in Negations THEN "reject" ELSE "unknown"

(* adjudicate_covered *)
AdjudicateCovered(t, r, c) ==
    IF Adjudicate(t, r, c) = "accept" /\ ~Complete(t, c)
    THEN Uncovered(t) ELSE Adjudicate(t, r, c)

-----------------------------------------------------------------------------
Init ==
    /\ text \in Starts /\ contract \in DOMAIN Contracts
    /\ raw = Unread /\ permit = None /\ outcome = "idle" /\ edits = 0

(* Another request: another word, one more or one less. *)
ChangeText ==
    /\ edits < MaxEdits /\ edits' = edits + 1
    /\ outcome = "idle"
    /\ \/ \E i \in 1..(Len(text) + 1), w \in Words : text' = InsertAt(text, i, w)
       \/ \E i \in DOMAIN text : text' = RemoveAt(text, i)
       \/ \E i \in DOMAIN text, w \in Words : text' = [text EXCEPT ![i] = w]
    /\ UNCHANGED <<contract, raw, permit, outcome>>

ChangeContract ==
    /\ outcome = "idle" /\ permit # None
    /\ contract' \in DOMAIN Contracts \ {contract}
    /\ UNCHANGED <<text, raw, permit, outcome, edits>>

(* The model answers. *)
Propose ==
    /\ raw = Unread
    /\ raw' \in {[decision |-> d] : d \in {"reject", "unknown", "malformed"}}
                \cup {[decision |-> "accept", target |-> p.target,
                       destination |-> p.destination] : p \in Proposals}
    /\ UNCHANGED <<text, contract, permit, outcome, edits>>

Permit(t, r, c) == [text |-> t, raw |-> r, contract |-> c, derivation |-> Symbols(t, c)]

(* authorize: no permit unless version 3 accepts. *)
Authorize ==
    /\ raw # Unread /\ permit = None /\ outcome = "idle"
    /\ IF AdjudicateCovered(text, raw, contract) = "accept"
       THEN permit' = Permit(text, raw, contract) /\ UNCHANGED outcome
       ELSE outcome' = "refused" /\ UNCHANGED permit
    /\ UNCHANGED <<text, contract, raw, edits>>

(* Slip: the permit is taken as it is. *)
ExecuteOnPermit ==
    /\ permit # None /\ outcome = "idle"
    /\ outcome' = IF permit.text = text THEN "port" ELSE "refused"
    /\ UNCHANGED <<text, contract, raw, permit, edits>>

(* What would be authorized now is what was. *)
Current ==
    /\ permit.text = text
    /\ AdjudicateCovered(text, permit.raw, contract) = "accept"
    /\ Permit(text, permit.raw, contract) = permit

(* execute_covered: the backend is made once the permit has been derived      *)
(* again.                                                                     *)
Execute ==
    /\ permit # None /\ outcome = "idle"
    /\ outcome' = IF Current THEN "port" ELSE "refused"
    /\ UNCHANGED <<text, contract, raw, permit, edits>>

Next == ChangeText \/ ChangeContract \/ Propose \/ Authorize \/ Execute
Spec == Init /\ [][Next]_vars

-----------------------------------------------------------------------------
(* Types. *)
TypeOK ==
    /\ text \in Seq(Words) /\ contract \in DOMAIN Contracts
    /\ permit # None =>
         /\ permit.text \in Seq(Words) /\ permit.raw = raw
         /\ permit.raw.decision = "accept" /\ permit.derivation \in Grammar
    /\ outcome = "port" => permit # None

Overlap(a, b) == a.from <= b.to /\ b.from <= a.to
Span(t, quote) ==
    LET i == CHOOSE x \in Occurrences(t, quote) : TRUE
    IN [from |-> i, to |-> i + Len(quote) - 1]

(* What reaches a backend names one object and one place: every mention of    *)
(* either in the text belongs to the one the model quoted, no word is left    *)
(* over and none denies it, and only the basket is moved into.                *)
ExecutedIsUnambiguous ==
    outcome = "port" =>
      LET rows == Ledger(text, contract)
          Of(symbol) == {i \in DOMAIN rows : rows[i].symbol = symbol}
      IN /\ Cardinality(Of("T")) = 1 /\ Cardinality(Of("B")) = 1
         /\ \A i \in Of("T") : Overlap(rows[i], Span(text, permit.raw.target))
         /\ \A i \in Of("B") : Overlap(rows[i], Span(text, permit.raw.destination))
         /\ \A a \in Contracts[contract].target : \A x \in Occurrences(text, a) :
              \E i \in Of("T") : Overlap(rows[i], [from |-> x, to |-> x])
         /\ \A i \in DOMAIN text : text[i] \notin Negations \cup {"#"}
         /\ \A i \in DOMAIN rows : rows[i].symbol \in Prepositions =>
              \E j \in {i + 1, i + 2} \cap DOMAIN rows :
                 rows[j].symbol = "B" /\ (j = i + 2 => rows[i + 1].symbol \in Articles)

(* A backend is made only for a request that the contract in force accepts in *)
(* both versions, whatever was permitted before.                              *)
ExecutedIsInForce ==
    outcome = "port" =>
      /\ permit.contract = contract /\ permit.text = text
      /\ Adjudicate(text, permit.raw, contract) = "accept"
      /\ Complete(text, contract)
=============================================================================
