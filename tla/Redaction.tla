------------------------------ MODULE Redaction ------------------------------
(***************************************************************************)
(* What redact (crates/gateway-security/src/redaction.rs) makes of a text  *)
(* in which inspectors found something.  A text is the sequence of its     *)
(* positions, so that it stays visible which of them are left.  Evidence   *)
(* is a set of half-open spans <<start, end>> of bytes, counted from zero. *)
(***************************************************************************)
EXTENDS Naturals, Sequences, SequencesExt

CONSTANTS
  Length,  \* of every text
  Leaf     \* in JSON: the string each position is part of, 0 if it is in none

Text == [i \in 1 .. Length |-> i]
Mark == 0    \* "[REDACTED]"

Covers(span, i) == span[1] < i /\ i <= span[2]

Before(x, y) == x[1] < y[1] \/ (x[1] = y[1] /\ x[2] < y[2])

(* Spans that overlap or touch become one.                                 *)
AddSpan(merged, span) ==
  IF merged = << >> \/ span[1] > Last(merged)[2] THEN Append(merged, span)
  ELSE Append(Front(merged),
              <<Last(merged)[1],
                IF span[2] > Last(merged)[2] THEN span[2] ELSE Last(merged)[2]>>)

Merged(spans) ==
  LET valid == {s \in spans : s[1] < s[2] /\ s[2] <= Length}
  IN FoldLeft(AddSpan, << >>, SetToSortSeq(valid, Before))

ReplaceRange(span, text) ==
  SubSeq(text, 1, span[1]) \o <<Mark>> \o SubSeq(text, span[2] + 1, Len(text))

(* redact_text replaces from the last span to the first: a replacement     *)
(* moves what comes after it.                                              *)
RedactText(spans) == FoldRight(ReplaceRange, Merged(spans), Text)

(* fully_redact_strings: keys and numbers are left as they are.            *)
FullyRedacted == [i \in 1 .. Length |-> IF Leaf[i] = 0 THEN i ELSE Mark]

(* redact_json works on the serialized value and needs the result to be    *)
(* JSON again.  It is if every span lies in one string, it is not if a     *)
(* span begins or ends outside of strings, and it may be if a span begins  *)
(* in one string and ends in another.                                      *)
RedactJson(spans) ==
  LET ends(s) == {Leaf[s[1] + 1], Leaf[s[2]]}
      merged  == ToSet(Merged(spans))
  IN IF \E s \in merged : 0 \in ends(s) THEN {FullyRedacted}
     ELSE IF \A s \in merged : Leaf[s[1] + 1] = Leaf[s[2]] THEN {RedactText(spans)}
     ELSE {FullyRedacted, RedactText(spans)}

=============================================================================
