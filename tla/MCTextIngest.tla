---------------------------- MODULE MCTextIngest ----------------------------
(* Every text of up to six characters, among them an upper-case letter:    *)
(* two paragraphs with a blank line of blanks between them, and words      *)
(* longer than a token.  The words a and b share a bucket and cancel.      *)
EXTENDS TextIngest

MCLower == [c \in {"A", "b"} |-> IF c = "A" THEN "a" ELSE c]

MCHash == [tok \in UNION {[1..n -> {"a", "b"}] : n \in 1..2} |->
              [bucket |-> IF Len(tok) = 1 \/ tok[1] = tok[2] THEN 0 ELSE 1,
               sign   |-> IF tok[1] = "a" THEN 1 ELSE -1]]
=============================================================================
