----------------------------- MODULE TextIngest -----------------------------
(***************************************************************************)
(* How vecdb addfile turns a text into records: the paragraphs of the text *)
(* (ingest_text in vecdb/src/main.c), the tokens of a paragraph and the    *)
(* buckets they are hashed to (vecdb/src/embed.c), and the documents each  *)
(* bucket occurs in (vecdb/src/index.c).  Failing allocations are in Vecdb.*)
(*                                                                         *)
(* A vector is told by its bucket counts: weights of at least 1 and a      *)
(* common norm change neither a sign nor what is 0.                        *)
(***************************************************************************)
EXTENDS Integers, SequencesExt

CONSTANTS
    Letters,               \* what isalnum accepts
    Lower,                 \* tolower
    MaxText,               \* characters of the longest text
    TokenMax,              \* TOKEN_MAX, 128 in the code
    Dim,                   \* data->hdr.dim
    Hash                   \* of each token the bucket and the sign fnv1a gives

(* A blank or a tab, the two ends of a line, and a mark like a full stop.  *)
Chars   == Letters \cup {"sp", "cr", "nl", "dot"}
Buckets == 0..(Dim - 1)
TokensUpTo(n) == UNION {[1..m -> {Lower[c] : c \in Letters}] : m \in 1..n}

ASSUME IngestAssumption ==
    /\ MaxText \in Nat /\ TokenMax \in Nat \ {0, 1} /\ Dim \in Nat \ {0}
    /\ Letters \cap {"sp", "cr", "nl", "dot", "end"} = {}
    /\ Hash \in [TokensUpTo(TokenMax - 1) -> [bucket : Buckets, sign : {-1, 1}]]

VARIABLES
    text,      \* the text file
    p,         \* ingest_text's p
    para,      \* and its para
    pc,
    payloads,  \* data->payloads
    counts,    \* of each record the counts of its vector
    df         \* vdb_build_index's df

vars == <<text, p, para, pc, payloads, counts, df>>

Init == /\ text \in UNION {[1..n -> Chars] : n \in 0..MaxText}
        /\ p = 1
        /\ para = 1
        /\ pc = "between"
        /\ payloads = <<>>
        /\ counts = <<>>
        /\ df = [b \in Buckets |-> 0]

----------------------------------------------------------------------------
(* embed.c.                                                                *)

(* tf_accumulate, called for each token that ends.                         *)
TfAccumulate(vec, tok) == [vec EXCEPT ![Hash[tok].bucket] = @ + Hash[tok].sign]

(* One character of tokenize.                                              *)
AppendChar(tok, c) == IF Len(tok) < TokenMax - 1 THEN Append(tok, Lower[c]) ELSE tok

Tokenize(acc, c) ==
    CASE c \in Letters    -> [acc EXCEPT !.tok = AppendChar(@, c)]
      [] c \notin Letters -> [tok |-> <<>>,
                              vec |-> IF acc.tok = <<>> THEN acc.vec
                                      ELSE TfAccumulate(acc.vec, acc.tok)]

(* A vector of zeros, and what the characters of s make of it; the end of  *)
(* a text is a character too.                                              *)
NoTokens == [tok |-> <<>>, vec |-> [b \in Buckets |-> 0]]

Tokenized(s) ==
    LET acc[i \in 0..Len(s)] == IF i = 0 THEN NoTokens ELSE Tokenize(acc[i - 1], s[i])
    IN  acc[Len(s)]

EmbedUnended(s) == Tokenized(s).vec
EmbedTf(s) == Tokenized(Append(s, "end")).vec

----------------------------------------------------------------------------
(* ingest_text.                                                            *)
AtEnd == p > Len(text)

SkipBlank ==
    /\ pc = "between" /\ ~AtEnd
    /\ text[p] \in {"nl", "cr", "sp"}
    /\ p' = p + 1
    /\ UNCHANGED <<text, para, pc, payloads, counts, df>>

BeginParagraph ==
    /\ pc = "between" /\ ~AtEnd
    /\ text[p] \notin {"nl", "cr", "sp"}
    /\ para' = p
    /\ pc' = "paragraph"
    /\ UNCHANGED <<text, p, payloads, counts, df>>

(* A newline after which there is nothing but blanks up to the next one,   *)
(* or to the end.                                                          *)
Following == Append(SubSeq(text, p + 1, Len(text)), "nl")
NewlineFollows == ~AtEnd /\ text[p] = "nl" /\ Head(Following) = "nl"
BlankLineFollows ==
    LET look == SelectInSeq(Following, LAMBDA c : c \notin {"cr", "sp"})
    IN  ~AtEnd /\ text[p] = "nl" /\ Following[look] = "nl"

Advance ==
    /\ pc = "paragraph" /\ ~AtEnd
    /\ ~BlankLineFollows
    /\ p' = p + 1
    /\ UNCHANGED <<text, para, pc, payloads, counts, df>>

Fold(s) == [i \in DOMAIN s |-> IF s[i] \in {"nl", "cr"} THEN "sp" ELSE s[i]]

EndParagraph ==
    LET s == Fold(SubSeq(text, para, p - 1))
    IN  /\ pc = "paragraph"
        /\ AtEnd \/ BlankLineFollows
        /\ payloads' = Append(payloads, s)
        /\ counts' = Append(counts, EmbedTf(s))
        /\ p' = IF AtEnd THEN p ELSE p + 1
        /\ pc' = "between"
        /\ UNCHANGED <<text, para, df>>

(* vdb_build_index, unless no paragraph was found.                         *)
TokensInBucket(b) == FoldLeft(LAMBDA n, vec : n + (IF vec[b] < 0 THEN -vec[b] ELSE vec[b]), 0, counts)
DocumentsInBucket(b) == Cardinality({i \in DOMAIN counts : counts[i][b] # 0})

BuildIndex ==
    /\ pc = "between" /\ AtEnd
    /\ df' = [b \in Buckets |-> DocumentsInBucket(b)]
    /\ pc' = "done"
    /\ UNCHANGED <<text, p, para, payloads, counts>>

Done == pc = "done" /\ UNCHANGED vars

Next == SkipBlank \/ BeginParagraph \/ Advance \/ EndParagraph \/ BuildIndex \/ Done

Spec == Init /\ [][Next]_vars

----------------------------------------------------------------------------
(* What a text consists of, said without reading it from left to right.    *)

(* The lines: what lies between two newlines, the first and the last of    *)
(* which are the two ends of the text.                                     *)
Newlines == {0, Len(text) + 1} \cup {i \in DOMAIN text : text[i] = "nl"}
Blank(i, j) == \A x \in i..j : text[x] \in {"nl", "cr", "sp"}

(* Every line of i..j holds something, and i..j is as long as can be.      *)
FullLines(i, j) ==
    /\ i - 1 \in Newlines /\ j + 1 \in Newlines /\ i <= j
    /\ \A m, n \in Newlines : i - 1 <= m /\ m < n /\ n <= j + 1 => ~Blank(m + 1, n - 1)
IsParagraph(i, j) ==
    /\ FullLines(i, j)
    /\ \A m \in Newlines : m < i - 1 => ~FullLines(m + 1, j)
    /\ \A n \in Newlines : n > j + 1 => ~FullLines(i, n - 1)

Places == {x \in (1..Len(text)) \X (1..Len(text)) : IsParagraph(x[1], x[2])}

(* Without the blanks before it, and on one line.                          *)
Paragraph(x) ==
    LET first == CHOOSE i \in x[1]..x[2] : ~Blank(i, i) /\ Blank(x[1], i - 1)
    IN  Fold(SubSeq(text, first, x[2]))

(* L holds the paragraphs at the places of E, in the order of the text.    *)
InOrder(L, E) ==
    /\ Len(L) = Cardinality(E)
    /\ \A x \in E : L[Cardinality({y \in E : y[1] <= x[1]})] = Paragraph(x)

(* The words of s: the runs of letters that are as long as can be.         *)
Word(s, i, j) ==
    /\ \A x \in i..j : s[x] \in Letters
    /\ i - 1 \notin DOMAIN s \/ s[i - 1] \notin Letters
    /\ j + 1 \notin DOMAIN s \/ s[j + 1] \notin Letters
WordsOf(s) == {x \in (DOMAIN s) \X (DOMAIN s) : x[1] <= x[2] /\ Word(s, x[1], x[2])}
Cut(s, x) ==
    LET n == x[2] - x[1] + 1
    IN  [i \in 1..(IF n < TokenMax THEN n ELSE TokenMax - 1) |-> Lower[s[x[1] + i - 1]]]

HashedTo(s, b, sign) ==
    Cardinality({x \in WordsOf(s) : Hash[Cut(s, x)] = [bucket |-> b, sign |-> sign]})

----------------------------------------------------------------------------
(* "Split text into paragraphs (runs of text separated by blank lines)"    *)
(* (main.c:295), wherever the blanks, the newlines and the end are: none   *)
(* is lost, split, joined with the next or taken for one when it is blank. *)
ParagraphsExact == pc = "done" => InOrder(payloads, Places)

(* A record's vector counts each word of its paragraph once, with its sign *)
(* and in its bucket, whatever its case and however long it is.            *)
VectorsExact ==
    \A i \in DOMAIN payloads : \A b \in Buckets :
        counts[i][b] = HashedTo(payloads[i], b, 1) - HashedTo(payloads[i], b, -1)

(* index.c:34 "for each document, count the buckets it touches": a bucket  *)
(* counts no document that has no word in it, so the weights are at least  *)
(* 1 (index.c:46), and it misses one only where the signs of its words in  *)
(* the bucket cancel.                                                      *)
DocumentsCounted ==
    pc = "done" =>
        \A b \in Buckets :
            LET touching == {i \in DOMAIN payloads :
                                HashedTo(payloads[i], b, 1) + HashedTo(payloads[i], b, -1) > 0}
                cancelled == {i \in touching :
                                HashedTo(payloads[i], b, 1) = HashedTo(payloads[i], b, -1)}
            IN  df[b] = Cardinality(touching) - Cardinality(cancelled)
=============================================================================
