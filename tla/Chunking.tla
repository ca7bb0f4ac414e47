------------------------------ MODULE Chunking ------------------------------
(***************************************************************************)
(* How the ingestors cut a text into the pieces they store: by size        *)
(* (issues, merge requests, long pages), by section (pages), and source    *)
(* files by declaration, by method, or by lines.  A text is a sequence of  *)
(* characters; a piece is the interval of its positions.                   *)
(***************************************************************************)
EXTENDS Naturals, Sequences, FiniteSets

CONSTANTS
    Kinds,      \* the strategies that are used
    MaxLen,     \* bound on the length of a text
    Size,       \* max_chars, _CHUNK_SIZE
    Short       \* a prefix of this length or less is dropped (50)

(* The kinds of characters.  A declaration, or heading, and a method stand *)
(* for their first one, a stop for the end of a sentence.                  *)
Units == {"text", "blank", "stop", "decl", "fun"}

ASSUME ChunkingAssumption ==
    /\ Kinds \subseteq {"size", "section", "markdown", "blocks", "kotlin"}
    /\ MaxLen \in Nat /\ Short \in Nat /\ Size \in Nat \ {0}

VARIABLES
    kind,       \* the strategy
    text,       \* the text
    start,      \* the first position that is not cut yet
    pieces      \* the chunks so far

cutVars == <<kind, text, start, pieces>>

Texts == UNION {[1..n -> Units] : n \in 1..MaxLen}

CutInit ==
    /\ kind \in Kinds /\ text \in Texts
    /\ start = 1 /\ pieces = <<>>

-----------------------------------------------------------------------------
Least(S)    == CHOOSE x \in S : \A y \in S : x <= y
Greatest(S) == CHOOSE x \in S : \A y \in S : x >= y

Total == Len(text)
At(char, a, b) == {i \in a..b : text[i] = char}
Full(a, b)     == {i \in a..b : text[i] # "blank"}

(* strip, and the test for an empty rest.                                  *)
Strip(a, b) ==
    IF Full(a, b) = {} THEN <<>> ELSE << <<Least(Full(a, b)), Greatest(Full(a, b))>> >>

(* Slices of Size characters.                                              *)
Slices(a, b) ==
    [i \in 1..((b - a) \div Size + 1) |->
        <<a + (i - 1) * Size, IF a + i * Size - 1 < b THEN a + i * Size - 1 ELSE b>>]

-----------------------------------------------------------------------------
(* chunk_by_size: the text is stripped first.                              *)
Ends == IF Full(1, Total) = {} THEN 0 ELSE Greatest(Full(1, Total))

(* A piece ends behind the last stop within Size characters, or at Size.   *)
EndOf(a) ==
    LET end   == IF a + Size - 1 < Ends THEN a + Size - 1 ELSE Ends
        stops == At("stop", a + 1, end)
    IN IF end < Ends /\ stops # {} THEN Greatest(stops) ELSE end

Cut ==
    LET a == IF start = 1 THEN Least(Full(1, Total)) ELSE start IN
    /\ kind = "size" /\ start <= Ends
    /\ pieces' = pieces \o Strip(a, EndOf(a))
    /\ start' = EndOf(a) + 1
    /\ UNCHANGED <<kind, text>>

-----------------------------------------------------------------------------
(* Sections, declarations: the first of them at or after a, and where the  *)
(* one that begins at a ends.                                              *)
NextDecl(a) == IF At("decl", a, Total) = {} THEN Total + 1 ELSE Least(At("decl", a, Total))

(* chunk_by_section: what precedes the first heading, and the sections.    *)
Section ==
    LET end == NextDecl(start + 1) - 1 IN
    /\ kind = "section" /\ start <= Total
    /\ pieces' = pieces \o Strip(start, end)
    /\ start' = end + 1
    /\ UNCHANGED <<kind, text>>

(* _chunk_markdown_doc: the same, and a page without any text is a chunk.  *)
Markdown ==
    LET end == NextDecl(start + 1) - 1 IN
    /\ kind = "markdown" /\ start <= Total
    /\ pieces' = IF end = Total /\ pieces \o Strip(start, end) = <<>>
                 THEN << <<1, Total>> >> ELSE pieces \o Strip(start, end)
    /\ start' = end + 1
    /\ UNCHANGED <<kind, text>>

(* _chunk_by_size of a source file without declarations: lines are taken   *)
(* until Size is reached.  A blank is a newline here, and counts with its  *)
(* line; the one that ends the text is that of the last line.  A line is   *)
(* never cut, and it is taken before the length is looked at.              *)
OfLines   == kind \in {"blocks", "kotlin"} /\ At("decl", 1, Total) = {}
FullAt(a) == {e \in At("blank", a, Total) : e + 1 - a >= Size}

(* Mutation: the lines after the last full piece are forgotten.            *)
Lines_Full ==
    /\ OfLines /\ FullAt(start) # {}
    /\ pieces' = pieces \o << <<start, Least(FullAt(start))>> >>
    /\ start' = Least(FullAt(start)) + 1
    /\ UNCHANGED <<kind, text>>

Lines ==
    LET end == IF FullAt(start) = {} THEN Total ELSE Least(FullAt(start)) IN
    /\ OfLines /\ start <= Total
    /\ pieces' = pieces \o << <<start, end>> >>
    /\ start' = end + 1
    /\ UNCHANGED <<kind, text>>

(* What precedes the first declaration is a piece if it is long enough.    *)
Header ==
    LET first == NextDecl(1) IN
    /\ kind \in {"blocks", "kotlin"} /\ At("decl", 1, Total) # {}
    /\ start = 1 /\ first > 1
    /\ pieces' = IF first - 1 > Short THEN Strip(1, first - 1) ELSE <<>>
    /\ start' = first
    /\ UNCHANGED <<kind, text>>

(* Mutation: a long declaration is not sliced.                             *)
Block_Whole ==
    LET end == NextDecl(start + 1) - 1 IN
    /\ kind = "blocks" /\ start <= Total /\ text[start] = "decl"
    /\ pieces' = pieces \o Strip(start, end)
    /\ start' = end + 1
    /\ UNCHANGED <<kind, text>>

(* _chunk_by_blocks: a declaration, or its slices.                         *)
Block ==
    LET end   == NextDecl(start + 1) - 1
        block == Strip(start, end)[1]
    IN
    /\ kind = "blocks" /\ start <= Total /\ text[start] = "decl"
    /\ pieces' = pieces \o
          (IF block[2] - block[1] + 1 > Size THEN Slices(block[1], block[2]) ELSE <<block>>)
    /\ start' = end + 1
    /\ UNCHANGED <<kind, text>>

(* Mutation: the head of a large class is left out.                        *)
Methods_Only(a, b) ==
    LET funs  == At("fun", a, b)
        Until(f) == IF \E g \in funs : g > f THEN Least({g \in funs : g > f}) - 1 ELSE b
        Nth(i)   == CHOOSE f \in funs : Cardinality({g \in funs : g <= f}) = i
    IN [i \in 1..Cardinality(funs) |-> Strip(Nth(i), Until(Nth(i)))[1]]

(* _split_large_block: the head of a class, if it is long enough, and its  *)
(* methods, however long, or slices.                                       *)
Methods(a, b) ==
    LET funs  == At("fun", a, b)
        Until(f) == IF \E g \in funs : g > f THEN Least({g \in funs : g > f}) - 1 ELSE b
        Nth(i)   == CHOOSE f \in funs : Cardinality({g \in funs : g <= f}) = i
    IN IF funs = {} THEN Slices(a, b)
       ELSE (IF Least(funs) - a > Short THEN Strip(a, Least(funs) - 1) ELSE <<>>)
            \o [i \in 1..Cardinality(funs) |-> Strip(Nth(i), Until(Nth(i)))[1]]

(* _chunk_kotlin.                                                          *)
Declaration ==
    LET end   == NextDecl(start + 1) - 1
        block == Strip(start, end)[1]
    IN
    /\ kind = "kotlin" /\ start <= Total /\ text[start] = "decl"
    /\ pieces' = pieces \o
          (IF block[2] - block[1] + 1 > Size THEN Methods(block[1], block[2]) ELSE <<block>>)
    /\ start' = end + 1
    /\ UNCHANGED <<kind, text>>

-----------------------------------------------------------------------------
CutNext == Cut \/ Section \/ Markdown \/ Lines \/ Header \/ Block \/ Declaration

CutSpec == CutInit /\ [][CutNext]_cutVars /\ WF_cutVars(CutNext)

-----------------------------------------------------------------------------
Piece(i) == pieces[i][1]..pieces[i][2]

(* Prefixes that are dropped: before the first declaration of a file, and  *)
(* before the first method of a large class.                               *)
ShortPrefix(k) ==
    /\ kind \in {"blocks", "kotlin"}
    /\ \E a \in 1..k, b \in k..Total :
          /\ b + 1 - a <= Short
          /\ \/ a = 1 /\ b + 1 \in At("decl", 1, Total)
             \/ kind = "kotlin" /\ text[a] = "decl" /\ b + 1 \in At("fun", 1, Total)

(* Every character of a text that has been cut is in one piece and no      *)
(* other, unless it is in a short prefix.                                  *)
EachOnce ==
    \A k \in Full(1, start - 1) :
        LET holding == {i \in DOMAIN pieces : k \in Piece(i)} IN
        Cardinality(holding) = 1 \/ (holding = {} /\ ShortPrefix(k))

(* A piece, before its label is put in front of it, has at most Size       *)
(* characters, except for those the code does not cut: sections, what      *)
(* precedes the first declaration of a file, methods, and the head of a    *)
(* class before its first method.  A piece of lines may be longer by what  *)
(* its last line has, however long that is: without it, it fits.           *)
Fits ==
    \A i \in DOMAIN pieces :
        LET a == pieces[i][1]
            b == pieces[i][2]
        IN \/ b - a < Size
           \/ kind \in {"section", "markdown"}
           \/ kind \in {"blocks", "kotlin"} /\ b < NextDecl(1) /\ NextDecl(1) <= Total
           \/ kind = "kotlin" /\ text[a] = "fun"
           \/ kind = "kotlin" /\ text[a] = "decl" /\ i < Len(pieces) /\ text[pieces[i + 1][1]] = "fun"
           \/ OfLines /\ \A e \in At("blank", a, Total) : e < b => e + 1 - a < Size

(* Every text is cut to its end.                                           *)
CutToTheEnd == <>(start > (IF kind = "size" THEN Ends ELSE Total))
=============================================================================
