---------------------------- MODULE SplitMessage ----------------------------
(***************************************************************************)
(* Two ways to cut a long text into messages: split_message of             *)
(* src/bot/utils/formatting.py, for Claude's answers, and _split of        *)
(* src/notifications/service.py, for notices.  One step cuts one message   *)
(* off.                                                                    *)
(*                                                                         *)
(* A character is a record [c, at]: c is a backtick, a letter, a mark, a   *)
(* newline or a space, and at is its place in the text, or 0 if the        *)
(* splitter has added it.                                                  *)
(***************************************************************************)
EXTENDS Integers, FiniteSetsExt, Sequences

CONSTANTS
  ChunkSize,  \* chunk_size and limit
  Texts       \* the texts there are, each a sequence of Symbols

VARIABLES
  splitter,   \* "answer" or "notice", or "none"
  text,       \* what is to be split
  remaining,
  chunks,
  open,       \* in_code_block
  word        \* the length of code_fence: the letters after its backticks

splitVars == <<splitter, text, remaining, chunks, open, word>>

\* A backtick, a letter, another mark, a newline, a space.
Symbols == {"t", "x", ".", "n", " "}

Chars(s) == [k \in DOMAIN s |-> [c |-> s[k], at |-> k]]
Added(s) == [k \in DOMAIN s |-> [c |-> s[k], at |-> 0]]

\* Where pattern begins in w, counted from 0.
Places(w, pattern) ==
  {at \in 0..Len(w) - Len(pattern) :
     \A k \in DOMAIN pattern : w[at + k].c = pattern[k]}

\* The line of a fence with a word of so many letters.
Fence(letters) ==
  [k \in 1..letters + 4 |-> IF k <= 3 THEN "t" ELSE IF k = letters + 4 THEN "n" ELSE "x"]

ASSUME SplitAssumption ==
  ChunkSize \in Nat /\ ChunkSize >= 8 /\ \A t \in Texts : t \in Seq(Symbols)

SplitTypeOK ==
  LET line == Seq([c : Symbols, at : 0..Len(text)]) IN
  /\ splitter \in {"answer", "notice", "none"} /\ text \in Seq(Symbols)
  /\ remaining \in line /\ chunks \in Seq(line)
  /\ open \in BOOLEAN /\ word \in 0..ChunkSize - 3

\* split_message, until what remains fits; and what fits is not split.
SplitInit(splitters) ==
  /\ splitter \in splitters
  /\ text \in IF splitter = "none" THEN {<<>>} ELSE Texts
  /\ remaining = Chars(text)
  /\ chunks = <<>> /\ open = FALSE /\ word = 0

-----------------------------------------------------------------------------

Least(a, b) == IF a < b THEN a ELSE b

\* (mutant) the window is a character too long.
WiderWindow(s) == SubSeq(s, 1, Least(ChunkSize + 1, Len(s)))

Window(s) == SubSeq(s, 1, Least(ChunkSize, Len(s)))
From(s, at) == SubSeq(s, at + 1, Len(s))

\* How many characters of a kind stand in s after the first at.
RunAfter(s, at, kind) ==
  CHOOSE n \in 0..Len(s) - at :
    /\ \A k \in at + 1..at + n : s[k].c \in kind
    /\ at + n < Len(s) => s[at + n + 1].c \notin kind

\* re.findall(r"```(\w*)"): a fence ends with every third backtick of a row.
FenceEnds(w) ==
  {e \in DOMAIN w : \E from \in 1..e :
     /\ \A k \in from..e : w[k].c = "t"
     /\ from > 1 => w[from - 1].c # "t"
     /\ (e - from) % 3 = 2}

\* The code block after the window: each fence opens or closes one, and the last
\* names it.
Fences(w) ==
  LET ends == FenceEnds(w) IN
  [open |-> open # (Cardinality(ends) % 2 = 1),
   word |-> IF ends = {} THEN word ELSE RunAfter(w, Max(ends), {"x"})]

\* w.rfind(pattern, low), for the first pattern that is found: where the text
\* is cut, before the pattern or after it.
Cut(w, low, after) ==
  LET found(pattern) == {at \in Places(w, pattern) : at >= low}
      at(pattern) == Max(found(pattern)) + IF after THEN Len(pattern) ELSE 0
  IN  CASE found(<<"n", "n">>) # {} -> at(<<"n", "n">>)
        [] found(<<"n", "n">>) = {} /\ found(<<"n">>) # {} -> at(<<"n">>)
        [] found(<<"n", "n">>) = {} /\ found(<<"n">>) = {} /\ found(<<" ">>) # {} -> at(<<" ">>)
        [] OTHER -> Least(ChunkSize, Len(w))

\* (mutant) a cut is looked for in the whole window.
AnywhereCut(s) == Cut(Window(s), 0, TRUE)

\* Never in the first half of the window.
AnswerCut(s) == Cut(Window(s), ChunkSize \div 2, TRUE)

\* (mutant) the character at the cut is left out.
RestAfter(s, at) == From(s, at + 1)

\* What remains after a cut.
Rest(s, at) == From(s, at)

\* A block that is open after the window is closed, and opened again.
CutAnswer ==
  LET block == Fences(Window(remaining))
      at == AnswerCut(remaining)
      rest == Rest(remaining, at)
  IN  /\ splitter = "answer"
      /\ Len(remaining) > ChunkSize
      /\ open' = block.open
      /\ word' = IF block.open THEN block.word ELSE 0
      /\ chunks' = Append(chunks, SubSeq(remaining, 1, at)
           \o IF block.open THEN Added(<<"n", "t", "t", "t">>) ELSE <<>>)
      /\ remaining' = (IF block.open /\ rest # <<>> THEN Added(Fence(block.word)) ELSE <<>>) \o rest
      /\ UNCHANGED <<splitter, text>>

Blanks == {" ", "n"}

\* lstrip()
Strip(s) == From(s, RunAfter(s, 0, Blanks))

\* Before the blanks, which are dropped.
CutNotice ==
  LET at == Cut(Window(remaining), 0, FALSE) IN
  /\ splitter = "notice"
  /\ Len(remaining) > ChunkSize
  /\ chunks' = Append(chunks, SubSeq(remaining, 1, at))
  /\ remaining' = Strip(From(remaining, at))
  /\ UNCHANGED <<splitter, text, open, word>>

\* The last message is what fits.
CutLast ==
  /\ splitter # "none"
  /\ remaining # <<>>
  /\ Len(remaining) <= ChunkSize
  /\ chunks' = Append(chunks, remaining)
  /\ remaining' = <<>>
  /\ UNCHANGED <<splitter, text, open, word>>

SplitNext == CutAnswer \/ CutNotice \/ CutLast

-----------------------------------------------------------------------------
(* Properties. *)

\* "Split text" (formatting.py:67, service.py:182): every character of an
\* answer is in the messages or in what remains, once and in its order; a notice
\* loses blanks only.
NothingIsLost ==
  LET all == Append(chunks, remaining) IN
  /\ \A i, j \in DOMAIN all : \A k \in DOMAIN all[i], l \in DOMAIN all[j] :
       /\ i < j \/ (i = j /\ k < l)
       /\ all[i][k].at # 0 /\ all[j][l].at # 0
       => all[i][k].at < all[j][l].at
  /\ \A n \in DOMAIN text :
       \/ \E i \in DOMAIN all : \E k \in DOMAIN all[i] : all[i][k] = [c |-> text[n], at |-> n]
       \/ splitter = "notice" /\ text[n] \in Blanks

\* A message of an answer is at most the four characters that close a block
\* longer than chunk_size, a message of a notice never longer.
ChunksFit ==
  \A k \in DOMAIN chunks :
    Len(chunks[k]) <= ChunkSize + (IF splitter = "answer" THEN 4 ELSE 0)

\* Both ways of splitting keep the text and the size.
SplitIsFaithful == NothingIsLost /\ ChunksFit

\* The length of the fence that was put back at the head of what remains.
PutBack == IF open /\ remaining # <<>> THEN word + 4 ELSE 0

\* Whatever text there is and whatever fence is put back, the loops end: a cut
\* may leave more than there was, and then the next one takes more than that.  It
\* is so if ChunkSize is even, as the 4000 of constants.py:12 is.
EveryCutIsProgress ==
  [][2 * Len(remaining') - PutBack' < 2 * Len(remaining) - PutBack]_splitVars
=============================================================================
