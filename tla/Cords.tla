-------------------------------- MODULE Cords --------------------------------
(***************************************************************************)
(* Cords (cord/cordbscs.c, cord/cordxtra.c): strings as trees of           *)
(* concatenations over flat strings and functions.  A client builds cords  *)
(* with the operations of cord.h and walks one with a position.  Beside    *)
(* each cord stands the string it should be; no code reads it.             *)
(*                                                                         *)
(* A string is a sequence of characters, 0 the NUL that a flat string      *)
(* cannot hold.                                                            *)
(***************************************************************************)
EXTENDS Integers, Sequences, SequencesExt, FiniteSets, FiniteSetsExt

CONSTANTS
    SHORT_LIMIT, SUBSTR_LIMIT, MAX_LEFT_LEN,
    CORD_MAX_DEPTH,
    CORD_FUNCTION_BUF_SZ, STR_START_MAX_LEN,
    MaxLen,     \* bound: length of a cord
    Longest,    \* the client starts from no cord or from this many characters
    MaxOps      \* bound: operations before the cord is walked

\* What is assumed of the constants.
CordsAssumption ==
    /\ {SHORT_LIMIT, CORD_FUNCTION_BUF_SZ, STR_START_MAX_LEN} \subseteq Nat \ {0}
    /\ SHORT_LIMIT <= SUBSTR_LIMIT /\ CORD_MAX_DEPTH > 2

VARIABLES
    cord,   \* [x |-> the cord, s |-> the string it should be]
    other,  \* another cord of the client, the same way
    pos,    \* a position in cord
    used    \* operations so far

cordVars == <<cord, other, pos, used>>

EMPTY == [tag |-> "empty"]
Flat(s) == [tag |-> "str", s |-> s]
IsString(x) == x.tag = "str"
IsConcat(x) == x.tag = "cat"

(***************************************************************************)
(* Function nodes, and what is read of a cord.                             *)
(***************************************************************************)
\* The j-th character of a function node: the client's function, or
\* CORD_index_access_fn and CORD_apply_access_fn of a substring node.
RECURSIVE FnChar(_, _)
FnChar(x, j) ==
    IF ~x.sub THEN x.s[j + 1]
    ELSE IF IsString(x.base) THEN x.base.s[j + x.index + 1] ELSE FnChar(x.base, j + x.index)

CordLen(x) == CASE x = EMPTY -> 0
                [] IsString(x) -> Len(x.s)
                [] OTHER -> x.len

LEFT_LEN(x) ==
    CASE x.left_len # 0 -> x.left_len
      [] x.left_len = 0 /\ IsString(x.left) -> x.len - CordLen(x.right)
      [] OTHER -> x.left.len

\* CORD_from_fn_inner, for the function of node f
FromFn(f, len) ==
    LET flat == [j \in 1 .. len |-> FnChar(f, j - 1)]
    IN  CASE len = 0 -> EMPTY
          [] len \in 1 .. SHORT_LIMIT /\ 0 \notin ToSet(flat) -> Flat(flat)
          [] OTHER -> f

CORD_from_fn(s) == FromFn([tag |-> "fn", len |-> Len(s), sub |-> FALSE, s |-> s], Len(s))

CORD_substr_closure(x, i, n) ==
    FromFn([tag |-> "fn", len |-> n, sub |-> TRUE, base |-> x, index |-> i], n)

(***************************************************************************)
(* Concatenation and balancing.                                            *)
(***************************************************************************)
DEPTH(x) == IF IsConcat(x) THEN x.depth ELSE 0

Concat(x, len_x, y, len, depth) ==
    [tag |-> "cat", left |-> x, right |-> y, len |-> len, depth |-> depth,
     left_len |-> IF len_x <= MAX_LEFT_LEN THEN len_x ELSE 0]

\* CORD_init_min_len
min_len == LET fib[i \in 0 .. CORD_MAX_DEPTH - 1] == CASE i = 0 -> 1 [] i = 1 -> 2 [] OTHER -> fib[i - 1] + fib[i - 2]
           IN  fib

\* A forest has a cord or nothing at each level; its string is that of the
\* levels from the highest to the lowest.
EmptyForest == [i \in 0 .. CORD_MAX_DEPTH - 1 |-> EMPTY]

RECURSIVE CORD_cat(_, _), CORD_cat_char_star(_, _), CORD_balance(_)
RECURSIVE CollectBelow(_, _, _, _), Settle(_, _, _), CORD_balance_insert(_, _, _)
RECURSIVE CORD_concat_forest(_, _, _)

\* CORD_add_forest, the levels too low for a cord of this length
CollectBelow(forest, i, len, sum) ==
    IF len > min_len[i + 1]
    THEN CollectBelow([forest EXCEPT ![i] = EMPTY], i + 1, len, CORD_cat(forest[i], sum))
    ELSE [forest |-> forest, level |-> i, sum |-> sum]

\* CORD_add_forest, up to the level the sum belongs to
Settle(forest, i, sum) ==
    IF CordLen(sum) >= min_len[i]
    THEN Settle([forest EXCEPT ![i] = EMPTY], i + 1, CORD_cat(forest[i], sum))
    ELSE [forest EXCEPT ![i - 1] = sum]

CORD_add_forest(forest, x, len) ==
    LET low == CollectBelow(forest, 0, len, EMPTY)
    IN  Settle(low.forest, low.level, CORD_cat(low.sum, x))

Unbalanced(x, len) == IsConcat(x) /\ (x.depth >= CORD_MAX_DEPTH \/ len < min_len[x.depth])

CORD_balance_insert(x, len, forest) ==
    IF Unbalanced(x, len)
    THEN LET left_len == LEFT_LEN(x)
         IN  CORD_balance_insert(x.right, len - left_len,
                                 CORD_balance_insert(x.left, left_len, forest))
    ELSE CORD_add_forest(forest, x, len)

CORD_concat_forest(forest, i, sum) ==
    IF i = CORD_MAX_DEPTH THEN sum
    ELSE CORD_concat_forest(forest, i + 1, CORD_cat(forest[i], sum))

\* Every level above the length of x stays empty, so all of them are read
\* instead of those up to the expected length.
CORD_balance(x) ==
    IF x = EMPTY \/ IsString(x) THEN x
    ELSE CORD_concat_forest(CORD_balance_insert(x, x.len, EmptyForest), 0, EMPTY)

Balanced(x) == IF x.depth >= CORD_MAX_DEPTH THEN CORD_balance(x) ELSE x

\* The length of the right part, as CORD_cat_char_star finds it.
RightLen(x) == CASE ~IsString(x.left) -> x.len - x.left.len
                 [] IsString(x.left) /\ x.left_len # 0 -> x.len - x.left_len
                 [] OTHER -> Len(x.right.s)

MergesRight(x, y) ==
    /\ Len(y) <= SHORT_LIMIT \div 2
    /\ IsConcat(x) /\ IsString(x.right)
    /\ RightLen(x) + Len(y) <= SHORT_LIMIT

MergedConcatStale(x, y) == Concat(x.left, x.len, Flat(x.right.s \o y), x.len + Len(y), DEPTH(x.left) + 1)

MergedConcat(x, y) ==
    Concat(x.left, x.len - RightLen(x), Flat(SubSeq(x.right.s, 1, RightLen(x)) \o y),
           x.len + Len(y), DEPTH(x.left) + 1)

CORD_cat_char_star(x, y) ==
    CASE y = <<>> -> x
      [] y # <<>> /\ x = EMPTY -> Flat(y)
      [] IsString(x) /\ Len(x.s) + Len(y) <= SHORT_LIMIT -> Flat(x.s \o y)
      [] IsConcat(x) /\ MergesRight(x, y) -> Balanced(MergedConcat(x, y))
      [] OTHER -> Balanced(Concat(x, CordLen(x), Flat(y), CordLen(x) + Len(y), DEPTH(x) + 1))

CORD_cat(x, y) ==
    CASE x = EMPTY -> y
      [] y = EMPTY -> x
      [] x # EMPTY /\ IsString(y) -> CORD_cat_char_star(x, y.s)
      [] OTHER -> Balanced(Concat(x, CordLen(x), y, CordLen(x) + CordLen(y),
                                  Max({DEPTH(x), DEPTH(y)}) + 1))

(***************************************************************************)
(* Substrings.                                                             *)
(***************************************************************************)
\* A substring of a function node that holds no NUL and is not too long is
\* copied; of a substring node it refers to what that one refers to.
FnSubstr(x, i, n) ==
    LET chars == [j \in 1 .. n |-> FnChar(x, i + j - 1)]
    IN  CASE n <= SUBSTR_LIMIT /\ 0 \notin ToSet(chars) -> Flat(chars)
          [] n <= SUBSTR_LIMIT /\ 0 \in ToSet(chars) -> CORD_substr_closure(x, i, n)
          [] n > SUBSTR_LIMIT /\ x.sub -> CORD_substr_closure(x.base, i + x.index, n)
          [] OTHER -> CORD_substr_closure(x, i, n)

RECURSIVE CORD_substr_checked(_, _, _)
CORD_substr_checked(x, i, n) ==
    CASE IsString(x) /\ n > SUBSTR_LIMIT -> CORD_substr_closure(x, i, n)
      [] IsString(x) /\ n <= SUBSTR_LIMIT -> Flat(SubSeq(x.s, i + 1, i + n))
      [] x.tag = "fn" -> FnSubstr(x, i, n)
      [] IsConcat(x) ->
           LET ll == LEFT_LEN(x)
               rl == x.len - ll
               left_part == IF i = 0 THEN x.left ELSE CORD_substr_checked(x.left, i, ll - i)
               right_part == IF i + n = x.len THEN x.right
                             ELSE CORD_substr_checked(x.right, 0, n - (ll - i))
           IN  CASE i >= ll -> IF n = rl THEN x.right ELSE CORD_substr_checked(x.right, i - ll, n)
                 [] i + n <= ll -> IF n = ll THEN x.left ELSE CORD_substr_checked(x.left, i, n)
                 [] OTHER -> CORD_cat(left_part, right_part)

CORD_substr(x, i, n) ==
    IF i >= CordLen(x) \/ n = 0 THEN EMPTY
    ELSE CORD_substr_checked(x, i, Min({n, CordLen(x) - i}))

(***************************************************************************)
(* Iteration and search.                                                   *)
(***************************************************************************)
\* The characters CORD_iter5 gives its functions from i on, none of which
\* ends it.
RECURSIVE CORD_iter5(_, _)
CORD_iter5(x, i) ==
    CASE x = EMPTY -> <<>>
      [] IsString(x) -> SubSeq(x.s, i + 1, Len(x.s))
      [] x.tag = "fn" -> [j \in 1 .. x.len - i |-> FnChar(x, i + j - 1)]
      [] IsConcat(x) ->
           IF i > 0 /\ i >= LEFT_LEN(x) THEN CORD_iter5(x.right, i - LEFT_LEN(x))
           ELSE CORD_iter5(x.left, i) \o CORD_iter5(x.right, 0)

\* ... and CORD_riter4, from i back to the start
RECURSIVE CORD_riter4(_, _)
CORD_riter4(x, i) ==
    CASE x = EMPTY -> <<>>
      [] IsString(x) -> Reverse(SubSeq(x.s, 1, i + 1))
      [] x.tag = "fn" -> [j \in 1 .. i + 1 |-> FnChar(x, i + 1 - j)]
      [] IsConcat(x) ->
           IF i >= LEFT_LEN(x)
           THEN CORD_riter4(x.right, i - LEFT_LEN(x)) \o CORD_riter4(x.left, LEFT_LEN(x) - 1)
           ELSE CORD_riter4(x.left, i)

NotFound == -1

FirstIn(s, c) == IF c \in ToSet(s) THEN Min({j \in DOMAIN s : s[j] = c}) - 1 ELSE NotFound

CORD_chr(x, i, c) == LET d == FirstIn(CORD_iter5(x, i), c) IN IF d = NotFound THEN d ELSE i + d
CORD_rchr(x, i, c) == LET d == FirstIn(CORD_riter4(x, i), c) IN IF d = NotFound THEN d ELSE i - d

(***************************************************************************)
(* Positions: the path from the root to the leaf of the current character, *)
(* and a flat piece of the cord around it (a string leaf, or some          *)
(* characters of a function leaf) if cur_end is not 0.                     *)
(***************************************************************************)
NoPos == [path |-> <<>>]
Valid(p) == p.path # <<>>
LeafOf(p) == Last(p.path).c
LeafStart(p) == Last(p.path).start

\* The path from its last node down to the leaf that holds position i.
RECURSIVE Descend(_, _)
Descend(path, i) ==
    LET top == Last(path).c
        at == Last(path).start
    IN  IF ~IsConcat(top) THEN path
        ELSE IF i >= at + LEFT_LEN(top)
        THEN Descend(Append(path, [c |-> top.right, start |-> at + LEFT_LEN(top)]), i)
        ELSE Descend(Append(path, [c |-> top.left, start |-> at]), i)

CORD_extend_path(path, i) ==
    LET full == Descend(path, i)
        leaf == Last(full).c
        at == Last(full).start
        stop == at + CordLen(leaf)
    IN  IF i >= stop THEN NoPos
        ELSE [path |-> full, cur_pos |-> i,
              cur_leaf |-> IF IsString(leaf) THEN leaf.s ELSE <<>>,
              cur_start |-> IF IsString(leaf) THEN at ELSE 0,
              cur_end |-> IF IsString(leaf) THEN stop ELSE 0]

CORD_set_pos(x, i) ==
    IF x = EMPTY THEN NoPos ELSE CORD_extend_path(<<[c |-> x, start |-> 0]>>, i)

\* The path popped while its last two nodes start (not) at the same place.
RECURSIVE Pop(_, _)
Pop(path, same) ==
    IF Len(path) > 1 /\ (Last(path).start = path[Len(path) - 1].start) = same
    THEN Pop(Front(path), same) ELSE path

\* CORD__next fills the buffer from the next character of a function leaf.
FillBuf(p) ==
    LET next == p.cur_pos + 1
        limit == Min({CORD_FUNCTION_BUF_SZ, LeafStart(p) + LeafOf(p).len - next})
    IN  [p EXCEPT !.cur_pos = next, !.cur_start = next, !.cur_end = next + limit,
                  !.cur_leaf = [j \in 1 .. limit |-> FnChar(LeafOf(p), next + j - 1 - LeafStart(p))]]

CORD__next(p) ==
    IF ~IsString(LeafOf(p)) /\ p.cur_pos + 1 < LeafStart(p) + LeafOf(p).len
    THEN FillBuf(p)
    ELSE LET left == Pop(p.path, FALSE)
         IN  IF Len(left) = 1 THEN NoPos ELSE CORD_extend_path(Front(left), p.cur_pos + 1)

CORD_next(p) ==
    IF p.cur_pos + 1 < p.cur_end THEN [p EXCEPT !.cur_pos = @ + 1] ELSE CORD__next(p)

CORD__prev(p) ==
    CASE p.cur_pos = 0 -> NoPos
      [] p.cur_pos > LeafStart(p) -> [p EXCEPT !.cur_pos = @ - 1]
      [] OTHER -> CORD_extend_path(Front(Pop(p.path, TRUE)), p.cur_pos - 1)

CORD_prev(p) ==
    IF p.cur_end # 0 /\ p.cur_pos > p.cur_start THEN [p EXCEPT !.cur_pos = @ - 1] ELSE CORD__prev(p)

CORD_pos_fetch(p) ==
    IF p.cur_end # 0 THEN p.cur_leaf[p.cur_pos - p.cur_start + 1]
    ELSE FnChar(LeafOf(p), p.cur_pos - LeafStart(p))

(***************************************************************************)
(* Comparison and search by positions.                                     *)
(***************************************************************************)
CharsLeft(p) == p.cur_end - p.cur_pos
CurChars(p, n) == SubSeq(p.cur_leaf, p.cur_pos - p.cur_start + 1, p.cur_pos - p.cur_start + n)

\* CORD_pos_advance over n characters of the flat piece.
Advance(p, n) == CORD_next([p EXCEPT !.cur_pos = @ + n - 1])

Sign(n) == CASE n < 0 -> -1 [] n = 0 -> 0 [] n > 0 -> 1

\* memcmp and strncmp: the order of the first characters that differ.
Order(s, t) ==
    LET D == {j \in DOMAIN s \cup DOMAIN t :
                 \/ j \notin DOMAIN s \/ j \notin DOMAIN t
                 \/ j \in DOMAIN s \cap DOMAIN t /\ s[j] # t[j]}
        d == Min(D)
    IN  CASE D = {} -> 0
          [] D # {} /\ d \notin DOMAIN s -> -1
          [] D # {} /\ d \in DOMAIN s /\ d \notin DOMAIN t -> 1
          [] OTHER -> Sign(s[d] - t[d])

Prefix(s, n) == SubSeq(s, 1, Min({n, Len(s)}))

\* The loop of CORD_ncmp, with len characters to go.
RECURSIVE Compare(_, _, _)
Compare(xp, yp, len) ==
    CASE len = 0 \/ (~Valid(xp) /\ ~Valid(yp)) -> 0
      [] len > 0 /\ ~Valid(xp) /\ Valid(yp) -> -1
      [] len > 0 /\ Valid(xp) /\ ~Valid(yp) -> 1
      [] OTHER ->
           LET avail == Min({CharsLeft(xp), CharsLeft(yp), len})
               one == Sign(CORD_pos_fetch(xp) - CORD_pos_fetch(yp))
               all == Order(CurChars(xp, avail), CurChars(yp, avail))
           IN  IF avail <= 0
               THEN IF one # 0 THEN one ELSE Compare(CORD_next(xp), CORD_next(yp), len - 1)
               ELSE IF all # 0 THEN all ELSE Compare(Advance(xp, avail), Advance(yp, avail), len - avail)

CORD_ncmp(x, x_start, y, y_start, len) ==
    CASE len = 0 -> 0
      [] len > 0 /\ x_start = 0 /\ y_start = 0 /\ y = EMPTY -> IF x = EMPTY THEN 0 ELSE 1
      [] len > 0 /\ x_start = 0 /\ y_start = 0 /\ y # EMPTY /\ x = EMPTY -> -1
      [] len > 0 /\ IsString(x) /\ IsString(y) ->
           Order(Prefix(SubSeq(x.s, x_start + 1, Len(x.s)), len),
                 Prefix(SubSeq(y.s, y_start + 1, Len(y.s)), len))
      [] OTHER -> Compare(CORD_set_pos(x, x_start), CORD_set_pos(y, y_start), len)

\* The loop of CORD_str: buf holds the characters of x at match_pos, xpos is
\* behind them.
StrMatches(x, at, s, slen, head, buf) ==
    buf = head /\ (slen = Len(head) \/ CORD_ncmp(x, at + Len(head), s, Len(head), slen - Len(head)) = 0)

RECURSIVE Match(_, _, _, _, _, _)
Match(x, at, s, head, buf, xpos) ==
    CASE StrMatches(x, at, s, CordLen(s), head, buf) -> at
      [] ~StrMatches(x, at, s, CordLen(s), head, buf) /\ at = CordLen(x) - CordLen(s) -> NotFound
      [] OTHER -> Match(x, at + 1, s, head, Append(Tail(buf), CORD_pos_fetch(xpos)), CORD_next(xpos))

RECURSIVE Fetched(_, _)
Fetched(p, n) == IF n = 0 THEN [s |-> <<>>, p |-> p]
                 ELSE LET rest == Fetched(CORD_next(p), n - 1)
                      IN  [s |-> <<CORD_pos_fetch(p)>> \o rest.s, p |-> rest.p]

CORD_str(x, start, s) ==
    IF s = EMPTY THEN start
    ELSE IF CordLen(x) < start \/ CordLen(x) - start < CordLen(s) THEN NotFound
    ELSE LET start_len == Min({CordLen(s), STR_START_MAX_LEN})
             head == Prefix(CORD_iter5(CORD_substr(s, 0, STR_START_MAX_LEN), 0), start_len)
             first == Fetched(CORD_set_pos(x, start), start_len)
         IN  Match(x, start, s, head, first.s, first.p)

(***************************************************************************)
(* The client.                                                             *)
(***************************************************************************)
\* n characters not like the last ones of the cord
Chars(n) == [j \in 1 .. n |-> ((used + j) % 3) + 1]

Step == used < MaxOps /\ ~Valid(pos) /\ used' = used + 1 /\ pos' = pos

Becomes(x, s) == Len(s) <= MaxLen /\ cord' = [x |-> x, s |-> s] /\ other' = other

AppendChars(n) == Step /\ Becomes(CORD_cat_char_star(cord.x, Chars(n)), cord.s \o Chars(n))

PrependChars(n) == Step /\ Becomes(CORD_cat(Flat(Chars(n)), cord.x), Chars(n) \o cord.s)

AppendFn(n, nul) ==
    LET s == IF nul THEN [Chars(n) EXCEPT ![n] = 0] ELSE Chars(n)
    IN  Step /\ Becomes(CORD_cat(cord.x, CORD_from_fn(s)), cord.s \o s)

CatOther == other.x # EMPTY /\ Step /\ Becomes(CORD_cat(cord.x, other.x), cord.s \o other.s)

Balance == IsConcat(cord.x) /\ Step /\ Becomes(CORD_balance(cord.x), cord.s)

Substr(of, i, n) ==
    /\ Step
    /\ other' = [x |-> CORD_substr(of.x, i, n), s |-> SubSeq(of.s, i + 1, Min({Len(of.s), i + n}))]
    /\ cord' = cord

SetPos(i) == ~Valid(pos) /\ pos' = CORD_set_pos(cord.x, i) /\ UNCHANGED <<cord, other, used>>
MoveNext == Valid(pos) /\ pos' = CORD_next(pos) /\ UNCHANGED <<cord, other, used>>
MovePrev == Valid(pos) /\ pos' = CORD_prev(pos) /\ UNCHANGED <<cord, other, used>>

\* The cord of k characters that were put in front of each other.
RECURSIVE Comb(_)
Comb(k) == IF k = 0 THEN EMPTY ELSE CORD_cat(Flat(<<(k % 3) + 1>>), Comb(k - 1))

CordsInit ==
    /\ \E k \in {0, Longest} : cord = [x |-> Comb(k), s |-> [j \in 1 .. k |-> ((k + 1 - j) % 3) + 1]]
    /\ other = [x |-> EMPTY, s |-> <<>>]
    /\ pos = NoPos
    /\ used = 0

CordsNext ==
    \/ \E n \in {1, SUBSTR_LIMIT + 2} : AppendChars(n)
    \/ \E n \in {1, SHORT_LIMIT} : PrependChars(n)
    \/ \E n \in {2, SUBSTR_LIMIT + 2}, nul \in BOOLEAN : AppendFn(n, nul)
    \/ CatOther
    \/ Balance
    \/ \E of \in {cord, other} : \E i \in DOMAIN of.s : \E n \in 1 .. Len(of.s) - i + 1 : Substr(of, i - 1, n)
    \/ \E i \in {0, 3, Len(cord.s) - 1} \cap Nat : SetPos(i)
    \/ MoveNext
    \/ MovePrev

CordsSpec == CordsInit /\ [][CordsNext]_cordVars

(***************************************************************************)
(* Properties.                                                             *)
(***************************************************************************)
\* Used operations, and a position whose piece lies inside the cord's lengths.
CordsTypeOK ==
    /\ used \in 0 .. MaxOps
    /\ Valid(pos) => /\ pos.cur_pos \in 0 .. MaxLen /\ pos.cur_end \in 0 .. MaxLen
                     /\ Len(pos.path) <= CORD_MAX_DEPTH + 1

\* The lengths and depths that x and its parts carry are theirs, no part is
\* empty, and none is so deep that a path to a leaf would not fit the array
\* of CORD_MAX_DEPTH + 1 nodes of a position.
RECURSIVE WellFormed(_)
WellFormed(x) ==
    IsConcat(x) =>
        /\ x.left # EMPTY /\ x.right # EMPTY
        /\ WellFormed(x.left) /\ WellFormed(x.right)
        /\ x.len = CordLen(x.left) + CordLen(x.right)
        /\ LEFT_LEN(x) = CordLen(x.left)
        /\ x.depth = Max({DEPTH(x.left), DEPTH(x.right)}) + 1
        /\ x.depth < CORD_MAX_DEPTH

\* Every cord the client builds, by concatenations that merge short pieces or
\* balance, by substrings and by functions, is the string it should be, both
\* for CORD_iter5 from any place and for CORD_riter4, with right lengths.
CordsDenote ==
    \A c \in {cord, other} :
        /\ CordLen(c.x) = Len(c.s) /\ WellFormed(c.x)
        /\ \A i \in DOMAIN c.s : /\ CORD_iter5(c.x, i - 1) = SubSeq(c.s, i, Len(c.s))
                                 /\ CORD_riter4(c.x, i - 1) = Reverse(SubSeq(c.s, 1, i))

\* CORD_balance gives a tree that is at most two levels deeper than the
\* highest level a cord of its length has in the forest, so that the depth is
\* logarithmic in the length.
BalanceShallow ==
    IsConcat(cord.x) =>
        DEPTH(CORD_balance(cord.x)) <= Max({k \in DOMAIN min_len : min_len[k] <= Len(cord.s)}) + 2

\* CORD_str finds the first occurrence of another cord from any place on,
\* CORD_chr and CORD_rchr those of a character, and CORD_ncmp the order.
SearchesExact ==
    ~Valid(pos) =>
        LET Here(at) == SubSeq(cord.s, at + 1, at + Len(other.s)) = other.s
            From(i) == {at \in i .. Len(cord.s) - Len(other.s) : Here(at)}
        IN  \A i \in 0 .. Len(cord.s) - 1 :
                /\ CORD_str(cord.x, i, other.x) = IF From(i) = {} THEN NotFound ELSE Min(From(i))
                /\ \A c \in 1 .. 3 :
                      /\ LET at == {k \in i .. Len(cord.s) - 1 : cord.s[k + 1] = c}
                         IN  CORD_chr(cord.x, i, c) = IF at = {} THEN NotFound ELSE Min(at)
                      /\ LET at == {k \in 0 .. i : cord.s[k + 1] = c}
                         IN  CORD_rchr(cord.x, i, c) = IF at = {} THEN NotFound ELSE Max(at)
                /\ other.x # EMPTY => \A n \in 1 .. Len(cord.s) :
                      CORD_ncmp(cord.x, i, other.x, 0, n)
                        = Order(Prefix(SubSeq(cord.s, i + 1, Len(cord.s)), n), Prefix(other.s, n))

\* Wherever CORD_next and CORD_prev have brought a position, its path leads
\* from the cord to the leaf that holds the current character, and what
\* CORD_pos_fetch reads is that character, as long as the piece the position
\* keeps is around it.
PositionExact ==
    Valid(pos) =>
        /\ pos.path[1] = [c |-> cord.x, start |-> 0]
        /\ \A k \in 2 .. Len(pos.path) :
              LET up == pos.path[k - 1]
              IN  pos.path[k] \in {[c |-> up.c.left, start |-> up.start],
                                   [c |-> up.c.right, start |-> up.start + CordLen(up.c.left)]}
        /\ pos.cur_pos \in LeafStart(pos) .. LeafStart(pos) + CordLen(LeafOf(pos)) - 1
        /\ (pos.cur_end = 0 \/ pos.cur_pos >= pos.cur_start)
              => CORD_pos_fetch(pos) = cord.s[pos.cur_pos + 1]
==============================================================================
