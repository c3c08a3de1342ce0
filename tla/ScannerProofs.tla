---------------------------- MODULE ScannerProofs ----------------------------
(***************************************************************************)
(* Proofs about Scanner, for every input, every length of its lines and    *)
(* every nesting of flow collections: the stacks the code pops without a   *)
(* look are never empty, a potential simple key points at a token that is  *)
(* still in the queue, every BLOCK-END closes a block collection,          *)
(* STREAM-END comes once, and a required key is not forgotten.             *)
(*                                                                         *)
(* The fetchers are functions on contexts, and so are the lemmas: what     *)
(* holds of a context holds of the one an operation makes of it.           *)
(***************************************************************************)
EXTENDS Scanner, SequenceFacts

-----------------------------------------------------------------------------
(***************************************************************************)
(* A good context.                                                         *)
(***************************************************************************)
Context == [tokens : Seq(Token), column : 0..MaxColumn + 1, keys : Seq(SimpleKey),
            allowed : BOOLEAN, indent : -1..MaxColumn, indents : Seq(-1..MaxColumn),
            flow : 0..MaxFlow]

(* The levels of indentation grow from -1. *)
GoodLevels(s, n) == LET levels == Append(s, n)
                    IN  /\ levels[1] = -1
                        /\ \A i \in DOMAIN s : levels[i] < levels[i + 1]

(* The keys of a queue of that length, with the scanner at that column: a  *)
(* key of the line it is in was saved before what is now scanned.          *)
GoodKeys(keys, length, col) ==
    /\ \A i \in DOMAIN keys : keys[i].possible =>
          /\ keys[i].at \in 0..length - 1
          /\ keys[i].column <= MaxColumn
          /\ keys[i].oldLine \/ keys[i].column < col
    /\ \A i, j \in DOMAIN keys : i < j /\ keys[i].possible /\ keys[j].possible =>
          keys[i].at < keys[j].at

(* A context in the middle of a fetch: the token of its last key is still  *)
(* to be put into the queue (k = 1), its column to be left (n = 1).        *)
Good(c, k, n) == /\ c \in Context
                 /\ Len(c.keys) = c.flow + 1
                 /\ GoodLevels(c.indents, c.indent)
                 /\ GoodKeys(c.keys, Len(c.tokens) + k, c.column + n)

NoBoundary(c) == \A i \in DOMAIN c.tokens : c.tokens[i] \notin Boundary
Owes(c) == c.keys[1].possible /\ c.keys[1].required
NoneWaits(c) == \A i \in DOMAIN c.keys : c.keys[i].possible => c.keys[i].oldLine

-----------------------------------------------------------------------------
(***************************************************************************)
(* Fields, sequences and keys.                                             *)
(***************************************************************************)
LEMMA ContextFields ==
    ASSUME NEW c \in Context
    PROVE  /\ c.tokens \in Seq(Token) /\ c.column \in 0..MaxColumn + 1
           /\ c.keys \in Seq(SimpleKey) /\ c.allowed \in BOOLEAN
           /\ c.indent \in -1..MaxColumn /\ c.indents \in Seq(-1..MaxColumn)
           /\ c.flow \in 0..MaxFlow
BY DEF Context

(* What a key is. *)
LEMMA KeyFields ==
    ASSUME NEW key \in SimpleKey
    PROVE  /\ key.possible \in BOOLEAN /\ key.required \in BOOLEAN
           /\ key.at \in Int /\ key.column \in 0..MaxColumn + 1 /\ key.oldLine \in BOOLEAN
           /\ Aged(key) \in SimpleKey /\ Aged(key).oldLine
           /\ Aged(key).possible = key.possible /\ Aged(key).required = key.required
           /\ Aged(key).at = key.at /\ Aged(key).column = key.column
           /\ Nearer(key) \in SimpleKey /\ Nearer(key).oldLine = key.oldLine
           /\ Nearer(key).possible = key.possible /\ Nearer(key).required = key.required
           /\ Nearer(key).column = key.column
           /\ key.possible => Nearer(key).at = key.at - 1
<1>1. /\ key.possible \in BOOLEAN /\ key.required \in BOOLEAN
      /\ key.at \in Int /\ key.column \in 0..MaxColumn + 1 /\ key.oldLine \in BOOLEAN
  BY DEF SimpleKey
<1>2. /\ Aged(key) \in SimpleKey /\ Aged(key).oldLine
      /\ Aged(key).possible = key.possible /\ Aged(key).required = key.required
      /\ Aged(key).at = key.at /\ Aged(key).column = key.column
  BY DEF SimpleKey, Aged
<1>3. CASE ~key.possible
  BY <1>1, <1>2, <1>3 DEF Nearer
<1>4. CASE key.possible
  <2>1. Nearer(key) = [key EXCEPT !.at = @ - 1]
    BY <1>4 DEF Nearer
  <2>2. /\ Nearer(key) \in SimpleKey /\ Nearer(key).oldLine = key.oldLine
        /\ Nearer(key).possible = key.possible /\ Nearer(key).required = key.required
        /\ Nearer(key).column = key.column /\ Nearer(key).at = key.at - 1
    BY <2>1 DEF SimpleKey
  <2> QED BY <1>1, <1>2, <2>2
<1> QED BY <1>3, <1>4

LEMMA NoKeyTyped == NoKey \in SimpleKey /\ ~NoKey.possible
BY ScannerAssumption DEF NoKey, SimpleKey

(* Keys stay good when they are forgotten, when the queue grows, and when  *)
(* the scanner goes on.                                                    *)
LEMMA GoodKeysStay ==
    ASSUME NEW keys \in Seq(SimpleKey), NEW others \in Seq(SimpleKey),
           NEW l \in Int, NEW m \in Int, l <= m, NEW n \in Int, NEW o \in Int,
           GoodKeys(keys, l, n), Len(others) <= Len(keys),
           \A i \in 1..Len(others) : others[i].possible =>
               /\ keys[i].possible /\ others[i].at = keys[i].at
               /\ others[i].column = keys[i].column
               /\ others[i].oldLine \/ (others[i].oldLine = keys[i].oldLine /\ n <= o)
    PROVE  GoodKeys(others, m, o)
<1>1. DOMAIN keys = 1..Len(keys) /\ DOMAIN others = 1..Len(others)
  OBVIOUS
<1>2. Len(keys) \in Nat /\ Len(others) \in Nat
  OBVIOUS
<1>3. \A i \in 1..Len(others) : i \in 1..Len(keys)
  BY <1>2
<1>4. \A i \in 1..Len(keys) : keys[i] \in SimpleKey
  OBVIOUS
<1>5. ASSUME NEW i \in 1..Len(others), others[i].possible
      PROVE  /\ others[i].at \in 0..m - 1
             /\ others[i].column <= MaxColumn
             /\ others[i].oldLine \/ others[i].column < o
  <2>1. /\ keys[i].possible /\ others[i].at = keys[i].at
        /\ others[i].column = keys[i].column
        /\ others[i].oldLine \/ (others[i].oldLine = keys[i].oldLine /\ n <= o)
    BY <1>5
  <2>2. /\ keys[i].at \in 0..l - 1 /\ keys[i].column <= MaxColumn
        /\ keys[i].oldLine \/ keys[i].column < n
    BY <1>1, <1>3, <2>1 DEF GoodKeys
  <2>3. keys[i].column \in Int
    BY <1>3, <1>4, KeyFields
  <2> QED BY <2>1, <2>2, <2>3
<1>6. ASSUME NEW i \in 1..Len(others), NEW j \in 1..Len(others), i < j,
             others[i].possible, others[j].possible
      PROVE  others[i].at < others[j].at
  <2>1. keys[i].possible /\ keys[j].possible
        /\ others[i].at = keys[i].at /\ others[j].at = keys[j].at
    BY <1>6
  <2> QED BY <1>1, <1>3, <1>6, <2>1 DEF GoodKeys
<1> QED BY <1>1, <1>5, <1>6 DEF GoodKeys

-----------------------------------------------------------------------------
(***************************************************************************)
(* Queues and the block collections they open and close: Walks(s, n, m)    *)
(* says that the tokens s lead from n open collections to m of them, and   *)
(* none of them closes one that is not open.                               *)
(***************************************************************************)
Counts(f, s, n) == f[0] = n /\ \A i \in 1..Len(s) : f[i] = f[i - 1] + Weight(s[i])

Walks(s, n, m) == \E f \in [0..Len(s) -> Nat] : Counts(f, s, n) /\ f[Len(s)] = m

(* What the tokens in the queue leave open are the levels of indentation.  *)
Balanced(c, n) == Walks(c.tokens, n, Len(c.indents))

LEMMA WeightTyped ==
    ASSUME NEW token
    PROVE  /\ Weight(token) \in Int
           /\ Weight("BLOCK-END") = -1
           /\ Weight("BLOCK-MAPPING-START") = 1
           /\ Weight("BLOCK-SEQUENCE-START") = 1
           /\ token \notin BlockStartToken /\ token # "BLOCK-END" => Weight(token) = 0
BY DEF Weight, BlockStartToken

LEMMA PlainToken ==
    ASSUME NEW token \in {"BLOCK-ENTRY", "FLOW-ENTRY", "KEY", "VALUE", "SCALAR"}
                        \cup FlowStartToken \cup FlowEndToken \cup PropertyToken
    PROVE  token \in Token /\ token \notin Boundary /\ Weight(token) = 0
BY DEF Token, Boundary, Weight, BlockStartToken, FlowStartToken, FlowEndToken, PropertyToken

LEMMA WalksEmpty ==
    ASSUME NEW n \in Nat
    PROVE  Walks(<<>>, n, n)
<1> DEFINE f == [i \in 0..0 |-> n]
<1>1. f \in [0..Len(<<>>) -> Nat] /\ Counts(f, <<>>, n) /\ f[Len(<<>>)] = n
  BY DEF Counts
<1> QED BY <1>1 DEF Walks

LEMMA WalksAppend ==
    ASSUME NEW s \in Seq(Token), NEW n, NEW m, Walks(s, n, m),
           NEW token \in Token, Weight(token) = 0
    PROVE  Walks(Append(s, token), n, m)
<1> DEFINE t == Append(s, token)
           l == Len(s)
<1>1. l \in Nat /\ Len(t) = l + 1 /\ t[l + 1] = token /\ \A i \in 1..l : t[i] = s[i]
  OBVIOUS
<1>2. PICK f \in [0..l -> Nat] : Counts(f, s, n) /\ f[l] = m
  BY DEF Walks
<1>3. f[0] = n /\ \A i \in 1..l : f[i] = f[i - 1] + Weight(s[i])
  BY <1>2 DEF Counts
<1> HIDE DEF t, l
<1> DEFINE g == [i \in 0..l + 1 |-> IF i = l + 1 THEN f[l] ELSE f[i]]
<1>4. g \in [0..l + 1 -> Nat] /\ g[0] = n /\ g[l + 1] = m
      /\ \A i \in 0..l : g[i] = f[i]
  BY <1>1, <1>2, <1>3
<1> HIDE DEF g
<1>5. ASSUME NEW i \in 1..l + 1 PROVE g[i] = g[i - 1] + Weight(t[i])
  <2>1. CASE i = l + 1
    <3>1. i - 1 = l /\ g[l] = f[l] /\ f[l] \in Nat /\ g[i] = f[l] /\ Weight(t[i]) = 0
      BY <1>1, <1>2, <1>4, <2>1
    <3> QED BY <3>1
  <2>2. CASE i # l + 1
    <3>1. i \in 1..l /\ i \in 0..l /\ i - 1 \in 0..l
      BY <1>1, <2>2
    <3> QED BY <1>1, <1>3, <1>4, <3>1
  <2> QED BY <2>1, <2>2
<1>6. g \in [0..Len(t) -> Nat] /\ Counts(g, t, n) /\ g[Len(t)] = m
  BY <1>1, <1>4, <1>5 DEF Counts
<1>7. Walks(t, n, m)
  BY <1>6 DEF Walks
<1> QED BY <1>7 DEF t

(* What is open is closed. *)
LEMMA WalksEnds ==
    ASSUME NEW s \in Seq(Token), NEW n, NEW m, Walks(s, n, m), NEW k \in 0..m,
           NEW ends \in Seq(Token), Len(ends) = k, \A i \in 1..k : ends[i] = "BLOCK-END"
    PROVE  Walks(s \o ends, n, m - k)
<1> DEFINE t == s \o ends
           l == Len(s)
<1>1. /\ l \in Nat /\ Len(t) = l + k
      /\ \A i \in 1..l : t[i] = s[i]
      /\ \A i \in 1..k : t[l + i] = ends[i]
  <2>1. ASSUME NEW u \in Seq(Token), NEW v \in Seq(Token)
        PROVE  /\ Len(u \o v) = Len(u) + Len(v)
               /\ \A i \in 1..Len(u) : (u \o v)[i] = u[i]
               /\ \A i \in 1..Len(v) : (u \o v)[Len(u) + i] = v[i]
    BY ConcatProperties
  <2>2. /\ Len(s \o ends) = Len(s) + Len(ends)
        /\ \A i \in 1..Len(s) : (s \o ends)[i] = s[i]
        /\ \A i \in 1..Len(ends) : (s \o ends)[Len(s) + i] = ends[i]
    BY <2>1
  <2>3. Len(s) \in Nat
    OBVIOUS
  <2> QED BY <2>2, <2>3
<1>2. PICK f \in [0..l -> Nat] : Counts(f, s, n) /\ f[l] = m
  BY DEF Walks
<1>3. f[0] = n /\ \A i \in 1..l : f[i] = f[i - 1] + Weight(s[i])
  BY <1>2 DEF Counts
<1>4. m \in Nat /\ k \in Nat /\ k <= m
  <2>1. m \in Nat
    BY <1>1, <1>2
  <2> QED BY <2>1
<1> HIDE DEF t, l
<1> DEFINE g == [i \in 0..l + k |-> IF i <= l THEN f[i] ELSE m - (i - l)]
<1>5. /\ g \in [0..l + k -> Nat]
      /\ \A i \in 0..l : g[i] = f[i]
      /\ \A i \in l + 1..l + k : g[i] = m - (i - l)
  <2>1. \A i \in 0..l + k : (IF i <= l THEN f[i] ELSE m - (i - l)) \in Nat
    BY <1>1, <1>2, <1>4
  <2> QED BY <1>1, <1>4, <2>1
<1> HIDE DEF g
<1>6. ASSUME NEW i \in 1..l + k PROVE g[i] = g[i - 1] + Weight(t[i])
  <2>1. CASE i <= l
    <3>1. i \in 1..l /\ i \in 0..l /\ i - 1 \in 0..l
      BY <1>1, <2>1
    <3> QED BY <1>1, <1>3, <1>5, <3>1
  <2>2. CASE i > l
    <3> DEFINE j == i - l
    <3>1. j \in 1..k /\ i = l + j /\ i \in l + 1..l + k
      BY <1>1, <1>4, <2>2
    <3>2. t[i] = "BLOCK-END"
      <4> HIDE DEF j
      <4> QED BY <1>1, <3>1
    <3>3. Weight(t[i]) = -1
      BY <3>2, WeightTyped
    <3>4. g[i] = m - j
      BY <1>5, <3>1
    <3>5. g[i - 1] = m - (j - 1)
      <4>1. CASE i - 1 = l
        BY <1>1, <1>2, <1>4, <1>5, <4>1
      <4>2. CASE i - 1 # l
        <5>1. i - 1 \in l + 1..l + k
          BY <1>1, <1>4, <3>1, <4>2
        <5> QED BY <1>1, <1>4, <1>5, <5>1
      <4> QED BY <4>1, <4>2
    <3> QED BY <1>1, <1>4, <3>1, <3>3, <3>4, <3>5
  <2> QED BY <1>1, <2>1, <2>2
<1>7. g[l + k] = m - k /\ g[0] = n
  <2>1. g[0] = n
    BY <1>1, <1>3, <1>5
  <2>2. CASE k = 0
    <3>1. l + k = l /\ l \in 0..l /\ m - k = m
      BY <1>1, <1>4, <2>2
    <3>2. g[l] = f[l]
      BY <1>5, <3>1
    <3> QED BY <1>2, <2>1, <3>1, <3>2
  <2>3. CASE k # 0
    <3>1. l + k \in l + 1..l + k /\ (l + k) - l = k
      BY <1>1, <1>4, <2>3
    <3> QED BY <1>5, <2>1, <3>1
  <2> QED BY <2>1, <2>2, <2>3
<1>8. g \in [0..Len(t) -> Nat] /\ Counts(g, t, n) /\ g[Len(t)] = m - k
  BY <1>1, <1>5, <1>6, <1>7 DEF Counts
<1>9. Walks(t, n, m - k)
  BY <1>8 DEF Walks
<1> QED BY <1>9 DEF t

(* The start of a collection, or a KEY, is inserted. *)
LEMMA WalksInsert ==
    ASSUME NEW s \in Seq(Token), NEW n, NEW m, Walks(s, n, m),
           NEW at \in 0..Len(s), NEW token \in Token, Weight(token) \in {0, 1}
    PROVE  Walks(InsertAt(s, at + 1, token), n, m + Weight(token))
<1> DEFINE place == at + 1
           t == InsertAt(s, place, token)
           l == Len(s)
           w == Weight(token)
<1>1. l \in Nat /\ at \in 0..l /\ place = at + 1 /\ place \in 1..l + 1 /\ w \in {0, 1}
  OBVIOUS
<1>2. /\ Len(t) = l + 1
      /\ t[place] = token
      /\ \A j \in 1..place - 1 : t[j] = s[j]
      /\ \A j \in place..l : t[j + 1] = s[j]
  <2>1. place \in 1..Len(s) + 1
    BY <1>1
  <2> HIDE DEF place
  <2> QED BY <2>1, InsertAtProperties
<1>3. PICK f \in [0..l -> Nat] : Counts(f, s, n) /\ f[l] = m
  BY DEF Walks
<1>4. f[0] = n /\ \A i \in 1..l : f[i] = f[i - 1] + Weight(s[i])
  BY <1>3 DEF Counts
<1> HIDE DEF t, l, w, place
<1> DEFINE g == [i \in 0..l + 1 |-> IF i <= at THEN f[i] ELSE f[i - 1] + w]
<1>5. /\ g \in [0..l + 1 -> Nat]
      /\ \A i \in 0..at : g[i] = f[i]
      /\ \A i \in at + 1..l + 1 : g[i] = f[i - 1] + w
  <2>1. \A i \in 0..l + 1 : (IF i <= at THEN f[i] ELSE f[i - 1] + w) \in Nat
    BY <1>1, <1>3
  <2> QED BY <1>1, <2>1
<1> HIDE DEF g
<1>6. ASSUME NEW i \in 1..l + 1 PROVE g[i] = g[i - 1] + Weight(t[i])
  <2>1. CASE i <= at
    <3>1. i \in 1..l /\ i \in 0..at /\ i - 1 \in 0..at /\ i \in 1..place - 1
      BY <1>1, <2>1
    <3> QED BY <1>2, <1>4, <1>5, <3>1
  <2>2. CASE i = at + 1
    <3>1. i \in at + 1..l + 1 /\ i - 1 \in 0..at /\ i = place
      BY <1>1, <2>2
    <3>2. g[i] = f[i - 1] + w /\ g[i - 1] = f[i - 1] /\ Weight(t[i]) = w
      BY <1>2, <1>5, <3>1 DEF w
    <3> QED BY <3>2
  <2>3. CASE i > at + 1
    <3> DEFINE j == i - 1
    <3>1. /\ j \in place..l /\ j \in 1..l /\ i = j + 1 /\ i \in at + 1..l + 1
          /\ j \in at + 1..l + 1 /\ j - 1 \in 0..l /\ j \in 0..l
      BY <1>1, <2>3
    <3> HIDE DEF j
    <3>2. i - 1 = j
      BY <3>1
    <3>4. t[i] = s[j] /\ g[i] = f[j] + w /\ g[j] = f[j - 1] + w
      BY <1>1, <1>2, <1>5, <3>1, <3>2
    <3>3. f[j] = f[j - 1] + Weight(s[j]) /\ f[j - 1] \in Nat /\ Weight(s[j]) \in Int
      BY <1>3, <1>4, <3>1, WeightTyped
    <3>5. w \in Int /\ f[j] \in Nat
      BY <1>1, <1>3, <3>1
    <3>6. g[i] = g[j] + Weight(s[j])
      BY <3>3, <3>4, <3>5
    <3> QED BY <3>2, <3>4, <3>6
  <2> QED BY <1>1, <2>1, <2>2, <2>3
<1>7. g[l + 1] = m + w /\ g[0] = n
  BY <1>1, <1>3, <1>4, <1>5
<1>8. g \in [0..Len(t) -> Nat] /\ Counts(g, t, n) /\ g[Len(t)] = m + w
  BY <1>2, <1>5, <1>6, <1>7 DEF Counts
<1>9. Walks(t, n, m + w)
  BY <1>8 DEF Walks
<1> QED BY <1>9 DEF t, place, w

(* The head of the queue is taken. *)
LEMMA WalksTail ==
    ASSUME NEW s \in Seq(Token), NEW n, NEW m, Walks(s, n, m), s # <<>>
    PROVE  Walks(Tail(s), n + Weight(Head(s)), m)
<1> DEFINE t == Tail(s)
           l == Len(s) - 1
<1>1. /\ l \in Nat /\ Len(s) = l + 1 /\ Len(t) = l /\ Head(s) = s[1]
      /\ \A i \in 1..l : t[i] = s[i + 1]
  OBVIOUS
<1>2. PICK f \in [0..l + 1 -> Nat] : Counts(f, s, n) /\ f[l + 1] = m
  BY <1>1 DEF Walks
<1>3. f[0] = n /\ \A i \in 1..l + 1 : f[i] = f[i - 1] + Weight(s[i])
  BY <1>1, <1>2 DEF Counts
<1> HIDE DEF t, l
<1> DEFINE g == [i \in 0..l |-> f[i + 1]]
<1>4. g \in [0..l -> Nat] /\ \A i \in 0..l : g[i] = f[i + 1]
  BY <1>1, <1>2
<1> HIDE DEF g
<1>5. g[0] = n + Weight(Head(s)) /\ g[l] = m
  BY <1>1, <1>2, <1>3, <1>4
<1>6. ASSUME NEW i \in 1..l PROVE g[i] = g[i - 1] + Weight(t[i])
  <2> DEFINE j == i + 1
  <2>1. j \in 1..l + 1 /\ j - 1 = i /\ i \in 0..l /\ i - 1 \in 0..l /\ (i - 1) + 1 = i
    BY <1>1
  <2>2. f[j] = f[j - 1] + Weight(s[j])
    <3> HIDE DEF j
    <3> QED BY <1>3, <2>1
  <2>3. g[i] = f[j] /\ g[i - 1] = f[i] /\ t[i] = s[j]
    BY <1>1, <1>4, <2>1
  <2> QED BY <2>1, <2>2, <2>3
<1>7. g \in [0..Len(t) -> Nat] /\ Counts(g, t, n + Weight(Head(s))) /\ g[Len(t)] = m
  BY <1>1, <1>4, <1>5, <1>6 DEF Counts
<1> QED BY <1>7 DEF Walks, t

(* Depth is the count. *)
LEMMA WalksDepth ==
    ASSUME tokens \in Seq(Token), NEW m, Walks(tokens, opened, m)
    PROVE  (\A n \in 0..Len(tokens) : Depth[n] >= 0) /\ Depth[Len(tokens)] = m
<1> DEFINE l == Len(tokens)
           Recurs(f) == f = [n \in 0..l |-> IF n = 0 THEN opened ELSE f[n - 1] + Weight(tokens[n])]
<1>1. l \in Nat
  OBVIOUS
<1>2. PICK f \in [0..l -> Nat] : Counts(f, tokens, opened) /\ f[l] = m
  BY DEF Walks
<1>3. f[0] = opened /\ \A n \in 1..l : f[n] = f[n - 1] + Weight(tokens[n])
  BY <1>2 DEF Counts
<1>4. Depth = CHOOSE d : Recurs(d)
  BY DEF Depth
<1> HIDE DEF l
<1>5. Recurs(f)
  <2>1. \A n \in 0..l : f[n] = IF n = 0 THEN opened ELSE f[n - 1] + Weight(tokens[n])
    BY <1>1, <1>3
  <2> QED BY <1>2, <2>1
<1>6. Recurs(Depth)
  <2> HIDE DEF Recurs
  <2> QED BY <1>4, <1>5
<1>7. Depth[0] = opened /\ \A n \in 1..l : Depth[n] = Depth[n - 1] + Weight(tokens[n])
  BY <1>1, <1>6
<1> HIDE DEF Recurs
<1> DEFINE T == {n \in Nat : n \in 0..l => Depth[n] = f[n]}
<1>8. T \in SUBSET Nat /\ 0 \in T
  BY <1>3, <1>7
<1>9. ASSUME NEW n \in T PROVE n + 1 \in T
  <2> DEFINE j == n + 1
  <2>1. n \in Nat /\ j \in Nat /\ j - 1 = n
    OBVIOUS
  <2>2. ASSUME j \in 0..l PROVE Depth[j] = f[j]
    <3>1. n \in 0..l /\ j \in 1..l
      BY <1>1, <2>1, <2>2
    <3>2. Depth[n] = f[n]
      BY <3>1
    <3> HIDE DEF j
    <3> QED BY <1>3, <1>7, <2>1, <3>1, <3>2
  <2> QED BY <2>1, <2>2
<1> HIDE DEF T
<1>10. T = Nat
  BY <1>8, <1>9, SetInduction
<1>11. \A n \in 0..l : Depth[n] = f[n]
  BY <1>1, <1>10 DEF T
<1> QED BY <1>1, <1>2, <1>11 DEF l

-----------------------------------------------------------------------------
(***************************************************************************)
(* One lemma per operation on a context.                                   *)
(***************************************************************************)

(* The keys of d are those of c, but for some that are forgotten or aged.  *)
KeysAsIn(d, c, n, m) ==
    /\ Len(d.keys) = Len(c.keys)
    /\ \A i \in 1..Len(c.keys) : d.keys[i].possible =>
          /\ c.keys[i].possible /\ d.keys[i].at = c.keys[i].at
          /\ d.keys[i].column = c.keys[i].column
          /\ \/ d.keys[i].oldLine
             \/ d.keys[i].oldLine = c.keys[i].oldLine /\ c.column + n <= d.column + m

(* A context whose keys, and no more than the column, were changed.        *)
LEMMA KeysChanged ==
    ASSUME NEW c, NEW d, NEW k \in {0, 1}, NEW n \in {0, 1}, NEW m \in {0, 1},
           Good(c, k, n), d \in Context,
           d.tokens = c.tokens, d.indent = c.indent, d.indents = c.indents, d.flow = c.flow,
           KeysAsIn(d, c, n, m)
    PROVE  Good(d, k, m)
<1> DEFINE l == Len(c.tokens) + k
           a == c.column + n
           b == d.column + m
<1>1. /\ c \in Context /\ Len(c.keys) = c.flow + 1
      /\ GoodLevels(c.indents, c.indent) /\ GoodKeys(c.keys, l, a)
  BY DEF Good
<1>2. c.keys \in Seq(SimpleKey) /\ d.keys \in Seq(SimpleKey)
  BY <1>1, ContextFields
<1>3. c.column \in Int /\ d.column \in Int /\ Len(c.tokens) \in Int
  <2>1. c.column \in 0..MaxColumn + 1 /\ d.column \in 0..MaxColumn + 1 /\ c.tokens \in Seq(Token)
    BY <1>1, ContextFields
  <2> QED BY <2>1
<1>4. l \in Int /\ a \in Int /\ b \in Int
  BY <1>3
<1>5. l = Len(d.tokens) + k
  OBVIOUS
<1>6. \A i \in 1..Len(d.keys) : d.keys[i].possible =>
         /\ c.keys[i].possible /\ d.keys[i].at = c.keys[i].at
         /\ d.keys[i].column = c.keys[i].column
         /\ d.keys[i].oldLine \/ (d.keys[i].oldLine = c.keys[i].oldLine /\ a <= b)
  BY DEF KeysAsIn
<1>0. Len(d.keys) = Len(c.keys)
  BY DEF KeysAsIn
<1> HIDE DEF l, a, b
<1>7. Len(d.keys) <= Len(c.keys) /\ l <= l
  BY <1>0, <1>2, <1>4
<1>8. GoodKeys(d.keys, l, b)
  BY <1>1, <1>2, <1>4, <1>6, <1>7, GoodKeysStay
<1>9. GoodKeys(d.keys, Len(d.tokens) + k, d.column + m)
  BY <1>5, <1>8 DEF b
<1> QED BY <1>0, <1>1, <1>9 DEF Good

(* What EXCEPT makes of a context. *)
LEMMA SetColumn ==
    ASSUME NEW c \in Context, NEW n \in 0..MaxColumn + 1
    PROVE  LET d == [c EXCEPT !.column = n]
           IN  /\ d \in Context /\ d.column = n
               /\ d.tokens = c.tokens /\ d.keys = c.keys /\ d.allowed = c.allowed
               /\ d.indent = c.indent /\ d.indents = c.indents /\ d.flow = c.flow
BY DEF Context

LEMMA SetKeys ==
    ASSUME NEW c \in Context, NEW keys \in Seq(SimpleKey)
    PROVE  LET d == [c EXCEPT !.keys = keys]
           IN  /\ d \in Context /\ d.keys = keys
               /\ d.tokens = c.tokens /\ d.column = c.column /\ d.allowed = c.allowed
               /\ d.indent = c.indent /\ d.indents = c.indents /\ d.flow = c.flow
BY DEF Context

LEMMA SetTokens ==
    ASSUME NEW c \in Context, NEW tt \in Seq(Token)
    PROVE  LET d == [c EXCEPT !.tokens = tt]
           IN  /\ d \in Context /\ d.tokens = tt
               /\ d.keys = c.keys /\ d.column = c.column /\ d.allowed = c.allowed
               /\ d.indent = c.indent /\ d.indents = c.indents /\ d.flow = c.flow
BY DEF Context

(* simple_key_allowed is no part of what a good context is.                *)
LEMMA AllowGood ==
    ASSUME NEW c, NEW k \in {0, 1}, NEW n \in {0, 1}, Good(c, k, n), NEW b \in BOOLEAN
    PROVE  /\ Good(Allow(c, b), k, n)
           /\ Allow(c, b).tokens = c.tokens /\ Allow(c, b).keys = c.keys
           /\ Allow(c, b).column = c.column /\ Allow(c, b).flow = c.flow
           /\ Allow(c, b).indent = c.indent /\ Allow(c, b).indents = c.indents
<1> DEFINE d == Allow(c, b)
<1>1. c \in Context
  BY DEF Good
<1>2. /\ d \in Context
      /\ d.tokens = c.tokens /\ d.column = c.column /\ d.keys = c.keys
      /\ d.indent = c.indent /\ d.indents = c.indents /\ d.flow = c.flow
  BY <1>1 DEF Allow, Context
<1> HIDE DEF d
<1>3. /\ Len(c.keys) = c.flow + 1 /\ GoodLevels(c.indents, c.indent)
      /\ GoodKeys(c.keys, Len(c.tokens) + k, c.column + n)
  BY DEF Good
<1>4. Good(d, k, n)
  BY <1>2, <1>3 DEF Good
<1> QED BY <1>2, <1>4 DEF d

(* Staleness forgets keys, and leaves none that is too far away.           *)
LEMMA StaleGood ==
    ASSUME NEW c, Good(c, 0, 0)
    PROVE  LET d == StaleSimpleKeys(c)
           IN  /\ Good(d, 0, 0)
               /\ d.tokens = c.tokens /\ d.column = c.column /\ d.allowed = c.allowed
               /\ d.indent = c.indent /\ d.indents = c.indents /\ d.flow = c.flow
               /\ \A i \in DOMAIN d.keys : d.keys[i].possible =>
                     ~IsStale(c.keys[i], c) /\ d.keys[i] = c.keys[i]
               /\ ~LosesRequiredKey(c) /\ Owes(c) => Owes(d)
<1> DEFINE others == [i \in DOMAIN c.keys |-> IF IsStale(c.keys[i], c) THEN NoKey ELSE c.keys[i]]
           d == StaleSimpleKeys(c)
<1>1. c \in Context /\ c.keys \in Seq(SimpleKey) /\ Len(c.keys) = c.flow + 1
  BY DEF Good, Context
<1>2. others \in Seq(SimpleKey) /\ Len(others) = Len(c.keys)
  BY <1>1, NoKeyTyped
<1>3. /\ d \in Context /\ d.keys = others
      /\ d.tokens = c.tokens /\ d.column = c.column /\ d.allowed = c.allowed
      /\ d.indent = c.indent /\ d.indents = c.indents /\ d.flow = c.flow
  <2>1. d = [c EXCEPT !.keys = others]
    BY DEF StaleSimpleKeys
  <2> HIDE DEF others, d
  <2> QED BY <1>1, <1>2, <2>1, SetKeys
<1>4. \A i \in 1..Len(c.keys) : d.keys[i] = IF IsStale(c.keys[i], c) THEN NoKey ELSE c.keys[i]
  BY <1>1, <1>3
<1>5. c.column \in Int /\ Len(d.keys) = Len(c.keys)
  BY <1>1, <1>2, <1>3 DEF Context
<1> HIDE DEF others, d
<1>6. Good(d, 0, 0)
  <2>1. \A i \in 1..Len(c.keys) : d.keys[i].possible =>
           /\ c.keys[i].possible /\ d.keys[i].at = c.keys[i].at
           /\ d.keys[i].column = c.keys[i].column
           /\ d.keys[i].oldLine = c.keys[i].oldLine /\ c.column + 0 <= d.column + 0
    BY <1>3, <1>4, <1>5, NoKeyTyped
  <2>2. KeysAsIn(d, c, 0, 0)
    BY <1>5, <2>1 DEF KeysAsIn
  <2> QED BY <1>3, <2>2, KeysChanged
<1>7. DOMAIN d.keys = 1..Len(c.keys) /\ DOMAIN c.keys = 1..Len(c.keys)
  BY <1>1, <1>2, <1>3
<1>8. \A i \in DOMAIN d.keys : d.keys[i].possible =>
         ~IsStale(c.keys[i], c) /\ d.keys[i] = c.keys[i]
  BY <1>4, <1>7, NoKeyTyped
<1>9. ASSUME ~LosesRequiredKey(c), Owes(c) PROVE Owes(d)
  <2>1. 1 \in 1..Len(c.keys)
    BY <1>1 DEF Context
  <2>2. ~IsStale(c.keys[1], c)
    BY <1>7, <1>9, <2>1 DEF LosesRequiredKey, Owes
  <2> QED BY <1>4, <1>9, <2>1, <2>2 DEF Owes
<1> QED BY <1>3, <1>6, <1>8, <1>9 DEF d

(* On the next line every key is of an older one.                          *)
LEMMA NextLineGood ==
    ASSUME NEW c, NEW n \in {0, 1}, Good(c, 0, n), NEW o \in 0..MaxColumn + 1
    PROVE  LET d == NextLine(c, o)
           IN  /\ Good(d, 0, 0) /\ NoneWaits(d)
               /\ d.tokens = c.tokens /\ d.column = o /\ d.allowed = c.allowed
               /\ d.indent = c.indent /\ d.indents = c.indents /\ d.flow = c.flow
               /\ DOMAIN d.keys = DOMAIN c.keys
               /\ \A i \in DOMAIN d.keys : /\ d.keys[i].possible = c.keys[i].possible
                                           /\ d.keys[i].required = c.keys[i].required
               /\ Owes(c) => Owes(d)
<1> DEFINE others == [i \in DOMAIN c.keys |-> Aged(c.keys[i])]
           d == NextLine(c, o)
<1>1. c \in Context /\ c.keys \in Seq(SimpleKey) /\ Len(c.keys) = c.flow + 1
      /\ \A i \in 1..Len(c.keys) : c.keys[i] \in SimpleKey
  BY DEF Good, Context
<1>2. others \in Seq(SimpleKey) /\ Len(others) = Len(c.keys)
      /\ \A i \in 1..Len(c.keys) : others[i] = Aged(c.keys[i])
  BY <1>1, KeyFields
<1>3. /\ d \in Context /\ d.keys = others
      /\ d.tokens = c.tokens /\ d.column = o /\ d.allowed = c.allowed
      /\ d.indent = c.indent /\ d.indents = c.indents /\ d.flow = c.flow
  <2>1. d = [c EXCEPT !.column = o, !.keys = others]
    BY DEF NextLine
  <2> HIDE DEF others, d
  <2> QED BY <1>1, <1>2, <2>1 DEF Context
<1> HIDE DEF others, d
<1>4. \A i \in 1..Len(c.keys) :
         /\ d.keys[i].possible = c.keys[i].possible /\ d.keys[i].at = c.keys[i].at
         /\ d.keys[i].column = c.keys[i].column /\ d.keys[i].required = c.keys[i].required
         /\ d.keys[i].oldLine
  BY <1>1, <1>2, <1>3, KeyFields
<1>5. Good(d, 0, 0)
  <2>1. Len(d.keys) = Len(c.keys)
    BY <1>2, <1>3
  <2>2. \A i \in 1..Len(c.keys) : d.keys[i].possible =>
           /\ c.keys[i].possible /\ d.keys[i].at = c.keys[i].at
           /\ d.keys[i].column = c.keys[i].column
           /\ \/ d.keys[i].oldLine
              \/ d.keys[i].oldLine = c.keys[i].oldLine /\ c.column + n <= d.column + 0
    BY <1>4
  <2>3. KeysAsIn(d, c, n, 0)
    BY <2>1, <2>2 DEF KeysAsIn
  <2> QED BY <1>3, <2>3, KeysChanged
<1>6. DOMAIN d.keys = 1..Len(c.keys) /\ DOMAIN c.keys = 1..Len(c.keys)
  BY <1>1, <1>2, <1>3
<1>7. Owes(c) => Owes(d)
  <2>1. 1 \in 1..Len(c.keys)
    BY <1>1 DEF Context
  <2> QED BY <1>4, <2>1 DEF Owes
<1> QED BY <1>3, <1>4, <1>5, <1>6, <1>7 DEF d, NoneWaits

(* A context whose queue grew, and whose keys are the same. *)
LEMMA QueueGrown ==
    ASSUME NEW c, NEW d, NEW k \in {0, 1}, NEW n \in {0, 1},
           NEW j \in {0, 1}, NEW m \in {0, 1},
           Good(c, k, n), d \in Context, d.keys = c.keys, d.flow = c.flow,
           GoodLevels(d.indents, d.indent),
           Len(c.tokens) + k <= Len(d.tokens) + j, c.column + n <= d.column + m
    PROVE  Good(d, j, m)
<1> DEFINE l == Len(c.tokens) + k
           r == Len(d.tokens) + j
           a == c.column + n
           b == d.column + m
<1>1. c \in Context /\ Len(c.keys) = c.flow + 1 /\ GoodKeys(c.keys, l, a)
  BY DEF Good
<1>2. c.keys \in Seq(SimpleKey)
  BY <1>1, ContextFields
<1>3. /\ c.column \in Int /\ d.column \in Int
      /\ Len(c.tokens) \in Int /\ Len(d.tokens) \in Int
  <2>1. /\ c.column \in 0..MaxColumn + 1 /\ d.column \in 0..MaxColumn + 1
        /\ c.tokens \in Seq(Token) /\ d.tokens \in Seq(Token)
    BY <1>1, ContextFields
  <2> QED BY <2>1
<1>4. l \in Int /\ r \in Int /\ a \in Int /\ b \in Int /\ l <= r /\ a <= b
  BY <1>3
<1> HIDE DEF l, r, a, b
<1>5. GoodKeys(c.keys, r, b)
  <2>1. Len(c.keys) <= Len(c.keys)
    BY <1>2
  <2> QED BY <1>1, <1>2, <1>4, <2>1, GoodKeysStay
<1>6. GoodKeys(d.keys, Len(d.tokens) + j, d.column + m)
  BY <1>5 DEF r, b
<1> QED BY <1>1, <1>6 DEF Good

(* ENQUEUE. *)
LEMMA EnqueueGood ==
    ASSUME NEW c, NEW k \in {0, 1}, NEW n \in {0, 1}, Good(c, k, n), NEW token \in Token
    PROVE  LET d == Enqueue(c, token)
           IN  /\ Good(d, 0, n)
               /\ d.tokens = Append(c.tokens, token)
               /\ d.keys = c.keys /\ d.column = c.column /\ d.allowed = c.allowed
               /\ d.indent = c.indent /\ d.indents = c.indents /\ d.flow = c.flow
               /\ NoBoundary(c) /\ token \notin Boundary => NoBoundary(d)
               /\ Weight(token) = 0 => \A o : Balanced(c, o) => Balanced(d, o)
               /\ Last(d.tokens) = token
<1> DEFINE d == Enqueue(c, token)
<1>1. c \in Context /\ GoodLevels(c.indents, c.indent)
  BY DEF Good
<1>2. c.tokens \in Seq(Token) /\ c.column \in 0..MaxColumn + 1
  BY <1>1, ContextFields
<1>3. /\ Append(c.tokens, token) \in Seq(Token)
      /\ Len(Append(c.tokens, token)) = Len(c.tokens) + 1
      /\ Last(Append(c.tokens, token)) = token
  BY <1>2 DEF Last
<1>4. /\ d \in Context /\ d.tokens = Append(c.tokens, token)
      /\ d.keys = c.keys /\ d.column = c.column /\ d.allowed = c.allowed
      /\ d.indent = c.indent /\ d.indents = c.indents /\ d.flow = c.flow
  <2>1. d = [c EXCEPT !.tokens = Append(c.tokens, token)]
    BY DEF Enqueue
  <2> HIDE DEF d
  <2> QED BY <1>1, <1>3, <2>1, SetTokens
<1> HIDE DEF d
<1>5. Good(d, 0, n)
  <2>1. Len(c.tokens) + k <= Len(d.tokens) + 0 /\ c.column + n <= d.column + n
    BY <1>2, <1>3, <1>4
  <2>2. GoodLevels(d.indents, d.indent)
    BY <1>1, <1>4
  <2> QED BY <1>4, <2>1, <2>2, QueueGrown
<1>6. NoBoundary(c) /\ token \notin Boundary => NoBoundary(d)
  BY <1>2, <1>4 DEF NoBoundary
<1>7. Weight(token) = 0 => \A o : Balanced(c, o) => Balanced(d, o)
  BY <1>2, <1>4, WalksAppend DEF Balanced
<1> QED BY <1>3, <1>4, <1>5, <1>6, <1>7 DEF d

(* A token that takes a column of its line. *)
LEMMA ProduceGood ==
    ASSUME NEW c, NEW k \in {0, 1}, NEW n \in {0, 1}, Good(c, k, n), NEW token \in Token,
           c.column <= MaxColumn
    PROVE  LET d == Produce(c, token)
           IN  /\ Good(d, 0, 0)
               /\ d.tokens = Append(c.tokens, token)
               /\ d.keys = c.keys
               /\ NoBoundary(c) /\ token \notin Boundary => NoBoundary(d)
               /\ Weight(token) = 0 => \A o : Balanced(c, o) => Balanced(d, o)
               /\ d.flow = c.flow /\ d.indents = c.indents
               /\ Last(d.tokens) = token
<1> DEFINE e == Enqueue(c, token)
           d == Produce(c, token)
<1>1. /\ Good(e, 0, n) /\ e.tokens = Append(c.tokens, token) /\ e.keys = c.keys
      /\ e.column = c.column /\ Last(e.tokens) = token
      /\ e.flow = c.flow /\ e.indents = c.indents
      /\ Weight(token) = 0 => \A o : Balanced(c, o) => Balanced(e, o)
      /\ NoBoundary(c) /\ token \notin Boundary => NoBoundary(e)
  BY EnqueueGood
<1>2. c \in Context
  BY DEF Good
<1>3. c.column + 1 \in 0..MaxColumn + 1 /\ c.column \in Int
  BY <1>2, ContextFields, ScannerAssumption
<1>4. d = [e EXCEPT !.column = c.column + 1]
  BY <1>1 DEF Produce
<1> HIDE DEF d, e
<1>5. e \in Context /\ GoodLevels(e.indents, e.indent) /\ e.tokens \in Seq(Token)
  BY <1>1, ContextFields DEF Good
<1>6. /\ d \in Context /\ d.column = c.column + 1
      /\ d.tokens = e.tokens /\ d.keys = e.keys
      /\ d.indent = e.indent /\ d.indents = e.indents /\ d.flow = e.flow
  BY <1>3, <1>4, <1>5, SetColumn
<1>7. Good(d, 0, 0)
  <2>1. Len(e.tokens) + 0 <= Len(d.tokens) + 0 /\ e.column + n <= d.column + 0
    BY <1>1, <1>3, <1>5, <1>6
  <2>2. GoodLevels(d.indents, d.indent)
    BY <1>5, <1>6
  <2> QED BY <1>1, <1>6, <2>1, <2>2, QueueGrown
<1>8. NoBoundary(e) => NoBoundary(d)
  BY <1>6 DEF NoBoundary
<1>9. \A o : Balanced(e, o) => Balanced(d, o)
  BY <1>6 DEF Balanced
<1> QED BY <1>1, <1>6, <1>7, <1>8, <1>9 DEF d

(* The least level of indentation is -1, and is never popped. *)
LEMMA UnrollGood ==
    ASSUME NEW c, Good(c, 0, 0), NEW n \in Int, n >= -1
    PROVE  LET d == UnrollIndent(c, n)
           IN  /\ Good(d, 0, 0)
               /\ d.keys = c.keys /\ d.column = c.column /\ d.allowed = c.allowed
               /\ d.flow = c.flow
               /\ NoBoundary(c) => NoBoundary(d)
               /\ \A o : Balanced(c, o) => Balanced(d, o)
               /\ n = -1 /\ c.flow = 0 => d.indents = <<>>
<1> DEFINE d == UnrollIndent(c, n)
           levels == Append(c.indents, c.indent)
           below == {i \in DOMAIN levels : levels[i] <= n}
           left == Max(below)
           ends == [i \in 1..Len(levels) - left |-> "BLOCK-END"]
           front == SubSeq(levels, 1, left - 1)
<1>1. /\ c \in Context /\ Len(c.keys) = c.flow + 1
      /\ GoodLevels(c.indents, c.indent)
  BY DEF Good
<1>2. /\ c.tokens \in Seq(Token) /\ c.column \in 0..MaxColumn + 1 /\ c.keys \in Seq(SimpleKey)
      /\ c.indent \in -1..MaxColumn /\ c.indents \in Seq(-1..MaxColumn) /\ c.flow \in 0..MaxFlow
  BY <1>1, ContextFields
<1>3. CASE c.flow > 0
  <2>1. UnrollIndent(c, n) = c
    BY <1>3 DEF UnrollIndent
  <2>2. c.flow # 0
    BY <1>2, <1>3
  <2> QED BY <2>1, <2>2
<1>4. CASE ~(c.flow > 0)
  <2>1. levels \in Seq(-1..MaxColumn) /\ Len(levels) = Len(c.indents) + 1
        /\ Len(levels) \in Nat /\ DOMAIN levels = 1..Len(levels)
    BY <1>2
  <2>2. levels[1] = -1 /\ \A i \in 1..Len(levels) - 1 : levels[i] < levels[i + 1]
    <3>1. DOMAIN c.indents = 1..Len(levels) - 1
      BY <1>2
    <3>2. levels[1] = -1 /\ \A i \in DOMAIN c.indents : levels[i] < levels[i + 1]
      BY <1>1 DEF GoodLevels
    <3> HIDE DEF levels
    <3> QED BY <3>1, <3>2
  <2>3. left \in below
    <3>1. 1 \in below
      BY <1>2, <2>1, <2>2
    <3>2. below \subseteq 0..Len(levels) /\ below # {}
      BY <2>1, <3>1
    <3> HIDE DEF levels, below
    <3>3. \E x \in below : \A y \in below : y <= x
      BY <2>1, <3>2, GreatestBelow
    <3>4. \E x \in below : \A y \in below : x >= y
      BY <2>1, <3>2, <3>3
    <3> QED BY <3>4 DEF Max
  <2>4. left \in 1..Len(levels)
    BY <2>1, <2>3
  <2> HIDE DEF levels, below, left
  <2>5. /\ front \in Seq(-1..MaxColumn) /\ Len(front) = left - 1
        /\ \A i \in 1..left - 1 : front[i] = levels[i]
    <3> DEFINE n1 == left - 1
    <3>1. n1 \in 0..Len(levels)
      BY <2>1, <2>4
    <3> HIDE DEF n1
    <3>2. /\ SubSeq(levels, 1, n1) \in Seq(-1..MaxColumn) /\ Len(SubSeq(levels, 1, n1)) = n1
          /\ \A i \in 1..n1 : SubSeq(levels, 1, n1)[i] = levels[i]
      BY <2>1, <3>1, PrefixProperties
    <3> QED BY <3>2 DEF n1
  <2>6. ends \in Seq(Token) /\ Len(ends) = Len(levels) - left
        /\ \A i \in 1..Len(ends) : ends[i] = "BLOCK-END"
    <3> DEFINE l == Len(levels) - left
    <3>1. "BLOCK-END" \in Token
      BY DEF Token
    <3>2. l \in Nat
      BY <2>1, <2>4
    <3> HIDE DEF l
    <3>3. /\ [i \in 1..l |-> "BLOCK-END"] \in Seq(Token)
          /\ Len([i \in 1..l |-> "BLOCK-END"]) = l
          /\ \A j \in 1..l : [i \in 1..l |-> "BLOCK-END"][j] = "BLOCK-END"
      BY <3>1, <3>2
    <3> QED BY <3>3 DEF l
  <2>7. levels[left] \in -1..MaxColumn
    <3> HIDE DEF front, ends, d
    <3>1. ASSUME NEW S, NEW s \in Seq(S), NEW i \in 1..Len(s) PROVE s[i] \in S
      OBVIOUS
    <3> QED BY <2>1, <2>4, <3>1
  <2>8. /\ c.tokens \o ends \in Seq(Token) /\ Len(c.tokens \o ends) = Len(c.tokens) + Len(ends)
        /\ \A i \in 1..Len(c.tokens) : (c.tokens \o ends)[i] = c.tokens[i]
        /\ \A i \in 1..Len(ends) : (c.tokens \o ends)[Len(c.tokens) + i] = ends[i]
    <3> HIDE DEF ends, front, d
    <3>1. ASSUME NEW s \in Seq(Token), NEW t \in Seq(Token)
          PROVE  /\ s \o t \in Seq(Token) /\ Len(s \o t) = Len(s) + Len(t)
                 /\ \A i \in 1..Len(s) : (s \o t)[i] = s[i]
                 /\ \A i \in 1..Len(t) : (s \o t)[Len(s) + i] = t[i]
      BY ConcatProperties
    <3> QED BY <1>2, <2>6, <3>1
  <2>9. GoodLevels(front, levels[left])
    <3>1. /\ Append(front, levels[left])[left] = levels[left]
          /\ \A i \in 1..left - 1 : Append(front, levels[left])[i] = levels[i]
      BY <2>4, <2>5, <2>7
    <3>2. DOMAIN front = 1..left - 1
      BY <2>4, <2>5
    <3>3. \A i \in 1..left - 1 : levels[i] < levels[i + 1]
      BY <2>1, <2>2, <2>4
    <3>4. \A i \in 1..left - 1 : Append(front, levels[left])[i + 1] = levels[i + 1]
      BY <2>4, <3>1
    <3>5. Append(front, levels[left])[1] = -1
      BY <2>2, <2>4, <3>1
    <3> QED BY <3>1, <3>2, <3>3, <3>4, <3>5 DEF GoodLevels
  <2>10. d = [c EXCEPT !.indent = levels[left], !.indents = front, !.tokens = c.tokens \o ends]
    BY <1>4 DEF UnrollIndent, levels, left, below
  <2> HIDE DEF front, ends, d
  <2>11. /\ d \in Context /\ d.tokens = c.tokens \o ends
         /\ d.indent = levels[left] /\ d.indents = front
         /\ d.keys = c.keys /\ d.column = c.column /\ d.allowed = c.allowed /\ d.flow = c.flow
    BY <1>1, <2>5, <2>7, <2>8, <2>10 DEF Context
  <2>12. Good(d, 0, 0)
    <3>1. Len(c.tokens) + 0 <= Len(d.tokens) + 0 /\ c.column + 0 <= d.column + 0
      BY <1>2, <2>1, <2>4, <2>6, <2>8, <2>11
    <3>2. GoodLevels(d.indents, d.indent)
      BY <2>9, <2>11
    <3> QED BY <2>11, <3>1, <3>2, QueueGrown
  <2>13. ASSUME NoBoundary(c) PROVE NoBoundary(d)
    <3> SUFFICES ASSUME NEW i \in DOMAIN d.tokens PROVE d.tokens[i] \notin Boundary
      BY DEF NoBoundary
    <3>1. i \in 1..Len(c.tokens) + Len(ends) /\ Len(c.tokens) \in Nat /\ Len(ends) \in Nat
      BY <1>2, <2>6, <2>8, <2>11
    <3>2. CASE i <= Len(c.tokens)
      <4>1. i \in 1..Len(c.tokens) /\ DOMAIN c.tokens = 1..Len(c.tokens)
        BY <1>2, <3>1, <3>2
      <4> QED BY <2>8, <2>11, <2>13, <4>1 DEF NoBoundary
    <3>3. CASE i > Len(c.tokens)
      <4> DEFINE j == i - Len(c.tokens)
      <4>1. j \in 1..Len(ends) /\ i = Len(c.tokens) + j
        BY <3>1, <3>3
      <4> HIDE DEF j
      <4>2. d.tokens[i] = "BLOCK-END"
        BY <2>6, <2>8, <2>11, <4>1
      <4> QED BY <4>2 DEF Boundary
    <3> QED BY <3>1, <3>2, <3>3
  <2>14. \A o : Balanced(c, o) => Balanced(d, o)
    <3> DEFINE k == Len(levels) - left
               m == Len(c.indents)
    <3>1. k \in 0..m /\ Len(front) = m - k /\ Len(ends) = k
      BY <1>2, <2>1, <2>4, <2>5, <2>6
    <3>2. \A i \in 1..k : ends[i] = "BLOCK-END"
      BY <2>6
    <3> HIDE DEF k, m
    <3>3. \A o : Walks(c.tokens, o, m) => Walks(c.tokens \o ends, o, m - k)
      BY <1>2, <2>6, <3>1, <3>2, WalksEnds
    <3> QED BY <2>11, <3>1, <3>3 DEF Balanced, m
  <2>15. ASSUME n = -1 PROVE d.indents = <<>>
    <3>1. left = 1
      <4>1. levels[left] <= -1
        BY <2>3, <2>15 DEF below
      <4>2. ASSUME left # 1 PROVE FALSE
        <5> DEFINE j == left - 1
        <5>1. j \in 1..Len(levels) - 1 /\ j \in 1..Len(levels) /\ j + 1 = left
          BY <2>1, <2>4, <4>2
        <5> HIDE DEF j
        <5>2. levels[j] < levels[left]
          BY <2>2, <5>1
        <5>3. ASSUME NEW S, NEW s \in Seq(S), NEW i \in 1..Len(s) PROVE s[i] \in S
          OBVIOUS
        <5>4. levels[j] \in -1..MaxColumn
          BY <2>1, <5>1, <5>3
        <5> QED BY <2>7, <4>1, <5>2, <5>4
      <4> QED BY <4>2
    <3>2. ASSUME NEW S, NEW s \in Seq(S), Len(s) = 0 PROVE s = <<>>
      BY <3>2
    <3> QED BY <2>5, <2>11, <3>1, <3>2
  <2> QED BY <2>11, <2>12, <2>13, <2>14, <2>15 DEF d
<1> QED BY <1>2, <1>3, <1>4

(* A token put into the queue at a place of it. *)
LEMMA InsertToken ==
    ASSUME NEW tt \in Seq(Token), NEW at \in 0..Len(tt), NEW token \in Token
    PROVE  LET queue == InsertAt(tt, at + 1, token)
           IN  /\ queue \in Seq(Token) /\ Len(queue) = Len(tt) + 1
               /\ (\A i \in DOMAIN tt : tt[i] \notin Boundary) /\ token \notin Boundary =>
                     \A i \in DOMAIN queue : queue[i] \notin Boundary
<1> DEFINE place == at + 1
           queue == InsertAt(tt, place, token)
<1>1. /\ Len(tt) \in Nat /\ DOMAIN tt = 1..Len(tt)
      /\ place \in 1..Len(tt) + 1 /\ place - 1 = at
  OBVIOUS
<1> HIDE DEF place
<1>2. /\ queue \in Seq(Token) /\ Len(queue) = Len(tt) + 1
      /\ queue[place] = token
      /\ \A j \in 1..place - 1 : queue[j] = tt[j]
      /\ \A j \in place..Len(tt) : queue[j + 1] = tt[j]
  <2> SUFFICES ASSUME NEW s \in Seq(Token), NEW p \in 1..Len(s) + 1
               PROVE  /\ InsertAt(s, p, token) \in Seq(Token)
                      /\ Len(InsertAt(s, p, token)) = Len(s) + 1
                      /\ InsertAt(s, p, token)[p] = token
                      /\ \A j \in 1..p - 1 : InsertAt(s, p, token)[j] = s[j]
                      /\ \A j \in p..Len(s) : InsertAt(s, p, token)[j + 1] = s[j]
    BY <1>1
  <2> QED BY InsertAtProperties, SMTT(60)
<1> HIDE DEF queue
<1>3. ASSUME \A i \in DOMAIN tt : tt[i] \notin Boundary, token \notin Boundary,
             NEW i \in DOMAIN queue
      PROVE  queue[i] \notin Boundary
  <2>1. i \in 1..Len(tt) + 1
    <3>1. DOMAIN queue = 1..Len(queue)
      BY <1>2
    <3> QED BY <1>2, <3>1
  <2>2. CASE i < place
    BY <1>1, <1>2, <1>3, <2>1, <2>2
  <2>3. CASE i = place
    BY <1>2, <1>3, <2>3
  <2>4. CASE i > place
    <3> DEFINE j == i - 1
    <3>1. j \in place..Len(tt) /\ j \in DOMAIN tt /\ i = j + 1
      BY <1>1, <2>1, <2>4
    <3> HIDE DEF j
    <3> QED BY <1>2, <1>3, <3>1
  <2> QED BY <1>1, <2>1, <2>2, <2>3, <2>4
<1> QED BY <1>2, <1>3 DEF queue, place

(* A level of indentation goes on top of smaller ones. *)
LEMMA RollGood ==
    ASSUME NEW c, NEW k \in {0, 1}, NEW m \in {0, 1}, Good(c, k, m),
           NEW n \in 0..MaxColumn, NEW at \in 0..Len(c.tokens), NEW token \in BlockStartToken
    PROVE  LET d == RollIndent(c, n, at, token)
           IN  /\ Good(d, k, m)
               /\ d.keys = c.keys /\ d.column = c.column /\ d.allowed = c.allowed
               /\ d.flow = c.flow
               /\ NoBoundary(c) => NoBoundary(d)
               /\ \A o : Balanced(c, o) => Balanced(d, o)
<1> DEFINE d == RollIndent(c, n, at, token)
           queue == InsertAt(c.tokens, at + 1, token)
           levels == Append(c.indents, c.indent)
<1>1. /\ c \in Context /\ GoodLevels(c.indents, c.indent)
  BY DEF Good
<1>2. /\ c.tokens \in Seq(Token) /\ c.column \in 0..MaxColumn + 1 /\ c.keys \in Seq(SimpleKey)
      /\ c.indent \in -1..MaxColumn /\ c.indents \in Seq(-1..MaxColumn) /\ c.flow \in 0..MaxFlow
  BY <1>1, ContextFields
<1>5. token \in Token /\ token \notin Boundary /\ Weight(token) = 1
  BY DEF Token, Boundary, Weight, BlockStartToken
<1>3. CASE c.flow > 0 \/ c.indent >= n
  BY <1>2, <1>3 DEF RollIndent
<1>4. CASE ~(c.flow > 0 \/ c.indent >= n)
  <2>1. /\ queue \in Seq(Token) /\ Len(queue) = Len(c.tokens) + 1
        /\ NoBoundary(c) => \A i \in DOMAIN queue : queue[i] \notin Boundary
    BY <1>2, <1>5, InsertToken DEF NoBoundary
  <2>2. levels \in Seq(-1..MaxColumn)
    BY <1>2
  <2>3. GoodLevels(levels, n)
    <3>1. /\ Len(levels) = Len(c.indents) + 1 /\ Len(c.indents) \in Nat
          /\ DOMAIN levels = 1..Len(c.indents) + 1 /\ DOMAIN c.indents = 1..Len(c.indents)
          /\ levels[Len(c.indents) + 1] = c.indent
      BY <1>2
    <3>2. /\ Append(levels, n)[Len(c.indents) + 2] = n
          /\ \A i \in 1..Len(c.indents) + 1 : Append(levels, n)[i] = levels[i]
      BY <2>2, <3>1
    <3>3. levels[1] = -1 /\ \A i \in 1..Len(c.indents) : levels[i] < levels[i + 1]
      BY <1>1, <3>1 DEF GoodLevels
    <3>4. c.indent < n
      BY <1>2, <1>4
    <3> HIDE DEF levels
    <3>5. Append(levels, n)[1] = -1
      BY <3>1, <3>2, <3>3
    <3>6. ASSUME NEW i \in 1..Len(c.indents) + 1
          PROVE  Append(levels, n)[i] < Append(levels, n)[i + 1]
      <4>1. CASE i = Len(c.indents) + 1
        BY <3>1, <3>2, <3>4, <4>1
      <4>2. CASE i # Len(c.indents) + 1
        <5>1. i \in 1..Len(c.indents) /\ i + 1 \in 1..Len(c.indents) + 1
          BY <3>1, <4>2
        <5> QED BY <3>2, <3>3, <5>1
      <4> QED BY <4>1, <4>2
    <3> QED BY <3>1, <3>5, <3>6 DEF GoodLevels
  <2>4. d = [c EXCEPT !.indents = levels, !.indent = n, !.tokens = queue]
    BY <1>4 DEF RollIndent
  <2> HIDE DEF levels, queue, d
  <2>5. /\ d \in Context /\ d.tokens = queue /\ d.indent = n /\ d.indents = levels
        /\ d.keys = c.keys /\ d.column = c.column /\ d.allowed = c.allowed /\ d.flow = c.flow
    <3>1. n \in -1..MaxColumn
      OBVIOUS
    <3> QED BY <1>1, <2>1, <2>2, <2>4, <3>1 DEF Context
  <2>6. Good(d, k, m)
    <3>1. Len(c.tokens) + k <= Len(d.tokens) + k /\ c.column + m <= d.column + m
      BY <1>2, <2>1, <2>5, SMTT(30)
    <3>2. GoodLevels(d.indents, d.indent)
      BY <2>3, <2>5
    <3> QED BY <2>5, <3>1, <3>2, QueueGrown
  <2>7. NoBoundary(c) => NoBoundary(d)
    BY <2>1, <2>5 DEF NoBoundary
  <2>8. \A o : Balanced(c, o) => Balanced(d, o)
    <3>1. Len(levels) = Len(c.indents) + 1
      BY <1>2 DEF levels
    <3>2. \A o : Walks(c.tokens, o, Len(c.indents)) =>
                    Walks(queue, o, Len(c.indents) + Weight(token))
      BY <1>2, <1>5, WalksInsert DEF queue
    <3> QED BY <1>5, <2>5, <3>1, <3>2 DEF Balanced
  <2> QED BY <2>5, <2>6, <2>7, <2>8 DEF d
<1> QED BY <1>3, <1>4

(* The last of the keys is that of the current flow level. *)
LEMMA LastKey ==
    ASSUME NEW c \in Context, Len(c.keys) = c.flow + 1
    PROVE  /\ Len(c.keys) \in Nat /\ Len(c.keys) >= 1
           /\ DOMAIN c.keys = 1..Len(c.keys)
           /\ Last(c.keys) = c.keys[Len(c.keys)]
           /\ \A i \in 1..Len(c.keys) : c.keys[i] \in SimpleKey
<1>1. c.keys \in Seq(SimpleKey) /\ c.flow \in 0..MaxFlow
  BY ContextFields
<1> QED BY <1>1 DEF Last

LEMMA ReplaceKey ==
    ASSUME NEW s \in Seq(SimpleKey), NEW p \in 1..Len(s), NEW x \in SimpleKey
    PROVE  /\ ReplaceAt(s, p, x) \in Seq(SimpleKey)
           /\ Len(ReplaceAt(s, p, x)) = Len(s)
           /\ ReplaceAt(s, p, x)[p] = x
           /\ \A i \in 1..Len(s) : i # p => ReplaceAt(s, p, x)[i] = s[i]
BY DEF ReplaceAt

(* yaml_parser_remove_simple_key. *)
LEMMA RemoveGood ==
    ASSUME NEW c, NEW m \in {0, 1}, Good(c, 0, m)
    PROVE  LET d == RemoveSimpleKey(c)
           IN  /\ Good(d, 0, m)
               /\ d.tokens = c.tokens /\ d.column = c.column /\ d.allowed = c.allowed
               /\ d.indent = c.indent /\ d.indents = c.indents /\ d.flow = c.flow
               /\ ~KeyOwed(c) /\ Owes(c) => Owes(d)
               /\ NoneWaits(c) => NoneWaits(d)
<1> DEFINE d == RemoveSimpleKey(c)
           others == ReplaceAt(c.keys, Len(c.keys), NoKey)
           last == Len(c.keys)
<1>1. c \in Context /\ Len(c.keys) = c.flow + 1
  BY DEF Good
<1>2. /\ c.keys \in Seq(SimpleKey) /\ last \in 1..last /\ last \in Nat /\ last >= 1
      /\ c.column \in 0..MaxColumn + 1
      /\ Last(c.keys) = c.keys[last]
  BY <1>1, ContextFields, LastKey
<1>3. /\ others \in Seq(SimpleKey) /\ Len(others) = last
      /\ others[last] = NoKey
      /\ \A i \in 1..last : i # last => others[i] = c.keys[i]
  <2> HIDE DEF d
  <2> QED BY <1>2, NoKeyTyped, ReplaceKey, ZenonT(30)
<1>4. /\ d \in Context /\ d.keys = others
      /\ d.tokens = c.tokens /\ d.column = c.column /\ d.allowed = c.allowed
      /\ d.indent = c.indent /\ d.indents = c.indents /\ d.flow = c.flow
  <2>1. d = [c EXCEPT !.keys = others]
    BY DEF RemoveSimpleKey
  <2> HIDE DEF d, others, last
  <2> QED BY <1>1, <1>3, <2>1, SetKeys
<1> HIDE DEF d, others
<1>5. Good(d, 0, m)
  <2>1. Len(d.keys) = Len(c.keys)
    BY <1>3, <1>4
  <2>2. \A i \in 1..Len(c.keys) : d.keys[i].possible =>
           /\ c.keys[i].possible /\ d.keys[i].at = c.keys[i].at
           /\ d.keys[i].column = c.keys[i].column
           /\ \/ d.keys[i].oldLine
              \/ d.keys[i].oldLine = c.keys[i].oldLine /\ c.column + m <= d.column + m
    BY <1>2, <1>3, <1>4, NoKeyTyped
  <2>3. KeysAsIn(d, c, m, m)
    BY <2>1, <2>2 DEF KeysAsIn
  <2> QED BY <1>4, <2>3, KeysChanged
<1>6. ASSUME ~KeyOwed(c), Owes(c) PROVE Owes(d)
  <2>1. last # 1
    BY <1>2, <1>6 DEF KeyOwed, Owes
  <2>2. 1 \in 1..last
    BY <1>2
  <2>3. d.keys[1] = c.keys[1]
    BY <1>3, <1>4, <2>1, <2>2
  <2> QED BY <1>6, <2>3 DEF Owes
<1>7. ASSUME NoneWaits(c) PROVE NoneWaits(d)
  <2>1. DOMAIN d.keys = 1..last /\ DOMAIN c.keys = 1..last
    BY <1>2, <1>3, <1>4
  <2>2. \A i \in 1..last : c.keys[i].possible => c.keys[i].oldLine
    BY <1>7, <2>1 DEF NoneWaits
  <2>3. \A i \in 1..last : d.keys[i].possible => d.keys[i].oldLine
    BY <1>3, <1>4, <2>2, NoKeyTyped
  <2> QED BY <2>1, <2>3 DEF NoneWaits
<1> QED BY <1>4, <1>5, <1>6, <1>7 DEF d

(* yaml_parser_save_simple_key: the key goes in before its token. *)
LEMMA SaveGood ==
    ASSUME NEW c, Good(c, 0, 0), c.column <= MaxColumn, CanSave(c)
    PROVE  LET d == SaveSimpleKey(c)
           IN  /\ Good(d, 1, 1)
               /\ d.tokens = c.tokens /\ d.column = c.column /\ d.allowed = c.allowed
               /\ d.indent = c.indent /\ d.indents = c.indents /\ d.flow = c.flow
               /\ Owes(c) => Owes(d)
<1> DEFINE d == SaveSimpleKey(c)
           last == Len(c.keys)
           key == KeyHere(c)
           others == ReplaceAt(c.keys, last, key)
           l == Len(c.tokens)
<1>1. c \in Context /\ Len(c.keys) = c.flow + 1 /\ GoodLevels(c.indents, c.indent)
  BY DEF Good
<1>2. /\ c.keys \in Seq(SimpleKey) /\ last \in 1..last /\ last \in Nat /\ last >= 1
      /\ DOMAIN c.keys = 1..last
      /\ c.column \in 0..MaxColumn + 1 /\ c.tokens \in Seq(Token)
      /\ Last(c.keys) = c.keys[last] /\ l \in Nat
      /\ \A i \in 1..last : c.keys[i] \in SimpleKey
  BY <1>1, ContextFields, LastKey
<1>3. CASE ~c.allowed
  <2>1. d = c
    BY <1>3 DEF SaveSimpleKey
  <2>2. Good(c, 1, 1)
    <3>1. Len(c.tokens) + 0 <= Len(c.tokens) + 1 /\ c.column + 0 <= c.column + 1
      BY <1>2
    <3> QED BY <1>1, <3>1, QueueGrown
  <2> QED BY <2>1, <2>2
<1>4. CASE c.allowed
  <2>1. /\ key \in SimpleKey /\ key.possible /\ key.at = l /\ key.column = c.column
        /\ ~key.oldLine
    BY <1>2 DEF KeyHere, Required, SimpleKey
  <2>2. /\ others \in Seq(SimpleKey) /\ Len(others) = last
        /\ others[last] = key
        /\ \A i \in 1..last : i # last => others[i] = c.keys[i]
    <3> HIDE DEF key, last
    <3> HIDE DEF d, l, others
    <3>1. key \in SimpleKey /\ last \in 1..Len(c.keys) /\ c.keys \in Seq(SimpleKey)
      BY <1>2, <2>1 DEF last
    <3> HIDE DEF key
    <3>2. /\ ReplaceAt(c.keys, last, key) \in Seq(SimpleKey)
          /\ Len(ReplaceAt(c.keys, last, key)) = Len(c.keys)
          /\ ReplaceAt(c.keys, last, key)[last] = key
          /\ \A i \in 1..Len(c.keys) : i # last => ReplaceAt(c.keys, last, key)[i] = c.keys[i]
      BY <3>1, ReplaceKey
    <3> QED BY <3>2 DEF last, others
  <2>3. /\ d \in Context /\ d.keys = others
        /\ d.tokens = c.tokens /\ d.column = c.column /\ d.allowed = c.allowed
        /\ d.indent = c.indent /\ d.indents = c.indents /\ d.flow = c.flow
    <3>1. d = [c EXCEPT !.keys = others]
      BY <1>4 DEF SaveSimpleKey
    <3> HIDE DEF d, others, last
    <3> QED BY <1>1, <2>2, <3>1, SetKeys
  <2>4. GoodKeys(c.keys, l, c.column)
    <3>1. GoodKeys(c.keys, Len(c.tokens) + 0, c.column + 0)
      BY DEF Good
    <3>2. Len(c.tokens) + 0 = l /\ c.column + 0 = c.column
      BY <1>2
    <3> QED BY <3>1, <3>2
  <2> HIDE DEF d, others, key, l, last
  <2>5. GoodKeys(others, l + 1, c.column + 1)
    <3> DEFINE m == l + 1
               o == c.column + 1
    <3>1. DOMAIN others = 1..last
      BY <2>2
    <3>2. ASSUME NEW i \in 1..last, others[i].possible
          PROVE  /\ others[i].at \in 0..m - 1
                 /\ others[i].column <= MaxColumn
                 /\ others[i].oldLine \/ others[i].column < o
      <4>1. CASE i = last
        <5>1. c.column <= MaxColumn /\ c.column \in Int
          BY <1>2
        <5> QED BY <1>2, <2>1, <2>2, <4>1, <5>1
      <4>2. CASE i # last
        <5>1. others[i] = c.keys[i]
          BY <2>2, <4>2
        <5>2. /\ c.keys[i].at \in 0..l - 1 /\ c.keys[i].column <= MaxColumn
              /\ c.keys[i].oldLine \/ c.keys[i].column < c.column
          BY <1>2, <2>4, <3>2, <5>1 DEF GoodKeys
        <5>3. c.keys[i].column \in Int
          BY <1>2, KeyFields
        <5> QED BY <1>2, <5>1, <5>2, <5>3
      <4> QED BY <4>1, <4>2
    <3>3. ASSUME NEW i \in 1..last, NEW j \in 1..last, i < j,
                 others[i].possible, others[j].possible
          PROVE  others[i].at < others[j].at
      <4>1. i # last /\ others[i] = c.keys[i]
        BY <1>2, <2>2, <3>3
      <4>2. c.keys[i].at \in 0..l - 1
        BY <1>2, <2>4, <3>3, <4>1 DEF GoodKeys
      <4>3. CASE j = last
        BY <1>2, <2>1, <2>2, <4>1, <4>2, <4>3
      <4>4. CASE j # last
        BY <1>2, <2>2, <2>4, <3>3, <4>1, <4>4 DEF GoodKeys
      <4> QED BY <4>3, <4>4
    <3> HIDE DEF m, o
    <3>5. GoodKeys(others, m, o)
      BY <3>1, <3>2, <3>3 DEF GoodKeys
    <3> QED BY <3>5 DEF m, o
  <2>6. Good(d, 1, 1)
    <3>1. GoodKeys(d.keys, Len(d.tokens) + 1, d.column + 1)
      BY <2>3, <2>5 DEF l
    <3> QED BY <1>1, <2>2, <2>3, <3>1 DEF Good, last
  <2>7. ASSUME Owes(c) PROVE Owes(d)
    <3>1. last # 1
      BY <1>2, <1>4, <2>7 DEF CanSave, KeyOwed, Owes
    <3> QED BY <1>2, <2>2, <2>3, <2>7, <3>1 DEF Owes
  <2> QED BY <2>3, <2>6, <2>7 DEF d
<1> QED BY <1>3, <1>4

(* A flow level has a key of its own. *)
LEMMA IncreaseGood ==
    ASSUME NEW c, Good(c, 1, 1), c.flow < MaxFlow
    PROVE  LET d == [c EXCEPT !.keys = Append(@, NoKey), !.flow = @ + 1, !.allowed = TRUE]
           IN  /\ Good(d, 1, 1)
               /\ d.tokens = c.tokens /\ d.column = c.column /\ d.indents = c.indents
               /\ Owes(c) => Owes(d)
<1> DEFINE d == [c EXCEPT !.keys = Append(@, NoKey), !.flow = @ + 1, !.allowed = TRUE]
           others == Append(c.keys, NoKey)
           l == Len(c.tokens) + 1
           o == c.column + 1
<1>1. /\ c \in Context /\ Len(c.keys) = c.flow + 1 /\ GoodLevels(c.indents, c.indent)
      /\ GoodKeys(c.keys, l, o)
  BY DEF Good
<1>2. /\ c.keys \in Seq(SimpleKey) /\ c.flow + 1 \in 0..MaxFlow /\ Len(c.keys) \in Nat
      /\ Len(c.keys) >= 1 /\ DOMAIN c.keys = 1..Len(c.keys)
  <2>1. c.keys \in Seq(SimpleKey) /\ c.flow \in 0..MaxFlow
    BY <1>1, ContextFields
  <2> QED BY <1>1, <2>1, LastKey, ScannerAssumption
<1>3. /\ others \in Seq(SimpleKey) /\ Len(others) = Len(c.keys) + 1
      /\ DOMAIN others = 1..Len(c.keys) + 1
      /\ \A i \in 1..Len(c.keys) : others[i] = c.keys[i]
      /\ ~others[Len(c.keys) + 1].possible
  BY <1>2, NoKeyTyped
<1> HIDE DEF others
<1>4. /\ d \in Context /\ d.keys = others /\ d.flow = c.flow + 1
      /\ d.tokens = c.tokens /\ d.column = c.column
      /\ d.indent = c.indent /\ d.indents = c.indents
  <2>1. d = [c EXCEPT !.keys = others, !.flow = c.flow + 1, !.allowed = TRUE]
    BY DEF others
  <2> HIDE DEF d
  <2> QED BY <1>1, <1>2, <1>3, <2>1 DEF Context
<1> HIDE DEF d, l, o
<1>5. GoodKeys(others, l, o)
  <2>1. ASSUME NEW i \in DOMAIN others, others[i].possible
        PROVE  i \in DOMAIN c.keys /\ others[i] = c.keys[i]
    <3>1. i # Len(c.keys) + 1
      BY <1>3, <2>1
    <3> QED BY <1>2, <1>3, <3>1
  <2> QED BY <1>1, <2>1 DEF GoodKeys
<1>6. Good(d, 1, 1)
  <2>1. GoodKeys(d.keys, Len(d.tokens) + 1, d.column + 1)
    BY <1>4, <1>5 DEF l, o
  <2> QED BY <1>1, <1>3, <1>4, <2>1 DEF Good
<1>7. Owes(c) => Owes(d)
  BY <1>2, <1>3, <1>4 DEF Owes
<1> QED BY <1>4, <1>6, <1>7 DEF d

(* yaml_parser_decrease_flow_level: the key of the block context stays. *)
LEMMA DecreaseGood ==
    ASSUME NEW c, NEW m \in {0, 1}, Good(c, 0, m)
    PROVE  LET d == DecreaseFlowLevel(c)
           IN  /\ Good(d, 0, m)
               /\ d.tokens = c.tokens /\ d.column = c.column /\ d.allowed = c.allowed
               /\ d.indents = c.indents
               /\ Owes(c) => Owes(d)
<1> DEFINE d == DecreaseFlowLevel(c)
           others == Front(c.keys)
           l == Len(c.tokens) + 0
           o == c.column + m
<1>1. /\ c \in Context /\ Len(c.keys) = c.flow + 1 /\ GoodLevels(c.indents, c.indent)
      /\ GoodKeys(c.keys, l, o)
  BY DEF Good
<1>2. /\ c.keys \in Seq(SimpleKey) /\ c.flow \in 0..MaxFlow /\ Len(c.keys) \in Nat
      /\ Len(c.keys) >= 1 /\ DOMAIN c.keys = 1..Len(c.keys)
  BY <1>1, ContextFields, LastKey
<1>3. CASE ~(c.flow > 0)
  BY <1>3 DEF DecreaseFlowLevel
<1>4. CASE c.flow > 0
  <2>1. /\ others \in Seq(SimpleKey) /\ Len(others) = Len(c.keys) - 1
        /\ \A i \in 1..Len(c.keys) - 1 : others[i] = c.keys[i]
    <3>1. c.keys # <<>>
      BY <1>2
    <3> QED BY <1>2, <3>1, FrontProperties
  <2>2. DOMAIN others = 1..Len(c.keys) - 1 /\ Len(c.keys) >= 2 /\ c.flow - 1 \in 0..MaxFlow
    <3>1. DOMAIN others = 1..Len(others)
      BY <2>1
    <3> HIDE DEF others
    <3> QED BY <1>1, <1>2, <1>4, <2>1, <3>1, ScannerAssumption
  <2>3. d = [c EXCEPT !.flow = c.flow - 1, !.keys = others]
    BY <1>4 DEF DecreaseFlowLevel
  <2> HIDE DEF others, d, l, o
  <2>4. /\ d \in Context /\ d.keys = others /\ d.flow = c.flow - 1
        /\ d.tokens = c.tokens /\ d.column = c.column /\ d.allowed = c.allowed
        /\ d.indent = c.indent /\ d.indents = c.indents
    BY <1>1, <2>1, <2>2, <2>3 DEF Context
  <2>5. GoodKeys(others, l, o)
    <3>1. \A i \in DOMAIN others : i \in DOMAIN c.keys /\ others[i] = c.keys[i]
      BY <1>2, <2>1, <2>2
    <3> QED BY <1>1, <3>1 DEF GoodKeys
  <2>6. Good(d, 0, m)
    <3>1. GoodKeys(d.keys, Len(d.tokens) + 0, d.column + m)
      BY <2>4, <2>5 DEF l, o
    <3> QED BY <1>1, <1>2, <2>1, <2>4, <3>1 DEF Good
  <2>7. Owes(c) => Owes(d)
    BY <1>2, <2>1, <2>2, <2>4 DEF Owes
  <2> QED BY <2>4, <2>6, <2>7 DEF d
<1> QED BY <1>3, <1>4

(* A value puts KEY in front of the token of its key.                      *)
LEMMA InsertKeyGood ==
    ASSUME NEW c, Good(c, 0, 0), Last(c.keys).possible
    PROVE  LET d == InsertKey(c)
           IN  /\ Good(d, 0, 0) /\ d.column = c.column
               /\ NoBoundary(c) => NoBoundary(d)
               /\ \A o : Balanced(c, o) => Balanced(d, o)
<1> DEFINE key == Last(c.keys)
           keyed == [c EXCEPT !.tokens = InsertAt(c.tokens, key.at + 1, "KEY")]
           rolled == RollIndent(keyed, key.column, key.at, "BLOCK-MAPPING-START")
           d == InsertKey(c)
<1>1. c \in Context /\ Len(c.keys) = c.flow + 1 /\ GoodLevels(c.indents, c.indent)
  BY DEF Good
<1>2. c.tokens \in Seq(Token) /\ c.column \in 0..MaxColumn + 1
  BY <1>1, ContextFields
<1>3. key \in SimpleKey /\ key.at \in 0..Len(c.tokens) - 1 /\ key.column \in 0..MaxColumn
  <2>1. key = c.keys[Len(c.keys)] /\ Len(c.keys) \in DOMAIN c.keys /\ key \in SimpleKey
    BY <1>1, LastKey
  <2>2. GoodKeys(c.keys, Len(c.tokens) + 0, c.column + 0)
    BY DEF Good
  <2>3. key.at \in 0..Len(c.tokens) + 0 - 1 /\ key.column <= MaxColumn
    BY <2>1, <2>2 DEF GoodKeys
  <2> HIDE DEF key
  <2> QED BY <1>2, <2>1, <2>3, KeyFields
<1>4. /\ "KEY" \in Token /\ "KEY" \notin Boundary /\ Weight("KEY") = 0
      /\ "BLOCK-MAPPING-START" \in BlockStartToken
  BY DEF Token, BlockStartToken, Boundary, Weight
<1> HIDE DEF key
<1> DEFINE queue == InsertAt(c.tokens, key.at + 1, "KEY")
<1>5. /\ queue \in Seq(Token) /\ Len(queue) = Len(c.tokens) + 1
      /\ (\A i \in DOMAIN c.tokens : c.tokens[i] \notin Boundary) =>
            \A i \in DOMAIN queue : queue[i] \notin Boundary
  <2>1. key.at \in 0..Len(c.tokens)
    BY <1>2, <1>3
  <2> QED BY <1>2, <1>4, <2>1, InsertToken
<1>6. /\ keyed \in Context /\ keyed.tokens = queue
      /\ keyed.keys = c.keys /\ keyed.column = c.column /\ keyed.allowed = c.allowed
      /\ keyed.indent = c.indent /\ keyed.indents = c.indents /\ keyed.flow = c.flow
  <2> HIDE DEF queue
  <2>1. keyed = [c EXCEPT !.tokens = queue]
    BY DEF queue
  <2> HIDE DEF keyed
  <2> QED BY <1>1, <1>5, <2>1, SetTokens
<1>7. d = Allow(RemoveSimpleKey(rolled), FALSE)
  BY DEF InsertKey, key
<1> HIDE DEF queue, keyed
<1>8. Good(keyed, 0, 0) /\ (NoBoundary(c) => NoBoundary(keyed))
  <2>1. Len(c.tokens) + 0 <= Len(keyed.tokens) + 0 /\ c.column + 0 <= keyed.column + 0
    BY <1>2, <1>5, <1>6
  <2>2. GoodLevels(keyed.indents, keyed.indent)
    BY <1>1, <1>6
  <2> QED BY <1>5, <1>6, <2>1, <2>2, QueueGrown DEF NoBoundary
<1>13. \A o : Balanced(c, o) => Balanced(keyed, o)
  <2>1. key.at \in 0..Len(c.tokens) /\ Weight("KEY") \in {0, 1}
    BY <1>2, <1>3, <1>4
  <2>2. \A o : Walks(c.tokens, o, Len(c.indents)) =>
                  Walks(queue, o, Len(c.indents) + Weight("KEY"))
    BY <1>2, <1>4, <2>1, WalksInsert DEF queue
  <2>3. c.indents \in Seq(-1..MaxColumn)
    BY <1>1, ContextFields
  <2>4. Len(c.indents) + Weight("KEY") = Len(c.indents)
    BY <1>4, <2>3
  <2> QED BY <1>6, <2>2, <2>4 DEF Balanced
<1>9. /\ Good(rolled, 0, 0) /\ rolled.column = keyed.column
      /\ NoBoundary(keyed) => NoBoundary(rolled)
      /\ \A o : Balanced(keyed, o) => Balanced(rolled, o)
  <2>1. key.at \in 0..Len(keyed.tokens)
    BY <1>2, <1>3, <1>5, <1>6
  <2> QED BY <1>3, <1>4, <1>8, <2>1, RollGood
<1> HIDE DEF rolled, d
<1> DEFINE e == RemoveSimpleKey(rolled)
<1>10. Good(e, 0, 0) /\ e.tokens = rolled.tokens /\ e.column = rolled.column
       /\ e.indents = rolled.indents
  BY <1>9, RemoveGood
<1> HIDE DEF e
<1>11. Good(Allow(e, FALSE), 0, 0) /\ Allow(e, FALSE).tokens = e.tokens
       /\ Allow(e, FALSE).column = e.column /\ Allow(e, FALSE).indents = e.indents
  BY <1>10, AllowGood
<1>12. d = Allow(e, FALSE)
  BY <1>7 DEF e
<1>14. \A o : Balanced(c, o) => Balanced(d, o)
  BY <1>9, <1>10, <1>11, <1>12, <1>13 DEF Balanced
<1> QED BY <1>6, <1>8, <1>9, <1>10, <1>11, <1>12, <1>14 DEF NoBoundary, d

-----------------------------------------------------------------------------
(***************************************************************************)
(* The inductive invariant: the context is good between two steps; a token *)
(* that is handed over has no key to wait for; and behind a token that no  *)
(* block collection reaches across there is nothing: every key is of an    *)
(* older line, so that none asks for more.                                 *)
(***************************************************************************)
Clears(c) == /\ NoneWaits(c)
             /\ c.flow = 0 => c.indents = <<>>

EndsWell(c) == /\ \A i \in DOMAIN c.tokens : c.tokens[i] \in Boundary => i = Len(c.tokens)
               /\ NoBoundary(c) \/ Clears(c)

NotStarted == /\ tokens = <<>>
              /\ indents = <<>>
              /\ flowLevel = 0
              /\ ~tokenAvailable

Inv == /\ TypeOK
       /\ IF Started THEN Good(Here, 0, 0) /\ EndsWell(Here) ELSE NotStarted
       /\ Balanced(Here, opened)
       /\ streamEndProduced => tokens = <<>>
       /\ tokenAvailable => /\ tokens # <<>>
                            /\ \A i \in DOMAIN simpleKeys :
                                  simpleKeys[i].possible => simpleKeys[i].at # 0

(* A context that a fetcher starts from, and one that it may lead to.      *)
Before(c) == /\ Good(c, 0, 0)
             /\ Balanced(c, opened)
             /\ NoBoundary(c)
             /\ c.column <= MaxColumn
             /\ Owes(Here) => Owes(c)

After(c) == /\ Good(c, 0, 0)
            /\ Balanced(c, opened)
            /\ EndsWell(c)
            /\ Started /\ Owes(Here) => Owes(c) \/ Last(c.tokens) = "VALUE"

LEMMA HereFields ==
    /\ Here.tokens = tokens /\ Here.column = column /\ Here.keys = simpleKeys
    /\ Here.allowed = simpleKeyAllowed /\ Here.indent = indent /\ Here.indents = indents
    /\ Here.flow = flowLevel
BY DEF Here

(* What is good of the context is what the properties say.                 *)
LEMMA InvImplies ==
    ASSUME Inv
    PROVE  /\ TypeOK /\ StacksMatchLevels /\ KeysPointIntoQueue /\ StreamEndsOnce
           /\ BlockCollectionsBalance
<1>4. BlockCollectionsBalance
  <2>1. tokens \in Seq(Token) /\ Walks(tokens, opened, Len(indents))
    BY HereFields DEF Inv, TypeOK, Balanced
  <2>2. (\A n \in 0..Len(tokens) : Depth[n] >= 0) /\ Depth[Len(tokens)] = Len(indents)
    BY <2>1, WalksDepth
  <2>3. ASSUME NEW n \in DOMAIN tokens, tokens[n] \in Boundary, flowLevel = 0
        PROVE  Depth[n] = 0
    <3>1. tokens # <<>>
      BY <2>1, <2>3
    <3>2. EndsWell(Here)
      BY <3>1 DEF Inv, NotStarted
    <3>3. n = Len(tokens) /\ indents = <<>>
      BY <2>3, <3>2, HereFields DEF EndsWell, NoBoundary, Clears
    <3> QED BY <2>2, <3>3
  <2> QED BY <2>2, <2>3 DEF BlockCollectionsBalance
<1>1. TypeOK /\ (streamEndProduced => tokens = <<>>)
  BY DEF Inv
<1>2. CASE Started
  <2>1. Good(Here, 0, 0) /\ EndsWell(Here)
    BY <1>2 DEF Inv
  <2>2. Len(simpleKeys) = flowLevel + 1 /\ GoodLevels(indents, indent)
        /\ GoodKeys(simpleKeys, Len(tokens) + 0, column + 0)
    BY <2>1, HereFields DEF Good
  <2>3. StacksMatchLevels
    BY <2>2 DEF StacksMatchLevels, GoodLevels
  <2>4. KeysPointIntoQueue
    <3>1. Len(tokens) + 0 = Len(tokens)
      BY <1>1 DEF TypeOK
    <3> QED BY <2>2, <3>1 DEF KeysPointIntoQueue, GoodKeys
  <2>5. StreamEndsOnce
    BY <1>1, <2>1, HereFields DEF StreamEndsOnce, EndsWell, Boundary
  <2> QED BY <1>1, <1>4, <2>3, <2>4, <2>5
<1>3. CASE ~Started
  <2>1. tokens = <<>> /\ simpleKeys = <<>>
    BY <1>3 DEF Inv, NotStarted, Started
  <2> QED BY <1>1, <1>3, <1>4, <2>1 DEF StacksMatchLevels, KeysPointIntoQueue, StreamEndsOnce
<1> QED BY <1>2, <1>3

LEMMA InitInv == Init => Inv
<1> SUFFICES ASSUME Init PROVE Inv
  OBVIOUS
<1>1. TypeOK
  <2>1. /\ 0 \in 0..MaxColumn + 1 /\ 0 \in -1..MaxColumn /\ 0 \in 0..MaxFlow
    BY ScannerAssumption
  <2>2. /\ tokens \in Seq(Token) /\ simpleKeys \in Seq(SimpleKey)
        /\ indents \in Seq(-1..MaxColumn)
    <3>1. \A S : <<>> \in Seq(S)
      OBVIOUS
    <3> QED BY <3>1 DEF Init
  <2>3. column \in 0..MaxColumn + 1 /\ indent \in -1..MaxColumn /\ flowLevel \in 0..MaxFlow
    BY <2>1, Zenon DEF Init
  <2>4. /\ tokenAvailable \in BOOLEAN /\ streamEndProduced \in BOOLEAN
        /\ simpleKeyAllowed \in BOOLEAN
        /\ error \in {"none", "scanner", "assertion"}
    BY Zenon DEF Init
  <2>5. opened \in Int
    BY DEF Init
  <2> QED BY <2>2, <2>3, <2>4, <2>5 DEF TypeOK
<1>2. ~Started /\ NotStarted
  BY DEF Init, Started, NotStarted
<1>3. Balanced(Here, opened)
  <2>1. Walks(<<>>, 0, 0) /\ Len(<<>>) = 0
    BY WalksEmpty
  <2> QED BY <2>1, HereFields DEF Init, Balanced
<1> QED BY <1>1, <1>2, <1>3 DEF Init, Inv

(* The context before a token, when more are needed.                       *)
LEMMA CheckedGood ==
    ASSUME Inv, Started, ~MissesKey
    PROVE  /\ Good(Checked, 0, 0) /\ Checked.tokens = tokens
           /\ Checked.column = column
           /\ Checked.indents = indents /\ Checked.flow = flowLevel
           /\ Owes(Here) => Owes(Checked)
           /\ NoneWaits(Here) /\ tokens # <<>> => \A i \in DOMAIN Checked.keys : ~Checked.keys[i].possible
<1>1. Good(Here, 0, 0) /\ Here \in Context
  BY DEF Inv, Good
<1>2. CASE tokens = <<>>
  BY <1>1, <1>2, HereFields DEF Checked
<1>3. CASE tokens # <<>>
  <2> DEFINE d == StaleSimpleKeys(Here)
  <2>1. ~LosesRequiredKey(Here)
    BY <1>3 DEF MissesKey
  <2>2. /\ Good(d, 0, 0) /\ d.tokens = Here.tokens /\ d.column = Here.column
        /\ \A i \in DOMAIN d.keys : d.keys[i].possible =>
              ~IsStale(Here.keys[i], Here) /\ d.keys[i] = Here.keys[i]
        /\ ~LosesRequiredKey(Here) /\ Owes(Here) => Owes(d)
        /\ d.flow = Here.flow /\ d.indents = Here.indents
    <3> SUFFICES ASSUME NEW c, Good(c, 0, 0)
                 PROVE  LET e == StaleSimpleKeys(c)
                        IN  /\ Good(e, 0, 0) /\ e.tokens = c.tokens /\ e.column = c.column
                            /\ \A i \in DOMAIN e.keys : e.keys[i].possible =>
                                  ~IsStale(c.keys[i], c) /\ e.keys[i] = c.keys[i]
                            /\ ~LosesRequiredKey(c) /\ Owes(c) => Owes(e)
                            /\ e.flow = c.flow /\ e.indents = c.indents
      BY <1>1
    <3> QED BY StaleGood
  <2>3. Checked = d
    BY <1>3 DEF Checked
  <2> HIDE DEF d
  <2>4. ASSUME NoneWaits(Here), NEW i \in DOMAIN d.keys, d.keys[i].possible PROVE FALSE
    <3>1. ~IsStale(Here.keys[i], Here) /\ d.keys[i] = Here.keys[i]
      BY <2>2, <2>4
    <3>2. DOMAIN d.keys = DOMAIN Here.keys
      <4>1. d \in Context /\ Len(d.keys) = d.flow + 1 /\ Len(Here.keys) = Here.flow + 1
        BY <1>1, <2>2 DEF Good
      <4>2. DOMAIN d.keys = 1..Len(d.keys)
        BY <4>1, LastKey
      <4>3. DOMAIN Here.keys = 1..Len(Here.keys)
        BY <1>1, <4>1, ContextFields
      <4> QED BY <2>2, <4>1, <4>2, <4>3
    <3>3. Here.keys[i].oldLine
      BY <2>4, <3>1, <3>2 DEF NoneWaits
    <3> QED BY <2>4, <3>1, <3>3 DEF IsStale
  <2> QED BY <2>1, <2>2, <2>3, <2>4, HereFields
<1> QED BY <1>2, <1>3

(* Where a fetcher looks for its token.                                    *)
LEMMA PositionGood ==
    ASSUME NEW c, Good(c, 0, 0), NEW p \in ScanToNextToken(c), ~LosesRequiredKey(p)
    PROVE  LET d == UnrollIndent(StaleSimpleKeys(p), p.column)
           IN  /\ Good(d, 0, 0) /\ d.column <= MaxColumn
               /\ \A o : Balanced(c, o) => Balanced(d, o)
               /\ NoBoundary(c) => NoBoundary(d)
               /\ Owes(c) => Owes(d)
<1>1. c \in Context /\ c.column \in 0..MaxColumn + 1 /\ Len(c.keys) = c.flow + 1
      /\ c.keys \in Seq(SimpleKey)
  BY ContextFields DEF Good
<1>2. /\ Good(p, 0, 0) /\ p.column \in 0..MaxColumn /\ p.tokens = c.tokens
      /\ p.indents = c.indents
      /\ Owes(c) => Owes(p)
  <2>1. CASE \E n \in c.column..MaxColumn : p = [c EXCEPT !.column = n]
    <3>1. PICK n \in c.column..MaxColumn : p = [c EXCEPT !.column = n]
      BY <2>1
    <3>2. n \in 0..MaxColumn /\ n \in 0..MaxColumn + 1 /\ c.column <= n
      BY <1>1, ScannerAssumption
    <3>3. /\ p \in Context /\ p.column = n
          /\ p.tokens = c.tokens /\ p.keys = c.keys
          /\ p.indent = c.indent /\ p.indents = c.indents /\ p.flow = c.flow
      BY <1>1, <3>1, <3>2, SetColumn
    <3>4. Good(p, 0, 0)
      <4>1. Len(c.tokens) + 0 <= Len(p.tokens) + 0 /\ c.column + 0 <= p.column + 0
        <5>1. Len(c.tokens) \in Nat
          BY <1>1, ContextFields
        <5> QED BY <1>1, <3>2, <3>3, <5>1
      <4>2. GoodLevels(p.indents, p.indent)
        BY <3>3 DEF Good
      <4> QED BY <3>3, <4>1, <4>2, QueueGrown
    <3> QED BY <3>2, <3>3, <3>4 DEF Owes
  <2>2. CASE \E n \in 0..MaxColumn : p = Allow(NextLine(c, n), c.allowed \/ c.flow = 0)
    <3>1. PICK n \in 0..MaxColumn : p = Allow(NextLine(c, n), c.allowed \/ c.flow = 0)
      BY <2>2
    <3> DEFINE e == NextLine(c, n)
               b == c.allowed \/ c.flow = 0
    <3>2. n \in 0..MaxColumn + 1
      BY ScannerAssumption
    <3>3. /\ Good(e, 0, 0) /\ e.tokens = c.tokens /\ e.column = n /\ e.indents = c.indents
          /\ Owes(c) => Owes(e)
      BY <3>2, NextLineGood
    <3>4. p = Allow(e, b) /\ b \in BOOLEAN
      BY <3>1
    <3> HIDE DEF e, b
    <3>5. /\ Good(p, 0, 0) /\ p.tokens = e.tokens /\ p.keys = e.keys /\ p.column = e.column
          /\ p.indents = e.indents
      BY <3>3, <3>4, AllowGood
    <3> QED BY <3>3, <3>5 DEF Owes
  <2> QED BY <2>1, <2>2 DEF ScanToNextToken
<1> DEFINE e == StaleSimpleKeys(p)
           d == UnrollIndent(e, p.column)
<1>3. /\ Good(e, 0, 0) /\ e.tokens = p.tokens /\ e.column = p.column /\ e.indents = p.indents
      /\ Owes(p) => Owes(e)
  BY <1>2, StaleGood
<1>4. p.column \in Int /\ p.column >= -1 /\ p.column <= MaxColumn
  BY <1>2, ScannerAssumption
<1> HIDE DEF e
<1>5. /\ Good(d, 0, 0) /\ d.keys = e.keys /\ d.column = e.column
      /\ NoBoundary(e) => NoBoundary(d)
      /\ \A o : Balanced(e, o) => Balanced(d, o)
  BY <1>3, <1>4, UnrollGood
<1>6. \A o : Balanced(c, o) => Balanced(e, o)
  BY <1>2, <1>3 DEF Balanced
<1> QED BY <1>2, <1>3, <1>4, <1>5, <1>6 DEF Owes, NoBoundary, e

(* No fetcher starts at the end, and each of them starts well.             *)
LEMMA AtTokenGood ==
    ASSUME Inv, Fetching, NEW c \in AtToken
    PROVE  Before(c)
<1>1. Running /\ Started /\ ~MissesKey /\ NeedMoreTokens
  BY DEF Fetching
<1>2. /\ Good(Checked, 0, 0) /\ Checked.tokens = tokens /\ Checked.indents = indents
      /\ Owes(Here) => Owes(Checked)
      /\ NoneWaits(Here) /\ tokens # <<>> =>
            \A i \in DOMAIN Checked.keys : ~Checked.keys[i].possible
  BY <1>1, CheckedGood
<1>3. /\ TypeOK /\ EndsWell(Here) /\ Balanced(Here, opened)
      /\ Here.tokens = tokens /\ Here.indents = indents
  BY <1>1, HereFields DEF Inv
<1>10. Balanced(Checked, opened)
  BY <1>2, <1>3 DEF Balanced
<1>4. NoBoundary(Here)
  <2>1. CASE tokens = <<>>
    BY <1>3, <2>1 DEF NoBoundary
  <2>2. CASE tokens # <<>>
    BY <1>1, <1>2, <1>3, <2>2 DEF NeedMoreTokens, EndsWell, Clears
  <2> QED BY <2>1, <2>2
<1>5. ~AtEnd
  BY <1>3, <1>4 DEF AtEnd, ToSet, NoBoundary, Boundary
<1>6. NoBoundary(Checked)
  BY <1>2, <1>3, <1>4 DEF NoBoundary
<1>7. PICK p \in ScanToNextToken(Checked) :
         ~LosesRequiredKey(p) /\ c = UnrollIndent(StaleSimpleKeys(p), p.column)
  BY <1>5 DEF AtToken, Positions
<1>8. ASSUME NEW q, Good(q, 0, 0), NEW r \in ScanToNextToken(q), ~LosesRequiredKey(r)
      PROVE  LET d == UnrollIndent(StaleSimpleKeys(r), r.column)
             IN  /\ Good(d, 0, 0) /\ d.column <= MaxColumn
                 /\ \A o : Balanced(q, o) => Balanced(d, o)
                 /\ NoBoundary(q) => NoBoundary(d)
                 /\ Owes(q) => Owes(d)
  BY <1>8, PositionGood
<1>9. /\ Good(c, 0, 0) /\ c.column <= MaxColumn
      /\ \A o : Balanced(Checked, o) => Balanced(c, o)
      /\ NoBoundary(Checked) => NoBoundary(c)
      /\ Owes(Checked) => Owes(c)
  BY <1>2, <1>7, <1>8
<1> QED BY <1>2, <1>6, <1>9, <1>10 DEF Before

(* A step to a context that is good.                                       *)
LEMMA BecomeInv ==
    ASSUME Inv, NEW d, Good(d, 0, 0), EndsWell(d), Balanced(d, opened), Become(d),
           ~streamEndProduced, tokenAvailable' \in BOOLEAN,
           tokenAvailable' => /\ d.tokens # <<>>
                              /\ \A i \in DOMAIN d.keys : d.keys[i].possible => d.keys[i].at # 0
    PROVE  Inv' /\ Started'
<1>1. /\ tokens' = d.tokens /\ column' = d.column /\ simpleKeys' = d.keys
      /\ simpleKeyAllowed' = d.allowed /\ indent' = d.indent /\ indents' = d.indents
      /\ flowLevel' = d.flow
      /\ UNCHANGED <<streamEndProduced, error, opened>>
  BY DEF Become
<1>2. d \in Context /\ Len(d.keys) = d.flow + 1
  BY DEF Good
<1>4. TypeOK'
  <2>1. TypeOK
    BY DEF Inv
  <2> QED BY <1>1, <1>2, <2>1, ContextFields DEF TypeOK
<1>5. d.keys # <<>>
  <2>1. Len(d.keys) >= 1
    BY <1>2, LastKey
  <2> QED BY <2>1
<1>6. Started'
  BY <1>1, <1>5 DEF Started
<1>7. Here' = d
  <2>1. Here' = [tokens |-> d.tokens, column |-> d.column, keys |-> d.keys,
                 allowed |-> d.allowed, indent |-> d.indent, indents |-> d.indents,
                 flow |-> d.flow]
    BY <1>1 DEF Here
  <2>2. d = [tokens |-> d.tokens, column |-> d.column, keys |-> d.keys,
             allowed |-> d.allowed, indent |-> d.indent, indents |-> d.indents,
             flow |-> d.flow]
    BY <1>2 DEF Context
  <2> QED BY <2>1, <2>2
<1>8. Good(Here, 0, 0)' /\ EndsWell(Here)'
  BY <1>2, <1>7 DEF Good, EndsWell, NoBoundary, Clears, NoneWaits
<1>10. Balanced(Here, opened)'
  BY <1>1, <1>7 DEF Balanced
<1>9. Inv'
  BY <1>1, <1>4, <1>6, <1>8, <1>10 DEF Inv
<1> QED BY <1>6, <1>9

LEMMA StepGood ==
    ASSUME Inv, Running, NEW d, After(d), Step(d)
    PROVE  /\ Inv' /\ (OwesKey /\ ~OwesKey' => Last(tokens') = "VALUE")
<1>1. Become(d) /\ tokenAvailable' = FALSE /\ ~streamEndProduced
  BY DEF Step, Running, Inv, TypeOK
<1>2. /\ Good(d, 0, 0) /\ EndsWell(d) /\ Balanced(d, opened)
      /\ Started /\ Owes(Here) => Owes(d) \/ Last(d.tokens) = "VALUE"
  BY DEF After
<1>3. Inv' /\ Started'
  BY <1>1, <1>2, BecomeInv
<1>4. ASSUME OwesKey, ~OwesKey' PROVE Last(tokens') = "VALUE"
  <2>1. Started /\ Owes(Here)
    BY <1>4, HereFields DEF OwesKey, Owes
  <2>2. ~Owes(d)
    BY <1>1, <1>3, <1>4 DEF OwesKey, Owes, Become
  <2>3. tokens' = d.tokens
    BY <1>1 DEF Become
  <2> QED BY <1>2, <2>1, <2>2, <2>3
<1> QED BY <1>3, <1>4

(* What is right of a context before the token is right of the one with    *)
(* its last key removed; and that of what is produced after it.            *)
LEMMA BeforeRemoved ==
    ASSUME NEW c, Before(c), ~KeyOwed(c)
    PROVE  /\ Before(RemoveSimpleKey(c))
           /\ RemoveSimpleKey(c).flow = c.flow /\ RemoveSimpleKey(c).column = c.column
           /\ RemoveSimpleKey(c).indents = c.indents
           /\ NoneWaits(c) => NoneWaits(RemoveSimpleKey(c))
<1> DEFINE d == RemoveSimpleKey(c)
<1>1. Good(c, 0, 0)
  BY DEF Before
<1>2. /\ Good(d, 0, 0) /\ d.tokens = c.tokens /\ d.column = c.column /\ d.flow = c.flow
      /\ d.indents = c.indents
      /\ ~KeyOwed(c) /\ Owes(c) => Owes(d)
      /\ NoneWaits(c) => NoneWaits(d)
  BY <1>1, RemoveGood
<1> HIDE DEF d
<1>3. Before(d)
  BY <1>2 DEF Before, NoBoundary, Balanced
<1> QED BY <1>2, <1>3 DEF d

LEMMA BeforeAllowed ==
    ASSUME NEW c, Before(c), NEW b \in BOOLEAN
    PROVE  /\ Before(Allow(c, b)) /\ Allow(c, b).keys = c.keys /\ Allow(c, b).column = c.column
           /\ Allow(c, b).flow = c.flow /\ Allow(c, b).indents = c.indents
<1> DEFINE d == Allow(c, b)
<1>1. Good(c, 0, 0)
  BY DEF Before
<1>2. /\ Good(d, 0, 0) /\ d.tokens = c.tokens /\ d.column = c.column /\ d.keys = c.keys
      /\ d.flow = c.flow /\ d.indents = c.indents
  BY <1>1, AllowGood
<1> HIDE DEF d
<1>3. Before(d)
  BY <1>2 DEF Before, NoBoundary, Owes, Balanced
<1> QED BY <1>2, <1>3 DEF d

(* A context with a key saved for its token, that is still to come.        *)
Saved(c) == /\ Good(c, 1, 1)
            /\ Balanced(c, opened)
            /\ NoBoundary(c)
            /\ c.column <= MaxColumn
            /\ Owes(Here) => Owes(c)

LEMMA BeforeSaved ==
    ASSUME NEW c, Before(c), CanSave(c)
    PROVE  LET d == SaveSimpleKey(c)
           IN  Saved(d) /\ d.flow = c.flow /\ d.indent = c.indent /\ d.column = c.column
<1> DEFINE d == SaveSimpleKey(c)
<1>1. Good(c, 0, 0) /\ c.column <= MaxColumn
  BY DEF Before
<1>2. /\ Good(d, 1, 1) /\ d.tokens = c.tokens /\ d.column = c.column
      /\ d.flow = c.flow /\ d.indent = c.indent /\ d.indents = c.indents
      /\ Owes(c) => Owes(d)
  BY <1>1, SaveGood
<1> HIDE DEF d
<1>3. Saved(d)
  BY <1>2 DEF Before, Saved, NoBoundary, Balanced
<1> QED BY <1>2, <1>3 DEF d

LEMMA SavedAllowed ==
    ASSUME NEW c, Saved(c), NEW b \in BOOLEAN
    PROVE  LET d == Allow(c, b)
           IN  Saved(d) /\ d.flow = c.flow /\ d.indent = c.indent /\ d.column = c.column
<1> DEFINE d == Allow(c, b)
<1>1. Good(c, 1, 1) /\ 1 \in {0, 1}
  BY DEF Saved
<1>2. /\ Good(d, 1, 1) /\ d.tokens = c.tokens /\ d.column = c.column
      /\ d.flow = c.flow /\ d.indent = c.indent /\ d.keys = c.keys /\ d.indents = c.indents
  BY <1>1, AllowGood
<1> HIDE DEF d
<1>3. Saved(d)
  BY <1>2 DEF Saved, NoBoundary, Owes, Balanced
<1> QED BY <1>2, <1>3 DEF d

(* Tokens that end a fetch.                                                *)
LEMMA ProducedAfter ==
    ASSUME NEW c, Before(c) \/ Saved(c), NEW token \in Token,
           token \notin Boundary, Weight(token) = 0
    PROVE  After(Produce(c, token))
<1> DEFINE d == Produce(c, token)
<1>1. /\ \E k \in {0, 1}, n \in {0, 1} : Good(c, k, n)
      /\ c.column <= MaxColumn /\ NoBoundary(c) /\ (Owes(Here) => Owes(c))
      /\ Balanced(c, opened)
  BY DEF Before, Saved
<1>2. /\ Good(d, 0, 0) /\ d.keys = c.keys
      /\ NoBoundary(c) /\ token \notin Boundary => NoBoundary(d)
      /\ \A o : Balanced(c, o) => Balanced(d, o)
  BY <1>1, ProduceGood
<1> HIDE DEF d
<1>3. EndsWell(d)
  BY <1>1, <1>2 DEF EndsWell, NoBoundary
<1>4. After(d)
  BY <1>1, <1>2, <1>3 DEF After, Owes
<1> QED BY <1>4 DEF d

(* A token that ends on a later line.                                      *)
LEMMA NextLineAfter ==
    ASSUME NEW c, Before(c) \/ Saved(c), NEW token \in Token,
           token \notin Boundary, Weight(token) = 0, NEW o \in 0..MaxColumn + 1
    PROVE  After(NextLine(Enqueue(c, token), o))
<1> DEFINE e == Enqueue(c, token)
           d == NextLine(e, o)
<1>1. /\ \E k \in {0, 1}, n \in {0, 1} : Good(c, k, n)
      /\ NoBoundary(c) /\ (Owes(Here) => Owes(c)) /\ Balanced(c, opened)
  BY DEF Before, Saved
<1>2. PICK n \in {0, 1} : /\ Good(e, 0, n) /\ e.keys = c.keys
                          /\ \A w : Balanced(c, w) => Balanced(e, w)
                          /\ NoBoundary(c) /\ token \notin Boundary => NoBoundary(e)
  BY <1>1, EnqueueGood
<1> HIDE DEF e
<1>3. /\ Good(d, 0, 0) /\ d.tokens = e.tokens /\ d.indents = e.indents
      /\ Owes(e) => Owes(d)
  BY <1>2, NextLineGood
<1> HIDE DEF d
<1>4. EndsWell(d)
  BY <1>1, <1>2, <1>3 DEF EndsWell, NoBoundary
<1>6. Balanced(d, opened)
  BY <1>1, <1>2, <1>3 DEF Balanced
<1>5. After(d)
  BY <1>1, <1>2, <1>3, <1>4, <1>6 DEF After, Owes
<1> QED BY <1>5 DEF d, e

-----------------------------------------------------------------------------
(***************************************************************************)
(* The fetchers: each leads from a context before a token to one after it. *)
(***************************************************************************)
LEMMA StreamStartAfter ==
    ASSUME Inv, FetchStreamStart
    PROVE  \E d : After(d) /\ Step(d)
<1> DEFINE e == Enqueue(Here, "STREAM-START")
           d == [Enqueue(Here, "STREAM-START")
                 EXCEPT !.indent = -1, !.keys = <<NoKey>>, !.allowed = TRUE]
<1>1. TypeOK /\ tokens = <<>> /\ indents = <<>> /\ flowLevel = 0 /\ ~Started /\ Step(d)
  BY DEF FetchStreamStart, Inv, NotStarted
<1>2. Here \in Context
  BY <1>1 DEF TypeOK, Here, Context
<1>3. e = [Here EXCEPT !.tokens = <<"STREAM-START">>]
  <2>1. Append(<<>>, "STREAM-START") = <<"STREAM-START">>
    OBVIOUS
  <2> QED BY <1>1, <2>1, HereFields DEF Enqueue
<1>4. <<"STREAM-START">> \in Seq(Token)
  BY DEF Token
<1>5. /\ e \in Context /\ e.tokens = <<"STREAM-START">> /\ e.column = column
      /\ e.indents = <<>> /\ e.flow = 0
  <2> HIDE DEF e
  <2> SUFFICES ASSUME NEW c \in Context
               PROVE  LET f == [c EXCEPT !.tokens = <<"STREAM-START">>]
                      IN  /\ f \in Context /\ f.tokens = <<"STREAM-START">> /\ f.column = c.column
                          /\ f.indents = c.indents /\ f.flow = c.flow
    BY <1>1, <1>2, <1>3, HereFields
  <2> QED BY <1>4, SetTokens
<1>6. d = [e EXCEPT !.indent = -1, !.keys = <<NoKey>>, !.allowed = TRUE]
  OBVIOUS
<1> HIDE DEF d, e
<1>7. /\ d \in Context /\ d.tokens = <<"STREAM-START">> /\ d.column = column
      /\ d.indents = <<>> /\ d.flow = 0 /\ d.keys = <<NoKey>> /\ d.indent = -1
  <2>1. -1 \in -1..MaxColumn /\ <<NoKey>> \in Seq(SimpleKey)
    BY NoKeyTyped, ScannerAssumption
  <2> SUFFICES ASSUME NEW c \in Context
               PROVE  LET f == [c EXCEPT !.indent = -1, !.keys = <<NoKey>>, !.allowed = TRUE]
                      IN  /\ f \in Context /\ f.tokens = c.tokens /\ f.column = c.column
                          /\ f.indents = c.indents /\ f.flow = c.flow
                          /\ f.keys = <<NoKey>> /\ f.indent = -1
    BY <1>5, <1>6
  <2> QED BY <2>1 DEF Context
<1>8. /\ Len(<<NoKey>>) = 1 /\ DOMAIN <<NoKey>> = {1} /\ ~<<NoKey>>[1].possible
  BY NoKeyTyped
<1>9. GoodLevels(<<>>, -1)
  <2>1. Append(<<>>, -1)[1] = -1 /\ DOMAIN <<>> = {}
    OBVIOUS
  <2> QED BY <2>1 DEF GoodLevels
<1>10. Good(d, 0, 0)
  BY <1>7, <1>8, <1>9 DEF Good, GoodKeys
<1>11. EndsWell(d)
  <2>1. \A i \in DOMAIN d.tokens : d.tokens[i] = "STREAM-START"
    BY <1>7
  <2> QED BY <2>1 DEF EndsWell, NoBoundary, Boundary
<1>13. Balanced(d, opened)
  <2>1. Walks(<<>>, opened, 0)
    <3>1. Balanced(Here, opened)
      BY DEF Inv
    <3> QED BY <1>1, <3>1, HereFields DEF Balanced
  <2>2. Walks(Append(<<>>, "STREAM-START"), opened, 0)
    <3>1. "STREAM-START" \in Token /\ Weight("STREAM-START") = 0 /\ <<>> \in Seq(Token)
      BY DEF Token, Weight, BlockStartToken
    <3> QED BY <2>1, <3>1, WalksAppend
  <2>3. Append(<<>>, "STREAM-START") = <<"STREAM-START">>
    OBVIOUS
  <2> QED BY <1>7, <2>2, <2>3 DEF Balanced
<1>12. After(d)
  BY <1>1, <1>10, <1>11, <1>13 DEF After
<1> QED BY <1>1, <1>12

(* At the start of a line no key of an older one is left, and so none. *)
LEMMA NoneWaitsAtStart ==
    ASSUME NEW c, Good(c, 0, 0), c.column = 0
    PROVE  NoneWaits(c)
<1>1. c \in Context /\ Len(c.keys) = c.flow + 1 /\ GoodKeys(c.keys, Len(c.tokens) + 0, c.column + 0)
  BY DEF Good
<1>2. \A i \in DOMAIN c.keys : c.keys[i].possible => c.keys[i].oldLine \/ c.keys[i].column < 0
  BY <1>1 DEF GoodKeys
<1>3. \A i \in DOMAIN c.keys : c.keys[i].column \in 0..MaxColumn + 1
  <2>1. \A i \in DOMAIN c.keys : c.keys[i] \in SimpleKey
    BY <1>1, LastKey
  <2> QED BY <2>1, KeyFields
<1> QED BY <1>2, <1>3 DEF NoneWaits

(* What ends the blocks leaves a good context, in which no key waits if    *)
(* none did.                                                               *)
LEMMA EndBlocksGood ==
    ASSUME NEW c, Before(c), ~KeyOwed(c), NoneWaits(c)
    PROVE  LET d == EndBlocks(c)
           IN  Before(d) /\ Clears(d)
<1> DEFINE e == UnrollIndent(c, -1)
           f == RemoveSimpleKey(e)
           d == EndBlocks(c)
<1>1. Good(c, 0, 0) /\ -1 \in Int /\ -1 >= -1
  BY DEF Before
<1>2. /\ Good(e, 0, 0) /\ e.keys = c.keys /\ e.column = c.column /\ e.flow = c.flow
      /\ NoBoundary(c) => NoBoundary(e)
      /\ \A o : Balanced(c, o) => Balanced(e, o)
      /\ c.flow = 0 => e.indents = <<>>
  BY <1>1, UnrollGood
<1>3. d = Allow(f, FALSE)
  BY DEF EndBlocks
<1> HIDE DEF d, e
<1>4. Before(e) /\ ~KeyOwed(e) /\ NoneWaits(e)
  BY <1>2 DEF Before, KeyOwed, Owes, NoneWaits
<1>5. /\ Before(f) /\ f.column = e.column /\ f.flow = e.flow /\ f.indents = e.indents
      /\ NoneWaits(f)
  BY <1>4, BeforeRemoved
<1> HIDE DEF f
<1>6. /\ Before(Allow(f, FALSE)) /\ Allow(f, FALSE).keys = f.keys
      /\ Allow(f, FALSE).flow = f.flow /\ Allow(f, FALSE).indents = f.indents
  BY <1>5, BeforeAllowed
<1> QED BY <1>2, <1>3, <1>5, <1>6 DEF d, Clears, NoneWaits

(* A token that no block collection reaches across goes behind them.       *)
LEMMA BoundaryAfter ==
    ASSUME NEW c, Before(c), Clears(c), NEW token \in Token, NEW d,
           Good(d, 0, 0), Balanced(c, opened) => Balanced(d, opened),
           d.tokens = Append(c.tokens, token), d.keys = c.keys \/ NoneWaits(d),
           d.flow = c.flow, d.indents = c.indents, Owes(c) => Owes(d)
    PROVE  After(d)
<1>1. c \in Context
  BY DEF Before, Good
<1>2. c.tokens \in Seq(Token) /\ \A i \in DOMAIN c.tokens : c.tokens[i] \notin Boundary
  BY <1>1, ContextFields DEF Before, NoBoundary
<1>3. \A i \in DOMAIN d.tokens : d.tokens[i] \in Boundary => i = Len(d.tokens)
  BY <1>2
<1>4. Clears(d)
  BY DEF Clears, NoneWaits
<1>5. EndsWell(d)
  BY <1>3, <1>4 DEF EndsWell
<1> QED BY <1>5 DEF After, Before

LEMMA StreamEndAfter ==
    ASSUME Inv, FetchStreamEnd
    PROVE  \E d : After(d) /\ Step(d)
<1>1. PICK c \in AtToken :
         LET end == IF c.column = 0 THEN c ELSE NextLine(c, 0)
         IN  ~KeyOwed(end) /\ Step(Enqueue(EndBlocks(end), "STREAM-END"))
  BY DEF FetchStreamEnd
<1> DEFINE end == IF c.column = 0 THEN c ELSE NextLine(c, 0)
           e == EndBlocks(end)
           d == Enqueue(e, "STREAM-END")
<1>2. ~KeyOwed(end) /\ Step(d)
  BY <1>1
<1>3. Before(c)
  BY AtTokenGood DEF FetchStreamEnd
<1>4. Before(end) /\ NoneWaits(end)
  <2>1. Good(c, 0, 0) /\ c \in Context
    BY <1>3 DEF Before, Good
  <2>2. CASE c.column = 0
    <3>1. NoneWaits(c)
      BY <2>1, <2>2, NoneWaitsAtStart
    <3> QED BY <1>3, <2>2, <3>1
  <2>3. CASE c.column # 0
    <3> DEFINE f == NextLine(c, 0)
    <3>1. 0 \in 0..MaxColumn + 1 /\ 0 <= MaxColumn /\ 0 \in {0, 1}
      BY ScannerAssumption
    <3>2. /\ Good(f, 0, 0) /\ NoneWaits(f) /\ f.tokens = c.tokens /\ f.column = 0
          /\ f.indents = c.indents
          /\ Owes(c) => Owes(f)
      BY <2>1, <3>1, NextLineGood
    <3> HIDE DEF f
    <3>3. Before(f)
      BY <1>3, <3>1, <3>2 DEF Before, NoBoundary, Balanced
    <3> QED BY <2>3, <3>2, <3>3 DEF f
  <2> QED BY <2>2, <2>3
<1> HIDE DEF end
<1>5. Before(e) /\ Clears(e)
  BY <1>2, <1>4, EndBlocksGood
<1> HIDE DEF e
<1>6. Good(e, 0, 0) /\ "STREAM-END" \in Token /\ 0 \in {0, 1} /\ Weight("STREAM-END") = 0
  BY <1>5 DEF Before, Token, Weight, BlockStartToken
<1>7. /\ Good(d, 0, 0) /\ d.tokens = Append(e.tokens, "STREAM-END") /\ d.keys = e.keys
      /\ d.flow = e.flow /\ d.indents = e.indents
      /\ \A o : Balanced(e, o) => Balanced(d, o)
  BY <1>6, EnqueueGood
<1> HIDE DEF d
<1>8. After(d)
  BY <1>5, <1>6, <1>7, BoundaryAfter DEF Owes
<1> QED BY <1>2, <1>8 DEF d

LEMMA DirectiveAfter ==
    ASSUME Inv, FetchDirective
    PROVE  \E d : After(d) /\ Step(d)
<1>1. PICK c \in AtToken :
         /\ c.column = 0 /\ ~KeyOwed(c)
         /\ Step(NextLine(Enqueue(EndBlocks(c), "DIRECTIVE"), 0))
  BY DEF FetchDirective
<1>2. Before(c) /\ NoneWaits(c)
  <2>1. Before(c)
    BY AtTokenGood DEF FetchDirective
  <2> QED BY <1>1, <2>1, NoneWaitsAtStart DEF Before
<1> DEFINE e == EndBlocks(c)
           f == Enqueue(e, "DIRECTIVE")
           d == NextLine(f, 0)
<1>3. Before(e) /\ Clears(e)
  BY <1>1, <1>2, EndBlocksGood
<1>4. Step(d)
  BY <1>1
<1> HIDE DEF e
<1>5. /\ Good(e, 0, 0) /\ "DIRECTIVE" \in Token /\ 0 \in 0..MaxColumn + 1 /\ 0 \in {0, 1}
      /\ Weight("DIRECTIVE") = 0
  BY <1>3, ScannerAssumption DEF Before, Token, Weight, BlockStartToken
<1>6. /\ Good(f, 0, 0) /\ f.tokens = Append(e.tokens, "DIRECTIVE") /\ f.keys = e.keys
      /\ f.flow = e.flow /\ f.indents = e.indents
      /\ \A o : Balanced(e, o) => Balanced(f, o)
  BY <1>5, EnqueueGood
<1> HIDE DEF f
<1>7. /\ Good(d, 0, 0) /\ NoneWaits(d) /\ d.tokens = f.tokens
      /\ d.flow = f.flow /\ d.indents = f.indents
      /\ Owes(f) => Owes(d)
  BY <1>5, <1>6, NextLineGood
<1> HIDE DEF d
<1>8. After(d)
  <2>1. Balanced(e, opened) => Balanced(d, opened)
    BY <1>6, <1>7 DEF Balanced
  <2>2. Owes(e) => Owes(d)
    BY <1>6, <1>7 DEF Owes
  <2> QED BY <1>3, <1>5, <1>6, <1>7, <2>1, <2>2, BoundaryAfter
<1> QED BY <1>4, <1>8

LEMMA DocumentIndicatorAfter ==
    ASSUME Inv, NEW token \in {"DOCUMENT-START", "DOCUMENT-END"}, FetchDocumentIndicator(token)
    PROVE  \E d : After(d) /\ Step(d)
<1>1. PICK c \in AtToken : c.column = 0 /\ ~KeyOwed(c) /\ Step(Produce(EndBlocks(c), token))
  BY DEF FetchDocumentIndicator
<1>2. Before(c) /\ NoneWaits(c)
  <2>1. Before(c)
    BY AtTokenGood DEF FetchDocumentIndicator
  <2> QED BY <1>1, <2>1, NoneWaitsAtStart DEF Before
<1> DEFINE e == EndBlocks(c)
           d == Produce(e, token)
<1>3. Before(e) /\ Clears(e)
  BY <1>1, <1>2, EndBlocksGood
<1> HIDE DEF e
<1>4. /\ Good(e, 0, 0) /\ e.column <= MaxColumn /\ 0 \in {0, 1} /\ token \in Token
      /\ Weight(token) = 0
  BY <1>3 DEF Before, Token, Weight, BlockStartToken
<1>5. /\ Good(d, 0, 0) /\ d.tokens = Append(e.tokens, token) /\ d.keys = e.keys
      /\ d.flow = e.flow /\ d.indents = e.indents
      /\ \A o : Balanced(e, o) => Balanced(d, o)
  BY <1>4, ProduceGood
<1> HIDE DEF d
<1>6. After(d)
  BY <1>3, <1>4, <1>5, BoundaryAfter DEF Owes
<1> QED BY <1>1, <1>6 DEF d, e

LEMMA FlowStartAfter ==
    ASSUME Inv, NEW token \in FlowStart, FetchFlowCollectionStart(token)
    PROVE  \E d : After(d) /\ Step(d)
<1>1. PICK c \in AtToken :
         /\ CanSave(c) /\ c.flow < MaxFlow
         /\ Step(Produce([SaveSimpleKey(c) EXCEPT !.keys = Append(@, NoKey),
                                                  !.flow = @ + 1,
                                                  !.allowed = TRUE], token))
  BY DEF FetchFlowCollectionStart
<1>2. Before(c)
  BY AtTokenGood DEF FetchFlowCollectionStart
<1> DEFINE e == SaveSimpleKey(c)
           f == [e EXCEPT !.keys = Append(@, NoKey), !.flow = @ + 1, !.allowed = TRUE]
<1>3. Saved(e) /\ e.flow < MaxFlow
  BY <1>1, <1>2, BeforeSaved
<1>4. token \in Token /\ token \notin Boundary /\ Weight(token) = 0
  BY ScannerAssumption, PlainToken
<1>5. Step(Produce(f, token))
  BY <1>1
<1> HIDE DEF e
<1>6. Good(e, 1, 1)
  BY <1>3 DEF Saved
<1>7. /\ Good(f, 1, 1) /\ f.tokens = e.tokens /\ f.column = e.column
      /\ f.indents = e.indents
      /\ Owes(e) => Owes(f)
  <2> SUFFICES ASSUME NEW x, Good(x, 1, 1), x.flow < MaxFlow
               PROVE  LET d == [x EXCEPT !.keys = Append(@, NoKey), !.flow = @ + 1,
                                         !.allowed = TRUE]
                      IN  /\ Good(d, 1, 1) /\ d.tokens = x.tokens /\ d.column = x.column
                          /\ d.indents = x.indents
                          /\ Owes(x) => Owes(d)
    BY <1>3, <1>6
  <2> QED BY IncreaseGood
<1> HIDE DEF f
<1>8. Saved(f)
  BY <1>3, <1>7 DEF Saved, NoBoundary, Balanced
<1>9. After(Produce(f, token))
  BY <1>4, <1>8, ProducedAfter
<1> QED BY <1>5, <1>9

LEMMA FlowEndAfter ==
    ASSUME Inv, NEW token \in FlowEnd, FetchFlowCollectionEnd(token)
    PROVE  \E d : After(d) /\ Step(d)
<1>1. PICK c \in AtToken :
         /\ ~KeyOwed(c)
         /\ Step(Produce(Allow(DecreaseFlowLevel(RemoveSimpleKey(c)), FALSE), token))
  BY DEF FetchFlowCollectionEnd
<1>2. Before(c)
  BY AtTokenGood DEF FetchFlowCollectionEnd
<1> DEFINE e == RemoveSimpleKey(c)
           f == DecreaseFlowLevel(e)
           g == Allow(f, FALSE)
<1>3. Before(e)
  BY <1>1, <1>2, BeforeRemoved
<1> HIDE DEF e
<1>4. Before(f)
  <2>1. Good(e, 0, 0) /\ 0 \in {0, 1}
    BY <1>3 DEF Before
  <2>2. /\ Good(f, 0, 0) /\ f.tokens = e.tokens /\ f.column = e.column
        /\ f.indents = e.indents /\ (Owes(e) => Owes(f))
    BY <2>1, DecreaseGood
  <2> HIDE DEF f
  <2> QED BY <1>3, <2>2 DEF Before, NoBoundary, Balanced
<1> HIDE DEF f
<1>5. Before(g)
  BY <1>4, BeforeAllowed
<1>6. token \in Token /\ token \notin Boundary /\ Weight(token) = 0
  BY ScannerAssumption, PlainToken
<1> HIDE DEF g
<1>7. After(Produce(g, token))
  BY <1>5, <1>6, ProducedAfter
<1> QED BY <1>1, <1>7 DEF e, f, g

LEMMA FlowEntryAfter ==
    ASSUME Inv, FetchFlowEntry
    PROVE  \E d : After(d) /\ Step(d)
<1>1. PICK c \in AtToken :
         ~KeyOwed(c) /\ Step(Produce(Allow(RemoveSimpleKey(c), TRUE), "FLOW-ENTRY"))
  BY DEF FetchFlowEntry
<1>2. Before(c)
  BY AtTokenGood DEF FetchFlowEntry
<1> DEFINE e == RemoveSimpleKey(c)
           f == Allow(e, TRUE)
<1>3. Before(e)
  BY <1>1, <1>2, BeforeRemoved
<1> HIDE DEF e
<1>4. Before(f)
  BY <1>3, BeforeAllowed
<1>5. /\ "FLOW-ENTRY" \in Token /\ "FLOW-ENTRY" \notin Boundary
      /\ Weight("FLOW-ENTRY") = 0
  BY PlainToken
<1> HIDE DEF f
<1>6. After(Produce(f, "FLOW-ENTRY"))
  BY <1>4, <1>5, ProducedAfter
<1> QED BY <1>1, <1>6 DEF e, f

(* A block collection is opened in front of the token.                     *)
LEMMA BeforeRolled ==
    ASSUME NEW c, Before(c), NEW token \in BlockStartToken
    PROVE  LET d == RollIndent(c, c.column, Len(c.tokens), token)
           IN  Before(d) /\ d.keys = c.keys /\ d.flow = c.flow
<1> DEFINE n == c.column
           l == Len(c.tokens)
           d == RollIndent(c, n, l, token)
<1>1. Good(c, 0, 0) /\ c \in Context /\ c.column <= MaxColumn
  BY DEF Before, Good
<1>2. n \in 0..MaxColumn /\ l \in 0..Len(c.tokens)
  <2>1. c.column \in 0..MaxColumn + 1 /\ c.tokens \in Seq(Token)
    BY <1>1, ContextFields
  <2> QED BY <1>1, <2>1, ScannerAssumption
<1> HIDE DEF n
<1>3. /\ Good(d, 0, 0) /\ d.keys = c.keys /\ d.column = c.column /\ d.flow = c.flow
      /\ NoBoundary(c) => NoBoundary(d)
      /\ \A o : Balanced(c, o) => Balanced(d, o)
  BY <1>1, <1>2, RollGood
<1> HIDE DEF d
<1>4. Before(d)
  BY <1>3 DEF Before, Owes
<1> QED BY <1>3, <1>4 DEF d, n

LEMMA BlockEntryAfter ==
    ASSUME Inv, FetchBlockEntry
    PROVE  \E d : After(d) /\ Step(d)
<1> DEFINE rolled(c) == RollIndent(c, c.column, Len(c.tokens), "BLOCK-SEQUENCE-START")
<1>1. PICK c \in AtToken :
         ~KeyOwed(c) /\ Step(Produce(Allow(RemoveSimpleKey(rolled(c)), TRUE), "BLOCK-ENTRY"))
  BY DEF FetchBlockEntry
<1>2. Before(c)
  BY AtTokenGood DEF FetchBlockEntry
<1>3. /\ "BLOCK-ENTRY" \in Token /\ "BLOCK-ENTRY" \notin Boundary /\ Weight("BLOCK-ENTRY") = 0
      /\ "BLOCK-SEQUENCE-START" \in BlockStartToken
  BY PlainToken DEF BlockStartToken
<1> DEFINE e == rolled(c)
           f == RemoveSimpleKey(e)
           g == Allow(f, TRUE)
<1>4. Before(e) /\ e.keys = c.keys
  BY <1>2, <1>3, BeforeRolled
<1>5. Step(Produce(g, "BLOCK-ENTRY"))
  BY <1>1
<1> HIDE DEF e
<1>6. Before(f)
  BY <1>1, <1>4, BeforeRemoved DEF KeyOwed
<1> HIDE DEF f
<1>7. Before(g)
  BY <1>6, BeforeAllowed
<1> HIDE DEF g
<1>8. After(Produce(g, "BLOCK-ENTRY"))
  BY <1>3, <1>7, ProducedAfter
<1> QED BY <1>5, <1>8

LEMMA KeyAfter ==
    ASSUME Inv, FetchKey
    PROVE  \E d : After(d) /\ Step(d)
<1> DEFINE rolled(c) == RollIndent(c, c.column, Len(c.tokens), "BLOCK-MAPPING-START")
<1>1. PICK c \in AtToken :
         ~KeyOwed(c) /\ Step(Produce(Allow(RemoveSimpleKey(rolled(c)), c.flow = 0), "KEY"))
  BY DEF FetchKey
<1>2. Before(c)
  BY AtTokenGood DEF FetchKey
<1>3. /\ "KEY" \in Token /\ "KEY" \notin Boundary /\ Weight("KEY") = 0
      /\ "BLOCK-MAPPING-START" \in BlockStartToken
  BY PlainToken DEF BlockStartToken
<1> DEFINE e == rolled(c)
           f == RemoveSimpleKey(e)
           b == (c.flow = 0)
           g == Allow(f, b)
<1>4. Before(e) /\ e.keys = c.keys
  BY <1>2, <1>3, BeforeRolled
<1>5. Step(Produce(g, "KEY")) /\ b \in BOOLEAN
  BY <1>1
<1> HIDE DEF e
<1>6. Before(f)
  BY <1>1, <1>4, BeforeRemoved DEF KeyOwed
<1> HIDE DEF f, b
<1>7. Before(g)
  BY <1>5, <1>6, BeforeAllowed
<1> HIDE DEF g
<1>8. After(Produce(g, "KEY"))
  BY <1>3, <1>7, ProducedAfter
<1> QED BY <1>5, <1>8

(* The one fetcher that may take a required key away, and that is a VALUE. *)
LEMMA ValueAfter ==
    ASSUME Inv, FetchValue
    PROVE  \E d : After(d) /\ Step(d)
<1> DEFINE rolled(c) == RollIndent(c, c.column, Len(c.tokens), "BLOCK-MAPPING-START")
<1>1. PICK c \in AtToken :
         \/ Last(c.keys).possible /\ Step(Produce(InsertKey(c), "VALUE"))
         \/ Step(Produce(Allow(rolled(c), c.flow = 0), "VALUE"))
  BY DEF FetchValue
<1>2. Before(c)
  BY AtTokenGood DEF FetchValue
<1>3. /\ "VALUE" \in Token /\ "VALUE" \notin Boundary /\ Weight("VALUE") = 0
      /\ "BLOCK-MAPPING-START" \in BlockStartToken
  BY PlainToken DEF BlockStartToken
<1>4. CASE Last(c.keys).possible /\ Step(Produce(InsertKey(c), "VALUE"))
  <2> DEFINE e == InsertKey(c)
             d == Produce(e, "VALUE")
  <2>1. /\ Good(c, 0, 0) /\ NoBoundary(c) /\ c.column <= MaxColumn /\ 0 \in {0, 1}
        /\ Balanced(c, opened)
    BY <1>2 DEF Before
  <2>2. /\ Good(e, 0, 0) /\ e.column = c.column
        /\ NoBoundary(c) => NoBoundary(e)
        /\ \A o : Balanced(c, o) => Balanced(e, o)
    BY <1>4, <2>1, InsertKeyGood
  <2> HIDE DEF e
  <2>3. /\ Good(d, 0, 0) /\ Last(d.tokens) = "VALUE"
        /\ NoBoundary(e) /\ "VALUE" \notin Boundary => NoBoundary(d)
        /\ \A o : Balanced(e, o) => Balanced(d, o)
    BY <1>3, <2>1, <2>2, ProduceGood
  <2> HIDE DEF d
  <2>4. After(d)
    <3>1. Balanced(d, opened)
      BY <2>1, <2>2, <2>3
    <3>2. NoBoundary(d)
      BY <1>3, <2>1, <2>2, <2>3
    <3>3. EndsWell(d)
      BY <3>2 DEF EndsWell, NoBoundary
    <3> QED BY <2>3, <3>1, <3>3 DEF After
  <2> QED BY <1>4, <2>4 DEF d, e
<1>5. CASE Step(Produce(Allow(rolled(c), c.flow = 0), "VALUE"))
  <2> DEFINE e == rolled(c)
             b == (c.flow = 0)
             f == Allow(e, b)
  <2>1. Before(e)
    BY <1>2, <1>3, BeforeRolled
  <2>2. Step(Produce(f, "VALUE")) /\ b \in BOOLEAN
    BY <1>5
  <2> HIDE DEF e, b
  <2>3. Before(f)
    BY <2>1, <2>2, BeforeAllowed
  <2> HIDE DEF f
  <2>4. After(Produce(f, "VALUE"))
    BY <1>3, <2>3, ProducedAfter
  <2> QED BY <2>2, <2>4
<1> QED BY <1>1, <1>4, <1>5

LEMMA PropertyAfter ==
    ASSUME Inv, NEW token \in Property, FetchProperty(token)
    PROVE  \E d : After(d) /\ Step(d)
<1>1. PICK c \in AtToken : CanSave(c) /\ Step(Produce(Allow(SaveSimpleKey(c), FALSE), token))
  BY DEF FetchProperty
<1>2. Before(c)
  BY AtTokenGood DEF FetchProperty
<1> DEFINE e == SaveSimpleKey(c)
           f == Allow(e, FALSE)
<1>3. Saved(e)
  BY <1>1, <1>2, BeforeSaved
<1> HIDE DEF e
<1>4. Saved(f)
  BY <1>3, SavedAllowed
<1>5. token \in Token /\ token \notin Boundary /\ Weight(token) = 0
  BY ScannerAssumption, PlainToken
<1> HIDE DEF f
<1>6. After(Produce(f, token))
  BY <1>4, <1>5, ProducedAfter
<1> QED BY <1>1, <1>6 DEF e, f

LEMMA BlockScalarAfter ==
    ASSUME Inv, FetchBlockScalar
    PROVE  \E d : After(d) /\ Step(d)
<1>1. PICK c \in AtToken :
         /\ ~KeyOwed(c)
         /\ Step(NextLine(Enqueue(Allow(RemoveSimpleKey(c), TRUE), "SCALAR"), 0))
  BY DEF FetchBlockScalar
<1>2. Before(c)
  BY AtTokenGood DEF FetchBlockScalar
<1> DEFINE e == RemoveSimpleKey(c)
           f == Allow(e, TRUE)
<1>3. Before(e)
  BY <1>1, <1>2, BeforeRemoved
<1> HIDE DEF e
<1>4. Before(f)
  BY <1>3, BeforeAllowed
<1>5. /\ "SCALAR" \in Token /\ "SCALAR" \notin Boundary /\ Weight("SCALAR") = 0
      /\ 0 \in 0..MaxColumn + 1
  BY PlainToken, ScannerAssumption
<1> HIDE DEF f
<1>6. After(NextLine(Enqueue(f, "SCALAR"), 0))
  BY <1>4, <1>5, NextLineAfter
<1> QED BY <1>1, <1>6 DEF e, f

LEMMA FlowScalarAfter ==
    ASSUME Inv, FetchFlowScalar
    PROVE  \E d : After(d) /\ Step(d)
<1> DEFINE saved(c) == Allow(SaveSimpleKey(c), FALSE)
<1>1. PICK c \in AtToken :
         /\ CanSave(c)
         /\ \/ Step(Produce(saved(c), "SCALAR"))
            \/ Step(NextLine(Enqueue(saved(c), "SCALAR"), 1))
  BY DEF FetchFlowScalar
<1>2. Before(c)
  BY AtTokenGood DEF FetchFlowScalar
<1> DEFINE e == SaveSimpleKey(c)
           f == saved(c)
<1>3. Saved(e)
  BY <1>1, <1>2, BeforeSaved
<1>4. f = Allow(e, FALSE)
  OBVIOUS
<1> HIDE DEF e, f
<1>5. Saved(f)
  BY <1>3, <1>4, SavedAllowed
<1>6. /\ "SCALAR" \in Token /\ "SCALAR" \notin Boundary /\ Weight("SCALAR") = 0
      /\ 1 \in 0..MaxColumn + 1
  BY PlainToken, ScannerAssumption
<1>7. After(Produce(f, "SCALAR"))
  BY <1>5, <1>6, ProducedAfter
<1>8. After(NextLine(Enqueue(f, "SCALAR"), 1))
  BY <1>5, <1>6, NextLineAfter
<1> QED BY <1>1, <1>7, <1>8 DEF f

LEMMA PlainScalarAfter ==
    ASSUME Inv, FetchPlainScalar
    PROVE  \E d : After(d) /\ Step(d)
<1> DEFINE saved(c) == Enqueue(Allow(SaveSimpleKey(c), FALSE), "SCALAR")
           inside(c) == IF c.flow > 0 THEN 1 ELSE c.indent + 2
<1>1. PICK c \in AtToken :
         /\ CanSave(c)
         /\ \/ Step([saved(c) EXCEPT !.column = @ + 1])
            \/ inside(c) <= MaxColumn + 1 /\ Step(NextLine(saved(c), inside(c)))
            \/ Step(Allow(NextLine(saved(c), 0), TRUE))
  BY DEF FetchPlainScalar
<1>2. Before(c)
  BY AtTokenGood DEF FetchPlainScalar
<1> DEFINE e == SaveSimpleKey(c)
           f == Allow(e, FALSE)
           s == Enqueue(f, "SCALAR")
           o == inside(c)
<1>3. Saved(e)
  BY <1>1, <1>2, BeforeSaved
<1>4. c.indent \in -1..MaxColumn
  BY <1>2, ContextFields DEF Before, Good
<1>5. o \in Nat
  BY <1>4, ScannerAssumption
<1> HIDE DEF o
<1>13. Produce(f, "SCALAR") = [s EXCEPT !.column = @ + 1]
  BY DEF Produce
<1>12. \/ Step(Produce(f, "SCALAR"))
       \/ o <= MaxColumn + 1 /\ Step(NextLine(s, o))
       \/ Step(Allow(NextLine(s, 0), TRUE))
  BY <1>1, <1>13 DEF o
<1> HIDE DEF e
<1>6. Saved(f)
  BY <1>3, SavedAllowed
<1> HIDE DEF f
<1>7. /\ "SCALAR" \in Token /\ "SCALAR" \notin Boundary /\ Weight("SCALAR") = 0
      /\ 0 \in 0..MaxColumn + 1
  BY PlainToken, ScannerAssumption
<1>8. CASE Step(Produce(f, "SCALAR"))
  <2>1. After(Produce(f, "SCALAR"))
    BY <1>6, <1>7, ProducedAfter
  <2> QED BY <1>8, <2>1
<1>9. CASE o <= MaxColumn + 1 /\ Step(NextLine(s, o))
  <2>1. o \in 0..MaxColumn + 1
    BY <1>5, <1>9, ScannerAssumption
  <2>2. After(NextLine(s, o))
    BY <1>6, <1>7, <2>1, NextLineAfter
  <2> QED BY <1>9, <2>2
<1>10. CASE Step(Allow(NextLine(s, 0), TRUE))
  <2> DEFINE x == NextLine(s, 0)
             y == Allow(x, TRUE)
  <2>1. After(x)
    BY <1>6, <1>7, NextLineAfter
  <2> HIDE DEF x
  <2>2. Good(x, 0, 0) /\ 0 \in {0, 1}
    BY <2>1 DEF After
  <2>3. /\ Good(y, 0, 0) /\ y.tokens = x.tokens /\ y.keys = x.keys
        /\ y.flow = x.flow /\ y.indents = x.indents
    BY <2>2, AllowGood
  <2> HIDE DEF y
  <2>4. After(y)
    BY <2>1, <2>3 DEF After, EndsWell, NoBoundary, Clears, NoneWaits, Owes, Balanced
  <2> QED BY <1>10, <2>4 DEF x, y
<1> QED BY <1>8, <1>9, <1>10, <1>12

-----------------------------------------------------------------------------
(***************************************************************************)
(* Every step.                                                             *)
(***************************************************************************)
LEMMA HereFieldsNext ==
    /\ Here'.tokens = tokens' /\ Here'.column = column' /\ Here'.keys = simpleKeys'
    /\ Here'.allowed = simpleKeyAllowed' /\ Here'.indent = indent' /\ Here'.indents = indents'
    /\ Here'.flow = flowLevel'
BY DEF Here

(* What leaves the context alone. *)
LEMMA SameInv ==
    ASSUME Inv, UNCHANGED <<context, tokenAvailable, streamEndProduced, opened>>,
           error' \in {"none", "scanner", "assertion"}
    PROVE  Inv' /\ (OwesKey => OwesKey')
<1>1. /\ tokens' = tokens /\ column' = column /\ simpleKeys' = simpleKeys
      /\ simpleKeyAllowed' = simpleKeyAllowed /\ indent' = indent /\ indents' = indents
      /\ flowLevel' = flowLevel /\ tokenAvailable' = tokenAvailable
      /\ streamEndProduced' = streamEndProduced /\ opened' = opened
  BY DEF context
<1>2. Here' = Here
  BY <1>1 DEF Here
<1>3. Good(Here, 0, 0)' = Good(Here, 0, 0) /\ EndsWell(Here)' = EndsWell(Here)
  BY <1>2 DEF Good, EndsWell, NoBoundary, Clears, NoneWaits
<1>7. Balanced(Here, opened)' = Balanced(Here, opened)
  BY <1>1, <1>2 DEF Balanced
<1>4. TypeOK'
  BY <1>1 DEF Inv, TypeOK
<1>5. Started' = Started /\ NotStarted' = NotStarted
  BY <1>1 DEF Started, NotStarted
<1>6. Inv'
  BY <1>1, <1>3, <1>4, <1>5, <1>7 DEF Inv
<1> QED BY <1>1, <1>6 DEF OwesKey, Started

LEMMA FailInv ==
    ASSUME Inv, NEW kind \in {"scanner", "assertion"}, Fail(kind)
    PROVE  Inv' /\ (OwesKey => OwesKey')
BY SameInv DEF Fail

LEMMA FetchInv ==
    ASSUME Inv, FetchNextToken
    PROVE  /\ Inv'
           /\ OwesKey /\ ~OwesKey' /\ error' = "none" => Last(tokens') = "VALUE"
<1>1. CASE \E d : After(d) /\ Step(d)
  <2>1. Running
    BY DEF FetchNextToken, FetchStreamStart, FetchStreamEnd, FetchDirective,
           FetchDocumentIndicator, FetchFlowCollectionStart, FetchFlowCollectionEnd,
           FetchFlowEntry, FetchBlockEntry, FetchKey, FetchValue, FetchProperty,
           FetchBlockScalar, FetchFlowScalar, FetchPlainScalar, FetchNextFails, FetchAborts,
           Fetching
  <2> QED BY <1>1, <2>1, StepGood
<1>2. CASE FetchNextFails \/ FetchAborts
  <2>1. \/ Fail("scanner")
        \/ Fail("assertion")
    BY <1>2 DEF FetchNextFails, FetchAborts
  <2> QED BY <2>1, FailInv
<1> QED BY <1>1, <1>2, StreamStartAfter, StreamEndAfter, DirectiveAfter,
           DocumentIndicatorAfter, FlowStartAfter, FlowEndAfter, FlowEntryAfter,
           BlockEntryAfter, KeyAfter, ValueAfter, PropertyAfter, BlockScalarAfter,
           FlowScalarAfter, PlainScalarAfter DEF FetchNextToken

(* A token is handed over when no key may still need one in front of it.   *)
LEMMA AvailableInv ==
    ASSUME Inv, TokenBecomesAvailable
    PROVE  Inv' /\ (OwesKey => OwesKey')
<1>1. /\ Running /\ ~MissesKey /\ ~NeedMoreTokens /\ Become(Checked) /\ tokenAvailable' = TRUE
  BY DEF TokenBecomesAvailable
<1>2. tokens # <<>>
  BY <1>1 DEF NeedMoreTokens
<1>3. Started
  BY <1>2 DEF Inv, NotStarted
<1>4. /\ TypeOK /\ EndsWell(Here) /\ Balanced(Here, opened)
      /\ Here.tokens = tokens /\ Here.indents = indents /\ Here.flow = flowLevel
  BY <1>3, HereFields DEF Inv
<1>5. /\ Good(Checked, 0, 0) /\ Checked.tokens = tokens
      /\ Checked.indents = indents /\ Checked.flow = flowLevel
      /\ Owes(Here) => Owes(Checked)
      /\ NoneWaits(Here) /\ tokens # <<>> =>
            \A i \in DOMAIN Checked.keys : ~Checked.keys[i].possible
  BY <1>1, <1>3, CheckedGood
<1> DEFINE d == Checked
<1>7. EndsWell(d)
  BY <1>2, <1>4, <1>5 DEF EndsWell, NoBoundary, Clears, NoneWaits
<1>6. Balanced(d, opened)
  BY <1>4, <1>5 DEF Balanced
<1>9. \A i \in DOMAIN d.keys : d.keys[i].possible => d.keys[i].at # 0
  BY <1>1 DEF NeedMoreTokens
<1> SUFFICES ASSUME NEW c, c = d PROVE Inv' /\ (OwesKey => OwesKey')
  OBVIOUS
<1>10. /\ Good(c, 0, 0) /\ EndsWell(c) /\ Balanced(c, opened)
       /\ (Owes(Here) => Owes(c)) /\ c.tokens # <<>>
       /\ \A i \in DOMAIN c.keys : c.keys[i].possible => c.keys[i].at # 0
  BY <1>2, <1>5, <1>6, <1>7, <1>9
<1>11. Become(c) /\ ~streamEndProduced /\ tokenAvailable' = TRUE
  BY <1>1 DEF Running
<1> HIDE DEF d
<1>12. Inv' /\ Started'
  BY <1>10, <1>11, BecomeInv
<1>13. OwesKey => OwesKey'
  BY <1>10, <1>11, <1>12, HereFields DEF OwesKey, Owes, Become
<1> QED BY <1>12, <1>13

(* The parser takes the head of the queue, and every key moves up.         *)
LEMMA TakeInv ==
    ASSUME Inv, TakeToken
    PROVE  Inv' /\ (OwesKey => OwesKey')
<1>1. /\ TypeOK /\ tokenAvailable /\ tokens # <<>>
      /\ \A i \in DOMAIN simpleKeys : simpleKeys[i].possible => simpleKeys[i].at # 0
  BY DEF Inv, TakeToken
<1>2. /\ tokens' = Tail(tokens) /\ tokenAvailable' = FALSE
      /\ streamEndProduced' = (Head(tokens) = "STREAM-END")
      /\ simpleKeys' = [i \in DOMAIN simpleKeys |-> Nearer(simpleKeys[i])]
      /\ UNCHANGED <<column, simpleKeyAllowed, indent, indents, flowLevel, error>>
  BY DEF TakeToken
<1>3. Started /\ Good(Here, 0, 0) /\ EndsWell(Here)
  BY <1>1 DEF Inv, NotStarted
<1>4. /\ Here \in Context /\ Len(simpleKeys) = flowLevel + 1 /\ GoodLevels(indents, indent)
      /\ GoodKeys(simpleKeys, Len(tokens) + 0, column + 0)
  BY <1>3, HereFields DEF Good
<1>5. tokens \in Seq(Token) /\ simpleKeys \in Seq(SimpleKey) /\ column \in Int
  BY <1>1 DEF TypeOK
<1>6. /\ Tail(tokens) \in Seq(Token) /\ Len(Tail(tokens)) = Len(tokens) - 1
      /\ Head(tokens) = tokens[1] /\ Len(tokens) \in Nat /\ Len(tokens) >= 1
      /\ \A i \in 1..Len(tokens) - 1 : Tail(tokens)[i] = tokens[i + 1]
  BY <1>1, <1>5
<1>7. DOMAIN simpleKeys = 1..Len(simpleKeys) /\ DOMAIN tokens = 1..Len(tokens)
      /\ \A i \in 1..Len(simpleKeys) : simpleKeys[i] \in SimpleKey
  BY <1>5
<1>8. /\ simpleKeys' \in Seq(SimpleKey) /\ Len(simpleKeys') = Len(simpleKeys)
      /\ DOMAIN simpleKeys' = 1..Len(simpleKeys)
      /\ \A i \in 1..Len(simpleKeys) :
            /\ simpleKeys'[i].possible = simpleKeys[i].possible
            /\ simpleKeys'[i].required = simpleKeys[i].required
            /\ simpleKeys'[i].column = simpleKeys[i].column
            /\ simpleKeys'[i].oldLine = simpleKeys[i].oldLine
            /\ simpleKeys[i].possible => simpleKeys'[i].at = simpleKeys[i].at - 1
  <2>1. \A i \in 1..Len(simpleKeys) : simpleKeys'[i] = Nearer(simpleKeys[i])
    BY <1>2, <1>7
  <2>2. \A i \in 1..Len(simpleKeys) : Nearer(simpleKeys[i]) \in SimpleKey
    BY <1>7, KeyFields
  <2>3. /\ simpleKeys' \in Seq(SimpleKey) /\ Len(simpleKeys') = Len(simpleKeys)
        /\ DOMAIN simpleKeys' = 1..Len(simpleKeys)
    BY <1>2, <1>5, <1>7, <2>2
  <2> QED BY <1>7, <2>1, <2>3, KeyFields
<1>9. TypeOK'
  <2>1. opened' \in Int
    BY <1>1, WeightTyped DEF TypeOK, TakeToken
  <2> QED BY <1>1, <1>2, <1>6, <1>8, <2>1 DEF TypeOK
<1>10. Started'
  <2>1. Len(simpleKeys) >= 1
    BY <1>1, <1>4 DEF TypeOK
  <2> QED BY <1>8, <2>1 DEF Started
<1>11. GoodKeys(simpleKeys', Len(tokens') + 0, column' + 0)
  <2> DEFINE l == Len(tokens') + 0
             o == column' + 0
             k == Len(tokens) + 0
             n == column + 0
  <2>1. l = k - 1 /\ l \in Int /\ k \in Int /\ o = n
    BY <1>2, <1>5, <1>6
  <2>2. GoodKeys(simpleKeys, k, n)
    BY <1>4
  <2> HIDE DEF l, o, k, n
  <2>3. ASSUME NEW i \in 1..Len(simpleKeys), simpleKeys'[i].possible
        PROVE  /\ simpleKeys'[i].at \in 0..l - 1
               /\ simpleKeys'[i].column <= MaxColumn
               /\ simpleKeys'[i].oldLine \/ simpleKeys'[i].column < o
    <3>1. simpleKeys[i].possible /\ simpleKeys'[i].at = simpleKeys[i].at - 1
      BY <1>8, <2>3
    <3>2. /\ simpleKeys[i].at \in 0..k - 1 /\ simpleKeys[i].column <= MaxColumn
          /\ simpleKeys[i].oldLine \/ simpleKeys[i].column < n
          /\ simpleKeys[i].at # 0
      BY <1>1, <1>7, <2>2, <3>1 DEF GoodKeys
    <3> QED BY <1>8, <2>1, <3>1, <3>2
  <2>4. ASSUME NEW i \in 1..Len(simpleKeys), NEW j \in 1..Len(simpleKeys), i < j,
               simpleKeys'[i].possible, simpleKeys'[j].possible
        PROVE  simpleKeys'[i].at < simpleKeys'[j].at
    <3>1. /\ simpleKeys[i].possible /\ simpleKeys[j].possible
          /\ simpleKeys'[i].at = simpleKeys[i].at - 1
          /\ simpleKeys'[j].at = simpleKeys[j].at - 1
      BY <1>8, <2>4
    <3>2. simpleKeys[i].at < simpleKeys[j].at
      BY <1>7, <2>2, <2>4, <3>1 DEF GoodKeys
    <3>3. simpleKeys[i].at \in Int /\ simpleKeys[j].at \in Int
      BY <1>7, KeyFields
    <3> QED BY <3>1, <3>2, <3>3
  <2>5. GoodKeys(simpleKeys', l, o)
    BY <1>8, <2>3, <2>4 DEF GoodKeys
  <2> QED BY <2>5 DEF l, o
<1>12. Here' \in Context
  BY <1>9 DEF TypeOK, Here, Context
<1>13. Good(Here, 0, 0)'
  BY <1>2, <1>4, <1>8, <1>11, <1>12, HereFields, HereFieldsNext DEF Good
<1>14. EndsWell(Here)' /\ (streamEndProduced' => tokens' = <<>>)
  <2>1. \A i \in DOMAIN tokens' : i + 1 \in DOMAIN tokens /\ tokens'[i] = tokens[i + 1]
        /\ i \in 1..Len(tokens) - 1
    BY <1>2, <1>6, <1>7
  <2>2. \A i \in DOMAIN tokens : tokens[i] \in Boundary => i = Len(tokens)
    BY <1>3, HereFields DEF EndsWell
  <2>3. \A i \in DOMAIN tokens' : tokens'[i] \in Boundary => i = Len(tokens')
    BY <1>2, <1>6, <2>1, <2>2
  <2>4. \/ \A i \in DOMAIN tokens' : tokens'[i] \notin Boundary
        \/ /\ \A i \in DOMAIN simpleKeys' : simpleKeys'[i].possible => simpleKeys'[i].oldLine
           /\ flowLevel' = 0 => indents' = <<>>
    <3>1. CASE NoBoundary(Here)
      BY <2>1, <3>1, HereFields DEF NoBoundary
    <3>2. CASE Clears(Here)
      <4>1. \A i \in 1..Len(simpleKeys) : simpleKeys[i].possible => simpleKeys[i].oldLine
        BY <1>7, <3>2, HereFields DEF Clears, NoneWaits
      <4>2. \A i \in DOMAIN simpleKeys' : simpleKeys'[i].possible => simpleKeys'[i].oldLine
        BY <1>8, <4>1
      <4>3. flowLevel' = 0 => indents' = <<>>
        BY <1>2, <3>2, HereFields DEF Clears
      <4> QED BY <4>2, <4>3
    <3> QED BY <1>3, <3>1, <3>2 DEF EndsWell
  <2>5. ASSUME Head(tokens) = "STREAM-END" PROVE Tail(tokens) = <<>>
    <3>1. Len(tokens) = 1
      BY <1>6, <1>7, <2>2, <2>5 DEF Boundary
    <3>2. ASSUME NEW s \in Seq(Token), Len(s) = 0 PROVE s = <<>>
      BY <3>2
    <3>3. Len(Tail(tokens)) = 0
      BY <1>6, <3>1
    <3> QED BY <1>6, <3>2, <3>3
  <2>6. EndsWell(Here)'
    BY <2>3, <2>4, HereFieldsNext DEF EndsWell, NoBoundary, Clears, NoneWaits
  <2> QED BY <1>2, <2>5, <2>6
<1>17. Balanced(Here, opened)'
  <2>1. Walks(tokens, opened, Len(indents))
    BY HereFields DEF Inv, Balanced
  <2>2. Walks(Tail(tokens), opened + Weight(Head(tokens)), Len(indents))
    BY <1>1, <1>5, <2>1, WalksTail
  <2>3. opened' = opened + Weight(Head(tokens))
    BY DEF TakeToken
  <2> QED BY <1>2, <2>2, <2>3, HereFieldsNext DEF Balanced
<1>15. Inv'
  BY <1>2, <1>9, <1>10, <1>13, <1>14, <1>17 DEF Inv
<1>16. OwesKey => OwesKey'
  <2>1. 1 \in 1..Len(simpleKeys)
    BY <1>1, <1>4 DEF TypeOK
  <2> QED BY <1>8, <1>10, <2>1 DEF OwesKey
<1> QED BY <1>15, <1>16

LEMMA NextInv ==
    ASSUME Inv, [Next]_vars
    PROVE  /\ Inv'
           /\ OwesKey /\ ~OwesKey' /\ error' = "none" => Last(tokens') = "VALUE"
<1>1. CASE FetchNextToken
  BY <1>1, FetchInv
<1>2. CASE FetchMissesKey
  BY <1>2, FailInv DEF FetchMissesKey
<1>3. CASE TokenBecomesAvailable
  BY <1>3, AvailableInv
<1>4. CASE TakeToken
  BY <1>4, TakeInv
<1>5. CASE Stopped \/ UNCHANGED vars
  <2>1. UNCHANGED <<context, tokenAvailable, streamEndProduced, opened>> /\ error' = error
    BY <1>5 DEF Stopped, vars
  <2>2. error \in {"none", "scanner", "assertion"}
    BY DEF Inv, TypeOK
  <2> QED BY <2>1, <2>2, SameInv
<1> QED BY <1>1, <1>2, <1>3, <1>4, <1>5 DEF Next

(***************************************************************************)
(* The theorems.                                                           *)
(***************************************************************************)

(* In every reachable state the context is good, and a token is handed to  *)
(* the parser only when no simple key is waiting at it.                    *)
THEOREM ScannerInvariantHolds == Spec => []Inv
<1>1. Init => Inv
  BY InitInv
<1>2. Inv /\ [Next]_vars => Inv'
  BY NextInv
<1> QED BY <1>1, <1>2, PTL DEF Spec

(* Types: the columns, levels and flow levels stay in their bounds.        *)
THEOREM ScannerTypeCorrect == Spec => []TypeOK
<1>1. Inv => TypeOK
  BY InvImplies
<1> QED BY <1>1, ScannerInvariantHolds, PTL

(* POP never meets an empty stack: there is a simple key for each flow     *)
(* level and one more, and the levels of indentation grow from -1.         *)
THEOREM StacksNeverEmpty == Spec => []StacksMatchLevels
<1>1. Inv => StacksMatchLevels
  BY InvImplies
<1> QED BY <1>1, ScannerInvariantHolds, PTL

(* yaml_parser_fetch_more_tokens hands no token over that a KEY may still  *)
(* have to be inserted in front of.                                        *)
THEOREM KeysStayInQueue == Spec => []KeysPointIntoQueue
<1>1. Inv => KeysPointIntoQueue
  BY InvImplies
<1> QED BY <1>1, ScannerInvariantHolds, PTL

(* STREAM-END comes once, and nothing comes after it.                      *)
THEOREM StreamEndIsLast == Spec => []StreamEndsOnce
<1>1. Inv => StreamEndsOnce
  BY InvImplies
<1> QED BY <1>1, ScannerInvariantHolds, PTL

(* yaml_parser_roll_indent and yaml_parser_unroll_indent: every BLOCK-END  *)
(* closes a block collection that is open, wherever its start was inserted *)
(* in the queue, and outside flow collections none reaches across the      *)
(* tokens around documents.                                                *)
THEOREM CollectionsBalance == Spec => []BlockCollectionsBalance
<1>1. Inv => BlockCollectionsBalance
  BY InvImplies
<1> QED BY <1>1, ScannerInvariantHolds, PTL

(* yaml_parser_stale_simple_keys and yaml_parser_remove_simple_key do not  *)
(* let a required key go without an error: it takes a VALUE.               *)
THEOREM RequiredKeysAreKept == Spec => RequiredKeysGetValues
<1>1. Inv /\ [Next]_vars =>
         [OwesKey /\ ~OwesKey' /\ error' = "none" => Last(tokens') = "VALUE"]_vars
  BY NextInv
<1> QED BY <1>1, ScannerInvariantHolds, PTL DEF Spec, RequiredKeysGetValues

=============================================================================
