--------------------------- MODULE RequestProofs ---------------------------
(***************************************************************************)
(* What holds of every request: the proofs about the life of a gRPC call,  *)
(* of a WebSocket message and of an HTTP request.  The HTTP part first     *)
(* proves the router (the trie that the insertion of every template builds,*)
(* and the walk of a path through it), then the operations that are loaded *)
(* from an OpenAPI document, then the stages of the handler.               *)
(***************************************************************************)
EXTENDS GrpcCall, AsyncMessage, HttpHandler, OpenApiDocument, LeastElement, FiniteSetTheorems

-----------------------------------------------------------------------------
(* The generation of messages: Generate counts depth upwards to its limit, *)
(* so the recursion ends where the depth is largest.                       *)

\* What can come out for a message.
Made == [ok : BOOLEAN, paths : SUBSET Seq(Nat)]
MadeAll == [DOMAIN Messages -> Made]

LEMMA FieldsAre ==
  ASSUME NEW name \in DOMAIN Messages
  PROVE  /\ Len(Messages[name]) \in Nat /\ DOMAIN Messages[name] = 1..Len(Messages[name])
         /\ \A i \in DOMAIN Messages[name] : Messages[name][i].number \in Nat
         /\ \A i, j \in DOMAIN Messages[name] :
               Messages[name][i].number = Messages[name][j].number => i = j
<1> DEFINE F == [number : Nat, label : STRING, oneof : STRING, kind : STRING]
<1>1. Messages[name] \in Seq(F)
  BY MessagesAssumption
<1>2. \A i \in DOMAIN Messages[name] : Messages[name][i] \in F
  <2> HIDE DEF F
  <2> QED
    BY <1>1
<1>3. \A i \in DOMAIN Messages[name] : Messages[name][i].number \in Nat
  BY <1>2
<1> QED
  BY <1>1, <1>3, MessagesAssumption

\* The fields that are set, those that hold a message, and the paths there are.
SetIn(name) == {i \in DOMAIN Messages[name] : Sets(Messages[name], i)}
NestedIn(name) ==
  {i \in SetIn(name) : Messages[name][i].label # "map" /\ Messages[name][i].kind \in DOMAIN Messages}
ShortPaths(name) == {<<Messages[name][i].number>> : i \in SetIn(name)}
LongPaths(deeper, name) ==
  UNION {{<<Messages[name][i].number>> \o p : p \in deeper[Messages[name][i].kind].paths} : i \in NestedIn(name)}

NotMade == [ok |-> FALSE, paths |-> {}]
Full(deeper, name) == [ok |-> TRUE, paths |-> ShortPaths(name) \cup LongPaths(deeper, name)]

\* Beyond the limit there is no message, whatever is said of the messages inside.
LEMMA BeyondTheLimit ==
  ASSUME NEW depth \in Nat, depth > DepthLimit, NEW deeper, NEW name
  PROVE  MakeMessage(depth, deeper, name) = NotMade
BY Zenon DEF MakeMessage, NotMade

\* A message comes out only within the limit and if all those inside come out.
LEMMA MakeMessageIs ==
  ASSUME NEW depth \in Nat, NEW deeper, NEW name \in DOMAIN Messages
  PROVE  \/ MakeMessage(depth, deeper, name) = NotMade
         \/ /\ depth <= DepthLimit
            /\ \A i \in NestedIn(name) : deeper[Messages[name][i].kind].ok
            /\ MakeMessage(depth, deeper, name) = Full(deeper, name)
<1> DEFINE valued == {i \in SetIn(name) : Messages[name][i].label # "map"}
           inside == {i \in valued : Messages[name][i].kind \in DOMAIN Messages}
           broken == \/ \E i \in valued : Messages[name][i].kind = "emptyEnum"
                     \/ \E i \in inside : ~deeper[Messages[name][i].kind].ok
           full   == [ok |-> TRUE, paths |-> ShortPaths(name) \cup
                        UNION {{<<Messages[name][i].number>> \o p : p \in deeper[Messages[name][i].kind].paths} : i \in inside}]
<1>1. inside = NestedIn(name)
  BY DEF NestedIn
<1>2. MakeMessage(depth, deeper, name) = IF depth > DepthLimit \/ broken THEN NotMade ELSE full
  BY Zenon DEF MakeMessage, NotMade, ShortPaths, SetIn
<1>3. full = Full(deeper, name)
  <2> HIDE DEF inside
  <2> QED
    BY <1>1, Zenon DEF Full, LongPaths
<1>4. \/ depth > DepthLimit \/ broken
      \/ depth <= DepthLimit /\ \A i \in inside : deeper[Messages[name][i].kind].ok
  <2> HIDE DEF inside, valued
  <2> QED
    BY DepthAssumption
<1> HIDE DEF inside, broken, full
<1> QED
  BY <1>1, <1>2, <1>3, <1>4, Zenon

LEMMA MakeMessageType ==
  ASSUME NEW depth \in Nat, NEW deeper \in MadeAll, NEW name \in DOMAIN Messages
  PROVE  MakeMessage(depth, deeper, name) \in Made
<1>1. ShortPaths(name) \subseteq Seq(Nat)
  <2>1. \A i \in SetIn(name) : Messages[name][i].number \in Nat
    BY FieldsAre DEF SetIn
  <2>2. \A n \in Nat : <<n>> \in Seq(Nat)
    OBVIOUS
  <2> QED
    BY <2>1, <2>2, Zenon DEF ShortPaths
<1>2. ASSUME NEW q \in LongPaths(deeper, name) PROVE q \in Seq(Nat)
  <2>1. PICK i \in NestedIn(name) :
           q \in {<<Messages[name][i].number>> \o p : p \in deeper[Messages[name][i].kind].paths}
    BY Zenon DEF LongPaths
  <2>2. PICK p \in deeper[Messages[name][i].kind].paths : q = <<Messages[name][i].number>> \o p
    BY <2>1, Zenon
  <2>3. deeper[Messages[name][i].kind] \in Made
    BY DEF MadeAll, NestedIn
  <2>4. p \in Seq(Nat)
    BY <2>3 DEF Made
  <2>5. Messages[name][i].number \in Nat
    BY FieldsAre DEF NestedIn, SetIn
  <2>6. <<Messages[name][i].number>> \in Seq(Nat)
    BY <2>5
  <2> QED
    BY <2>2, <2>4, <2>6
<1>3. NotMade \in Made /\ Full(deeper, name) \in Made
  BY <1>1, <1>2 DEF Made, NotMade, Full
<1> QED
  BY <1>3, MakeMessageIs, Zenon

\* Generate has the values its definition gives it.
LEMMA GenerateIs ==
  /\ Generate = [d \in 0..DepthLimit + 1 |->
                    [name \in DOMAIN Messages |-> MakeMessage(d, Generate[d + 1], name)]]
  /\ \A d \in 0..DepthLimit + 1 : Generate[d] \in MadeAll
<1> DEFINE n    == DepthLimit + 1
           none == [name \in DOMAIN Messages |-> NotMade]
           next == [i \in 1..n |-> [f \in MadeAll |->
                      [name \in DOMAIN Messages |-> MakeMessage(n - i, f, name)]]]
<1>1. n \in Nat /\ \A i \in 1..n : n - i \in Nat
  BY DepthAssumption
<1>2. none \in MadeAll
  BY DEF MadeAll, Made, NotMade
<1>3. next \in [1..n -> [MadeAll -> MadeAll]]
  <2>1. \A i \in 1..n : \A f \in MadeAll : \A name \in DOMAIN Messages : MakeMessage(n - i, f, name) \in Made
    BY <1>1, MakeMessageType
  <2>2. \A i \in 1..n : \A f \in MadeAll : [name \in DOMAIN Messages |-> MakeMessage(n - i, f, name)] \in MadeAll
    BY <2>1 DEF MadeAll
  <2> HIDE DEF n
  <2> QED
    BY <2>2
<1>4. PICK F \in [0..n -> MadeAll] : Iterates(F, none, next, n)
  <2> HIDE DEF n, next, none
  <2> QED
    BY <1>1, <1>2, <1>3, IterationExists
<1> DEFINE Body(g, d) == [name \in DOMAIN Messages |-> MakeMessage(d, g[d + 1], name)]
           G == [d \in 0..n |-> F[n - d]]
<1>5. ASSUME NEW d \in 0..n PROVE G[d] = Body(G, d)
  <2>1. CASE d = n
    <3>1. G[d] = none
      BY <1>1, <1>4, <2>1 DEF Iterates
    <3>2. \A name \in DOMAIN Messages : MakeMessage(d, G[d + 1], name) = NotMade
      <4>1. d \in Nat /\ d > DepthLimit
        BY <1>1, <2>1, DepthAssumption
      <4> QED
        BY <4>1, BeyondTheLimit, Zenon
    <3> HIDE DEF G
    <3> QED
      BY <3>1, <3>2
  <2>2. CASE d # n
    <3>1. n - d \in 1..n /\ n - d # 0 /\ n - (n - d) = d /\ d + 1 \in 0..n /\ n - d - 1 = n - (d + 1) /\ n - d \in 0..n
      BY <1>1, <2>2
    <3>2. F[n - d] = next[n - d][F[n - d - 1]]
      BY <1>4, <3>1 DEF Iterates
    <3>3. F[n - d - 1] = G[d + 1] /\ G[d] = F[n - d] /\ G[d + 1] \in MadeAll
      <4>1. G[d + 1] = F[n - (d + 1)] /\ G[d] = F[n - d]
        BY <3>1
      <4>2. n - (d + 1) \in 0..n
        <5> HIDE DEF n
        <5> QED
          BY <1>1, <2>2
      <4>3. F[n - (d + 1)] \in MadeAll
        BY <1>4, <4>2
      <4> HIDE DEF G
      <4> QED
        BY <3>1, <4>1, <4>3
    <3> HIDE DEF G
    <3>4. next[n - d][G[d + 1]] = [name \in DOMAIN Messages |-> MakeMessage(n - (n - d), G[d + 1], name)]
      BY <3>1, <3>3
    <3> HIDE DEF next
    <3> QED
      BY <3>1, <3>2, <3>3, <3>4
  <2> QED
    BY <2>1, <2>2
<1>6. G = [d \in 0..n |-> Body(G, d)]
  <2>1. G = [d \in 0..n |-> G[d]]
    OBVIOUS
  <2> HIDE DEF G, Body
  <2> QED
    BY <1>5, <2>1, Zenon
<1>7. Generate = [d \in 0..DepthLimit + 1 |-> [name \in DOMAIN Messages |-> MakeMessage(d, Generate[d + 1], name)]]
  <2>1. \E g : g = [d \in 0..DepthLimit + 1 |-> [name \in DOMAIN Messages |-> MakeMessage(d, g[d + 1], name)]]
    <3> HIDE DEF G
    <3> QED
      BY <1>6, Zenon
  <2> QED
    BY <2>1, Zenon DEF Generate
<1>8. \A d \in 0..n : Generate[d] \in MadeAll
  <2> DEFINE H == [i \in 0..n |-> Generate[n - i]]
  <2>1. \A d \in 0..n : Generate[d] = [name \in DOMAIN Messages |-> MakeMessage(d, Generate[d + 1], name)]
    BY <1>7, Zenon
  <2>2. H[0] \in MadeAll
    <3>1. \A name \in DOMAIN Messages : MakeMessage(n, Generate[n + 1], name) = NotMade
      <4>1. n > DepthLimit
        BY DepthAssumption
      <4> QED
        BY <1>1, <4>1, BeyondTheLimit, Zenon
    <3>2. Generate[n] = none
      BY <1>1, <2>1, <3>1
    <3> QED
      BY <1>1, <1>2, <3>2
  <2>3. ASSUME NEW i \in 1..n, H[i - 1] \in MadeAll PROVE H[i] \in MadeAll
    <3>1. n - i \in 0..n /\ n - i + 1 = n - (i - 1) /\ n - i \in Nat /\ i - 1 \in 0..n
      BY <1>1
    <3>2. Generate[n - i + 1] \in MadeAll
      BY <2>3, <3>1
    <3>3. \A name \in DOMAIN Messages : MakeMessage(n - i, Generate[n - i + 1], name) \in Made
      BY <3>1, <3>2, MakeMessageType
    <3>4. Generate[n - i] \in MadeAll
      BY <2>1, <3>1, <3>3 DEF MadeAll
    <3> QED
      BY <3>1, <3>4
  <2>4. \A i \in 0..n : H[i] \in MadeAll
    <3> HIDE DEF H, n
    <3> QED
      BY <1>1, <2>2, <2>3, StaysIn
  <2>5. ASSUME NEW d \in 0..n PROVE Generate[d] \in MadeAll
    <3>1. n - d \in 0..n /\ n - (n - d) = d
      BY <1>1
    <3> QED
      BY <2>4, <3>1
  <2> QED
    BY <2>5
<1> QED
  BY <1>7, <1>8

-----------------------------------------------------------------------------
(* How deep messages nest *)

LEMMA NestingIs ==
  Nesting = [n \in 0..DepthLimit + 1 |->
               [name \in DOMAIN Messages |->
                  IF n = 0 THEN {name} ELSE UNION {Nesting[n - 1][kind] : kind \in Inside(name)}]]
<1> DEFINE m     == DepthLimit + 1
           Names == DOMAIN Messages
           S     == [Names -> SUBSET Names]
           self  == [name \in Names |-> {name}]
           deeper(f) == [name \in Names |-> UNION {f[kind] : kind \in Inside(name)}]
           next  == [i \in 1..m |-> [f \in S |-> deeper(f)]]
           Body(g, n) == [name \in Names |-> IF n = 0 THEN {name} ELSE UNION {g[n - 1][kind] : kind \in Inside(name)}]
<1>1. m \in Nat
  BY DepthAssumption
<1>2. self \in S
  OBVIOUS
<1>3. next \in [1..m -> [S -> S]]
  <2>1. ASSUME NEW f \in S PROVE deeper(f) \in S
    <3>1. \A name \in Names : Inside(name) \subseteq Names
      BY DEF Inside
    <3>2. \A name \in Names : UNION {f[kind] : kind \in Inside(name)} \subseteq Names
      BY <3>1
    <3> QED
      BY <3>2
  <2> HIDE DEF S, deeper, m
  <2> QED
    BY <2>1
<1>4. PICK F \in [0..m -> S] : Iterates(F, self, next, m)
  <2> HIDE DEF m, next, self, S
  <2> QED
    BY <1>1, <1>2, <1>3, IterationExists
<1>5. ASSUME NEW n \in 0..m PROVE F[n] = Body(F, n)
  <2>1. F[n] = IF n = 0 THEN self ELSE next[n][F[n - 1]]
    BY <1>4 DEF Iterates
  <2>2. CASE n = 0
    BY <2>1, <2>2
  <2>3. CASE n # 0
    <3>1. n \in 1..m /\ n - 1 \in 0..m
      BY <1>1, <2>3
    <3>2. F[n - 1] \in S
      BY <1>4, <3>1
    <3>3. F[n] = deeper(F[n - 1])
      <4> HIDE DEF S, deeper, m
      <4> QED
        BY <2>1, <2>3, <3>1, <3>2
    <3>4. deeper(F[n - 1]) = Body(F, n)
      BY <2>3
    <3> QED
      BY <3>3, <3>4
  <2> QED
    BY <2>2, <2>3
<1>6. F = [n \in 0..m |-> Body(F, n)]
  <2>1. F = [n \in 0..m |-> F[n]]
    BY <1>4
  <2> HIDE DEF Body
  <2> QED
    BY <1>5, <2>1, Zenon
<1>7. \E g : g = [n \in 0..m |-> Body(g, n)]
  <2> HIDE DEF Body
  <2> QED
    BY <1>6, Zenon
<1> QED
  BY <1>7, Zenon DEF Nesting

\* The kinds of the fields that hold a message are what a message has inside.
LEMMA InsideIs ==
  ASSUME NEW name \in DOMAIN Messages
  PROVE  Inside(name) = {Messages[name][i].kind : i \in NestedIn(name)}
<1> DEFINE those == {j \in DOMAIN Messages[name] : /\ Sets(Messages[name], j)
                                                  /\ Messages[name][j].label # "map"
                                                  /\ Messages[name][j].kind \in DOMAIN Messages}
<1>1. those = NestedIn(name)
  BY DEF NestedIn, SetIn
<1>2. Inside(name) = {Messages[name][i].kind : i \in those}
  BY Zenon DEF Inside
<1> HIDE DEF those
<1> QED
  BY <1>1, <1>2, Zenon

\* A message that comes out does not nest deeper than the limit allows.
LEMMA MadeIsNotTooDeep ==
  ASSUME NEW name \in DOMAIN Messages, Generate[0][name].ok
  PROVE  ~TooDeep(name)
<1> DEFINE m == DepthLimit + 1
           bad(i) == {x \in DOMAIN Messages : Generate[m - i][x].ok /\ Nesting[i][x] # {}}
           B == [i \in 0..m |-> bad(i)]
<1>1. m \in Nat
  BY DepthAssumption
<1>2. \A d \in 0..m : \A x \in DOMAIN Messages : Generate[d][x] = MakeMessage(d, Generate[d + 1], x)
  <2> TAKE d \in 0..m
  <2>1. Generate[d] = [x \in DOMAIN Messages |-> MakeMessage(d, Generate[d + 1], x)]
    BY GenerateIs, Zenon
  <2> QED
    BY <2>1
<1>3. \A i \in 0..m : \A x \in DOMAIN Messages :
         Nesting[i][x] = IF i = 0 THEN {x} ELSE UNION {Nesting[i - 1][kind] : kind \in Inside(x)}
  <2> TAKE i \in 0..m
  <2>1. Nesting[i] = [x \in DOMAIN Messages |->
                        IF i = 0 THEN {x} ELSE UNION {Nesting[i - 1][kind] : kind \in Inside(x)}]
    BY NestingIs, Zenon
  <2> QED
    BY <2>1
<1>4. B[0] = {}
  <2>1. m > DepthLimit /\ m \in 0..m
    BY <1>1, DepthAssumption
  <2>2. \A x \in DOMAIN Messages : Generate[m][x] = NotMade
    <3> TAKE x \in DOMAIN Messages
    <3>1. Generate[m][x] = MakeMessage(m, Generate[m + 1], x)
      BY <1>2, <2>1
    <3> HIDE DEF m
    <3> QED
      BY <1>1, <2>1, <3>1, BeyondTheLimit
  <2>3. ~NotMade.ok
    BY DEF NotMade
  <2>4. bad(0) = {}
    <3>1. m - 0 = m
      BY <1>1
    <3> QED
      BY <2>2, <2>3, <3>1, Zenon
  <2> QED
    BY <1>1, <2>4
<1>5. ASSUME NEW i \in 1..m, B[i - 1] = {}
      PROVE  B[i] = {}
  <2>1. /\ i \in 0..m /\ i - 1 \in 0..m /\ i # 0
        /\ m - i \in 0..m /\ m - i \in Nat /\ m - i + 1 = m - (i - 1)
    BY <1>1
  <2>2. bad(i - 1) = {} /\ B[i] = bad(i)
    BY <1>5, <2>1
  <2>3. SUFFICES ASSUME NEW x \in DOMAIN Messages, Generate[m - i][x].ok, Nesting[i][x] # {}
                 PROVE  FALSE
    BY <2>2
  <2>4. Generate[m - i][x] = MakeMessage(m - i, Generate[m - (i - 1)], x)
    BY <1>2, <2>1
  <2>5. \A f \in NestedIn(x) : Generate[m - (i - 1)][Messages[x][f].kind].ok
    <3>1. ~NotMade.ok
      BY DEF NotMade
    <3> QED
      BY <2>1, <2>3, <2>4, <3>1, MakeMessageIs, Zenon
  <2>6. PICK kind \in Inside(x) : Nesting[i - 1][kind] # {}
    <3>1. Nesting[i][x] = UNION {Nesting[i - 1][kind] : kind \in Inside(x)}
      BY <1>3, <2>1, Zenon
    <3> QED
      BY <2>3, <3>1
  <2>7. kind \in DOMAIN Messages /\ Generate[m - (i - 1)][kind].ok
    <3>1. PICK f \in NestedIn(x) : kind = Messages[x][f].kind
      BY InsideIs
    <3>2. kind \in DOMAIN Messages
      BY <3>1 DEF NestedIn
    <3> QED
      BY <2>5, <3>1, <3>2
  <2> QED
    BY <2>2, <2>6, <2>7
<1>6. \A i \in 0..m : B[i] = {}
  <2> DEFINE Nothing == {{}}
  <2>1. B[0] \in Nothing /\ \A i \in 1..m : B[i - 1] \in Nothing => B[i] \in Nothing
    <3> HIDE DEF B, m
    <3> QED
      BY <1>4, <1>5
  <2>2. \A i \in 0..m : B[i] \in Nothing
    <3> HIDE DEF B, m, Nothing
    <3> QED
      BY <1>1, <2>1, StaysIn
  <2> HIDE DEF B, m
  <2> QED
    BY <2>2
<1>7. m \in 0..m /\ m - m = 0
  BY <1>1
<1>8. bad(m) = {}
  BY <1>6, <1>7
<1>9. ~(Generate[0][name].ok /\ Nesting[m][name] # {})
  BY <1>7, <1>8
<1> QED
  BY <1>9 DEF TooDeep

-----------------------------------------------------------------------------
(* What is in a message that comes out *)

\* The numbers that paths begin with are those of the fields that are set.
LEMMA PathsBegin ==
  ASSUME NEW name \in DOMAIN Messages, Generate[0][name].ok, NEW i \in DOMAIN Messages[name]
  PROVE  (\E p \in Generate[0][name].paths : p[1] = Messages[name][i].number) <=> i \in SetIn(name)
<1> DEFINE fields == Messages[name]
<1>1. 0 \in 0..DepthLimit + 1 /\ 1 \in 0..DepthLimit + 1 /\ 0 + 1 = 1
  BY DepthAssumption
<1>2. Generate[0][name] = MakeMessage(0, Generate[1], name)
  <2>1. Generate[0] = [x \in DOMAIN Messages |-> MakeMessage(0, Generate[0 + 1], x)]
    BY <1>1, GenerateIs, Zenon
  <2> QED
    BY <1>1, <2>1
<1>3. Generate[0][name].paths = ShortPaths(name) \cup LongPaths(Generate[1], name)
  <2>1. ~NotMade.ok
    BY DEF NotMade
  <2>2. Generate[0][name] = Full(Generate[1], name)
    BY <1>2, <2>1, MakeMessageIs, Zenon
  <2> QED
    BY <2>2 DEF Full
<1>4. SetIn(name) \subseteq DOMAIN fields /\ NestedIn(name) \subseteq SetIn(name)
  BY DEF SetIn, NestedIn
<1>5. ASSUME NEW p \in ShortPaths(name) PROVE \E j \in SetIn(name) : p[1] = fields[j].number
  <2>1. PICK j \in SetIn(name) : p = <<fields[j].number>>
    BY DEF ShortPaths
  <2> QED
    BY <2>1
<1>6. ASSUME NEW p \in LongPaths(Generate[1], name) PROVE \E j \in SetIn(name) : p[1] = fields[j].number
  <2>1. PICK j \in NestedIn(name) :
           p \in {<<fields[j].number>> \o q : q \in Generate[1][fields[j].kind].paths}
    BY Zenon DEF LongPaths
  <2>2. PICK q \in Generate[1][fields[j].kind].paths : p = <<fields[j].number>> \o q
    BY <2>1, Zenon
  <2>3. Generate[1] \in MadeAll
    BY <1>1, GenerateIs, Zenon
  <2>4. Generate[1][fields[j].kind] \in Made
    BY <2>3 DEF MadeAll, NestedIn
  <2>5. q \in Seq(Nat)
    BY <2>4 DEF Made
  <2>6. fields[j].number \in Nat
    BY <1>4, FieldsAre
  <2>7. p[1] = fields[j].number
    BY <2>2, <2>5, <2>6
  <2> QED
    BY <1>4, <2>7
<1>7. ASSUME i \in SetIn(name) PROVE \E p \in Generate[0][name].paths : p[1] = fields[i].number
  <2>1. <<fields[i].number>> \in ShortPaths(name)
    BY <1>7, Zenon DEF ShortPaths
  <2>2. <<fields[i].number>>[1] = fields[i].number
    OBVIOUS
  <2>3. <<fields[i].number>> \in Generate[0][name].paths
    BY <1>3, <2>1
  <2> QED
    BY <2>2, <2>3, Zenon
<1>8. ASSUME NEW p \in Generate[0][name].paths, p[1] = fields[i].number PROVE i \in SetIn(name)
  <2>1. PICK j \in SetIn(name) : p[1] = fields[j].number
    BY <1>3, <1>5, <1>6
  <2>2. i = j
    <3>1. fields[i].number = fields[j].number /\ j \in DOMAIN fields
      BY <1>4, <1>8, <2>1
    <3> QED
      BY <3>1, FieldsAre
  <2> QED
    BY <2>1, <2>2
<1> QED
  BY <1>7, <1>8

\* A message that comes out is complete.
LEMMA MadeIsComplete ==
  ASSUME NEW name \in DOMAIN Messages, Generate[0][name].ok
  PROVE  Complete(name)
<1> DEFINE fields == Messages[name]
           set(i) == \E p \in Generate[0][name].paths : p[1] = fields[i].number
           chosen(o) == {i \in DOMAIN fields : fields[i].oneof = o /\ set(i)}
<1>1. \A i \in DOMAIN fields : set(i) <=> Sets(fields, i)
  BY PathsBegin DEF SetIn
<1> HIDE DEF set
<1>2. \A i \in DOMAIN fields : fields[i].oneof = "none" => set(i)
  BY <1>1 DEF Sets
<1>3. ASSUME NEW o \in {fields[i].oneof : i \in DOMAIN fields} \ {"none"}
      PROVE  Cardinality(chosen(o)) = 1
  <2> DEFINE T == {i \in DOMAIN fields : fields[i].oneof = o}
  <2>1. DOMAIN fields = 1..Len(fields) /\ Len(fields) \in Nat
    BY FieldsAre
  <2>2. T \subseteq Nat /\ T # {}
    BY <2>1
  <2>3. PICK first \in T : \A j \in T : first <= j
    <3> HIDE DEF T
    <3> QED
      BY <2>2, LeastNat
  <2>4. ASSUME NEW i \in DOMAIN fields, fields[i].oneof = o
        PROVE  Sets(fields, i) <=> i = first
    <3>1. i \in T /\ first <= i
      BY <2>3, <2>4
    <3>2. i # first => ~Sets(fields, i)
      BY <2>1, <2>3, <2>4, <3>1 DEF Sets
    <3>3. i = first => Sets(fields, i)
      BY <2>1, <2>3, <2>4 DEF Sets
    <3> QED
      BY <3>2, <3>3
  <2>5. chosen(o) = {first}
    BY <1>1, <2>3, <2>4
  <2>6. Cardinality({first}) = 1
    BY FS_Singleton
  <2> HIDE DEF chosen
  <2> QED
    BY <2>5, <2>6, Zenon
<1> QED
  BY <1>2, <1>3, Zenon DEF Complete, set

-----------------------------------------------------------------------------
(* The life of a call *)

Typed == IsGrpcContentType(call.contentType)
Served == call.path \in DOMAIN Services /\ ~Method.clientStreaming
Decoded == WellFramed(call.body) /\ call.body.payload
Makes == Generate[0][Method.output].ok
Unary == call.stateful /\ ~Method.serverStreaming

Data(n) == [i \in 1..n |-> "data"]
Frames(n) == [i \in 1..(n + 1) |-> IF i <= n THEN "data" ELSE "trailers"]

\* Once there is a reply, it is all that RpcAnswered asks of it.
ReplyInv ==
  /\ reply.code \in 0..16
  /\ reply.messages \in {0, 1, StreamingCount}
  /\ reply.messages > 0 => reply.code = 0
  /\ reply.code = 0 /\ reply.messages = 0 => consulted = "Forced"
  /\ consulted = "nothing" /\ reply.code = 0 => Served /\ Makes
  /\ \A d \in reply.details : "body" \in d.fields => consulted = "Failed" \/ ~Decoded
  /\ \A e \in reply.errors : e.context # {} <=> consulted = "Failed"

\* What has been checked by the time each step comes, and what the client has read.
RpcInv ==
  /\ call \in RpcCalls
  /\ step \in {"contentType", "method", "body", "generate", "scenario", "send", "sent"}
  /\ step \in {"method", "body", "generate", "scenario"} => Typed
  /\ step \in {"body", "generate", "scenario"} => Served
  /\ step \in {"generate", "scenario"} => Decoded
  /\ step = "scenario" => Unary /\ Makes
  /\ consulted # "nothing" => Typed /\ Served /\ Decoded /\ Unary /\ Makes
  /\ step \notin {"send", "sent"} => wire = <<>> /\ consulted = "nothing"
  /\ step \in {"send", "sent"} => ReplyInv
  /\ step = "send" => \E n \in 0..reply.messages : wire = Data(n)
  /\ step = "sent" => wire = Frames(reply.messages)

\* An error names the body only if it is about the body.
LEMMA Details ==
  /\ StatusDetails({}) = {}
  /\ \A d \in StatusDetails(Issue("/response")) : "body" \notin d.fields
  /\ \A p \in {"/body", "/response"} : \A e \in Issue(p) : e.context = {}
  /\ \A e \in FailureJson({"context"}) : e.context # {}
<1>1. StatusDetails({}) = {}
  BY DEF StatusDetails
<1>2. FieldViolations([errors |-> {"/response"}, context |-> {}]) = {"response"}
  BY DEF FieldViolations, FieldPath
<1>3. StatusDetails(Issue("/response")) = {[type |-> "BadRequest", fields |-> {"response"}]}
  BY <1>2 DEF StatusDetails, Issue
<1>4. \A d \in StatusDetails(Issue("/response")) : "body" \notin d.fields
  BY <1>3
<1> QED
  BY <1>1, <1>4 DEF Issue, FailureJson

LEMMA Codes ==
  /\ \A s \in Statuses : GrpcCodeFor(s) \in 0..16
  /\ \A s \in {404, 409, 429, 500} : GrpcCodeFor(s) \in 1..16
BY DEF Statuses, GrpcCodeFor

LEMMA ResolutionsAre ==
  ASSUME NEW r \in Resolutions
  PROVE  /\ r.kind \in {"Ungoverned", "Empty", "Body", "Forced", "Failed"}
         /\ r.kind = "Failed" => r.status \in {404, 409, 429, 500}
         /\ r.status \in Statuses
BY DEF Resolutions, Statuses

\* A frame that decodes is well formed, and the other way round.
LEMMA Framing ==
  ASSUME NEW c \in RpcCalls
  PROVE  /\ c.body.read /\ FrameDecodes(c.body) /\ c.body.payload <=> WellFramed(c.body) /\ c.body.payload
<1>1. c.body \in [read : BOOLEAN, bytes : Nat, compressed : BOOLEAN, length : Nat, payload : BOOLEAN]
  BY RpcCallsAssumption
<1>2. c.body.bytes \in Nat /\ c.body.length \in Nat
  BY <1>1
<1>3. c.body.bytes - HeaderSize >= c.body.length <=> c.body.bytes >= c.body.length + HeaderSize
  BY <1>2 DEF HeaderSize
<1>4. c.body.bytes >= c.body.length + HeaderSize => c.body.bytes >= HeaderSize
  BY <1>2 DEF HeaderSize
<1> QED
  BY <1>3, <1>4, Zenon DEF FrameDecodes, WellFramed

USE DEF Typed, Served, Decoded, Makes, Unary

LEMMA RpcInitially == RpcInit(RpcCalls) => RpcInv
BY DEF RpcInit, RpcInv

\* An early return ends in a reply that is right.
LEMMA FailRight ==
  ASSUME RpcInv, step \notin {"send", "sent"}, NEW code \in 1..16, NEW details, Fail(code, details),
         \A d \in StatusDetails(details) : "body" \in d.fields => ~Decoded,
         \A e \in details : e.context = {}
  PROVE  RpcInv'
<1>1. /\ step' = "send" /\ UNCHANGED <<call, wire, consulted>>
      /\ reply'.code = code /\ reply'.messages = 0
      /\ reply'.details = StatusDetails(details) /\ reply'.errors = details
  BY DEF Fail, ErrorReply
<1>2. consulted = "nothing" /\ wire = <<>>
  BY DEF RpcInv
<1>3. ReplyInv'
  BY <1>1, <1>2 DEF ReplyInv, StreamingCount
<1>4. wire = Data(0) /\ 0 \in 0..reply'.messages
  BY <1>1, <1>2 DEF Data
<1>5. \E n \in 0..reply'.messages : wire' = Data(n)
  BY <1>1, <1>4
<1> QED
  BY <1>1, <1>2, <1>3, <1>5, Zenon DEF RpcInv

\* So does an answer, if a message can be generated.
LEMMA SucceedRight ==
  ASSUME RpcInv, step = "generate", Makes, NEW n \in {1, StreamingCount},
         step' = "send", reply' = SuccessReply(n), UNCHANGED <<call, wire, consulted>>
  PROVE  RpcInv'
<1>1. /\ reply'.code = 0 /\ reply'.messages = n
      /\ reply'.details = {} /\ reply'.errors = {}
  BY DEF SuccessReply
<1>2. consulted = "nothing" /\ wire = <<>> /\ Served
  BY DEF RpcInv
<1>3. ReplyInv'
  <2>1. Served' /\ Makes'
    BY <1>2 DEF Method
  <2>2. reply'.code \in 0..16 /\ reply'.messages \in {0, 1, StreamingCount} /\ reply'.messages # 0
    BY <1>1 DEF StreamingCount
  <2> QED
    BY <1>1, <2>1, <2>2, Zenon DEF ReplyInv
<1>4. wire = Data(0) /\ 0 \in 0..reply'.messages
  BY <1>1, <1>2 DEF Data, StreamingCount
<1>5. \E k \in 0..reply'.messages : wire' = Data(k)
  BY <1>4
<1> QED
  BY <1>2, <1>3, <1>5, Zenon DEF RpcInv

LEMMA RpcNextInv == RpcInv /\ RpcNext => RpcInv'
<1> SUFFICES ASSUME RpcInv, RpcNext PROVE RpcInv'
  OBVIOUS
<1>1. CASE CheckContentType
  <2>1. CASE Fail(3, {})
    BY <1>1, <2>1, FailRight, Details DEF CheckContentType
  <2>2. CASE Typed /\ Pass("method")
    BY <1>1, <2>2 DEF CheckContentType, Pass, RpcInv
  <2> QED
    BY <1>1, <2>1, <2>2 DEF CheckContentType
<1>2. CASE FindMethod
  <2>1. CASE Fail(12, {})
    BY <1>2, <2>1, FailRight, Details DEF FindMethod
  <2>2. CASE Served /\ Pass("body")
    BY <1>2, <2>2 DEF FindMethod, Pass, RpcInv, Method
  <2> QED
    BY <1>2, <2>1, <2>2 DEF FindMethod
<1>3. CASE DecodeRequest
  <2> DEFINE decodes == call.body.read /\ FrameDecodes(call.body) /\ call.body.payload
  <2>1. decodes <=> Decoded
    BY Framing DEF RpcInv
  <2>2. CASE ~decodes /\ Fail(3, Issue("/body"))
    BY <1>3, <2>1, <2>2, FailRight, Details DEF DecodeRequest
  <2>3. CASE decodes /\ Pass("generate")
    <3>1. Decoded
      BY <2>1, <2>3
    <3> QED
      BY <1>3, <2>3, <3>1 DEF DecodeRequest, Pass, RpcInv, Method
  <2> QED
    BY <1>3, <2>2, <2>3 DEF DecodeRequest
<1>4. CASE BuildStream
  <2>1. CASE Makes
    <3>1. StreamReply = SuccessReply(StreamingCount)
      BY <2>1 DEF StreamReply, StreamingCount
    <3> QED
      BY <1>4, <2>1, <3>1, SucceedRight DEF BuildStream
  <2>2. CASE ~Makes
    <3>1. StreamReply = ErrorReply(13, Issue("/response"))
      BY <2>2 DEF StreamReply, StreamingCount
    <3>2. Fail(13, Issue("/response"))
      BY <1>4, <3>1 DEF BuildStream, Fail
    <3> QED
      BY <1>4, <3>2, FailRight, Details DEF BuildStream
  <2> QED
    BY <2>1, <2>2
<1>5. CASE GenerateReply
  <2>1. CASE ~Makes /\ Fail(13, Issue("/response"))
    BY <1>5, <2>1, FailRight, Details DEF GenerateReply
  <2>2. CASE Makes /\ Succeed(1)
    BY <1>5, <2>2, SucceedRight DEF GenerateReply, Succeed
  <2>3. CASE Makes /\ call.stateful /\ Pass("scenario")
    BY <1>5, <2>3 DEF GenerateReply, Pass, RpcInv, Method
  <2> QED
    BY <1>5, <2>1, <2>2, <2>3 DEF GenerateReply
<1>6. CASE ConsultScenario
  <2>1. PICK r \in Resolutions :
           /\ consulted' = r.kind
           /\ reply' =
                CASE r.kind = "Failed" ->
                        ErrorReply(GrpcCodeFor(r.status), FailureJson({"context"}))
                  [] r.kind \in {"Body", "Forced"} /\ r.body = "other" ->
                        ErrorReply(13, {})
                  [] r.kind = "Forced" /\ r.body = "none" ->
                        ErrorReply(GrpcCodeFor(r.status), {})
                  [] OTHER -> SuccessReply(1)
    BY <1>6 DEF ConsultScenario
  <2>2. step' = "send" /\ UNCHANGED <<call, wire>> /\ step = "scenario"
    BY <1>6 DEF ConsultScenario
  <2>3. consulted' # "nothing"
    BY <2>1, ResolutionsAre
  <2>4. \/ /\ consulted' = "Failed" /\ \E code \in 1..16 : reply' = ErrorReply(code, FailureJson({"context"}))
        \/ /\ consulted' # "Failed" /\ reply' = ErrorReply(13, {})
        \/ /\ consulted' = "Forced" /\ \E code \in 0..16 : reply' = ErrorReply(code, {})
        \/ /\ consulted' # "Failed" /\ reply' = SuccessReply(1)
    BY <2>1, ResolutionsAre, Codes
  <2>5. ReplyInv'
    <3>1. CASE consulted' = "Failed" /\ \E code \in 1..16 : reply' = ErrorReply(code, FailureJson({"context"}))
      BY <3>1, Details DEF ReplyInv, ErrorReply
    <3>2. CASE consulted' # "Failed" /\ reply' = ErrorReply(13, {})
      BY <3>2, <2>3, Details DEF ReplyInv, ErrorReply
    <3>3. CASE consulted' = "Forced" /\ \E code \in 0..16 : reply' = ErrorReply(code, {})
      BY <3>3, Details DEF ReplyInv, ErrorReply
    <3>4. CASE consulted' # "Failed" /\ reply' = SuccessReply(1)
      BY <3>4, <2>3 DEF ReplyInv, SuccessReply
    <3> QED
      BY <2>4, <3>1, <3>2, <3>3, <3>4
  <2>6. \E n \in 0..reply'.messages : wire' = Data(n)
    <3>1. wire' = Data(0)
      BY <2>2 DEF RpcInv, Data
    <3>2. 0 \in 0..reply'.messages
      BY <2>5 DEF ReplyInv, StreamingCount
    <3> QED
      BY <3>1, <3>2
  <2> QED
    BY <2>2, <2>3, <2>5, <2>6, Zenon DEF RpcInv, Method
<1>7. CASE PollFrame
  <2>1. step = "send" /\ UNCHANGED <<call, reply, consulted>> /\ ReplyInv
    BY <1>7 DEF PollFrame, RpcInv
  <2>2. PICK n \in 0..reply.messages : wire = Data(n)
    BY <2>1 DEF RpcInv
  <2>3. n \in Nat /\ reply.messages \in Nat /\ Len(wire) = n
    BY <2>1, <2>2 DEF ReplyInv, Data, StreamingCount
  <2>4. ReplyInv'
    BY <2>1 DEF ReplyInv, Method
  <2>5. CASE n < reply.messages
    <3>1. wire' = Append(wire, "data") /\ step' = step
      BY <1>7, <2>3, <2>5 DEF PollFrame
    <3>2. wire' = Data(n + 1)
      BY <2>2, <2>3, <3>1 DEF Data
    <3>3. n + 1 \in 0..reply'.messages
      BY <2>1, <2>3, <2>5
    <3> QED
      BY <2>1, <2>4, <3>1, <3>2, <3>3, Zenon DEF RpcInv, Method
  <2>6. CASE ~(n < reply.messages)
    <3>1. wire' = Append(wire, "trailers") /\ step' = "sent" /\ n = reply.messages
      BY <1>7, <2>3, <2>6 DEF PollFrame
    <3>2. wire' = Frames(reply'.messages)
      BY <2>1, <2>2, <2>3, <3>1 DEF Data, Frames
    <3> QED
      BY <2>1, <2>4, <3>1, <3>2, Zenon DEF RpcInv, Method
  <2> QED
    BY <2>5, <2>6
<1> QED
  BY <1>1, <1>2, <1>3, <1>4, <1>5, <1>6, <1>7 DEF RpcNext

LEMMA RpcStutters == RpcInv /\ UNCHANGED rpcVars => RpcInv'
BY Zenon DEF RpcInv, ReplyInv, rpcVars, Method

\* DynamicGrpcService::call, whatever the services, the messages and the scenario say.
\* The inductive invariant keeps what each check has established until the reply is made.
THEOREM RpcAnsweredHolds == RpcSpec => []RpcAnswered
<1>1. RpcInv => RpcAnswered
  <2> SUFFICES ASSUME RpcInv PROVE RpcAnswered
    OBVIOUS
  <2>1. Served => Method.output \in DOMAIN Messages
    BY ServicesAssumption DEF Method
  <2>2. Served /\ Makes => ~TooDeep(Method.output) /\ Complete(Method.output)
    BY <2>1, MadeIsNotTooDeep, MadeIsComplete
  <2>3. consulted # "nothing" =>
          /\ call.stateful /\ IsGrpcContentType(call.contentType)
          /\ call.path \in DOMAIN Services
          /\ ~Method.clientStreaming /\ ~Method.serverStreaming
          /\ WellFramed(call.body) /\ call.body.payload
          /\ ~TooDeep(Method.output)
    BY <2>2, Zenon DEF RpcInv
  <2>4. ASSUME step = "sent"
        PROVE  /\ wire = [i \in 1..(reply.messages + 1) |-> IF i <= reply.messages THEN "data" ELSE "trailers"]
               /\ reply.code \in 0..16
               /\ reply.messages > 0 => reply.code = 0 /\ reply.messages \in {1, StreamingCount}
               /\ reply.code = 0 /\ reply.messages = 0 => consulted = "Forced"
    BY <2>4 DEF RpcInv, ReplyInv, Frames
  <2>5. ASSUME step = "sent"
        PROVE  /\ consulted = "nothing" /\ reply.code = 0 => ~TooDeep(Method.output) /\ Complete(Method.output)
               /\ \A d \in reply.details : "body" \in d.fields =>
                      consulted = "Failed" \/ ~WellFramed(call.body) \/ ~call.body.payload
               /\ \A e \in reply.errors : e.context # {} <=> consulted = "Failed"
    <3>1. ReplyInv
      BY <2>5 DEF RpcInv
    <3> QED
      BY <2>2, <3>1, Zenon DEF ReplyInv
  <2> QED
    BY <2>3, <2>4, <2>5, Zenon DEF RpcAnswered
<1>2. RpcInv /\ [RpcNext]_rpcVars => RpcInv'
  BY RpcNextInv, RpcStutters
<1> QED
  BY <1>1, <1>2, RpcInitially, PTL DEF RpcSpec

-----------------------------------------------------------------------------
(* The channels of a document: what is read into them is what the document *)
(* declares for them.                                                      *)

SchemaType == [kind : {"none", "broken", "schema"}, accepts : SUBSET DOMAIN Texts]
ExampleType == {"none"} \cup DOMAIN Texts
SpecType == [publish : SchemaType, subscribe : SchemaType, example : ExampleType]

PayloadOf(messages) == IF messages = <<>> THEN Absent ELSE messages[1].payload
ExampleOf(messages) == IF messages = <<>> THEN "none" ELSE FirstOf(messages[1].examples)

LEMMA MessagesGive ==
  ASSUME NEW messages \in MessageLists
  PROVE  PayloadOf(messages) \in SchemaType /\ ExampleOf(messages) \in ExampleType
<1> DEFINE M == [payload : SchemaType, examples : Seq(DOMAIN Texts)]
<1>1. messages \in Seq(M)
  BY DEF MessageLists, SchemaType
<1>2. CASE messages = <<>>
  BY <1>2 DEF PayloadOf, ExampleOf, SchemaType, ExampleType, Absent
<1>3. CASE messages # <<>>
  <2>1. messages[1] \in M
    <3> HIDE DEF M
    <3> QED
      BY <1>1, <1>3
  <2>2. messages[1].payload \in SchemaType /\ messages[1].examples \in Seq(DOMAIN Texts)
    BY <2>1
  <2>3. FirstOf(messages[1].examples) \in ExampleType
    BY <2>2 DEF FirstOf, ExampleType
  <2> QED
    BY <1>3, <2>2, <2>3 DEF PayloadOf, ExampleOf
<1> QED
  BY <1>2, <1>3

\* The name that is found for the definition of a channel is that of the channel.
LEMMA ChannelNamedIs ==
  ASSUME NEW document, IsDocument(document), document.version = 3, Distinct(document),
         NEW name \in DOMAIN document.channels, NEW node
  PROVE  name \in ChannelNamed(document, node) <=> document.channels[name] = node
<1> DEFINE names == document.names
           equal == {i \in DOMAIN names : document.channels[names[i]] = node}
           least == {n \in equal : \A m \in equal : n <= m}
<1>1. /\ Range(names) = DOMAIN document.channels
      /\ names \in Seq(DOMAIN document.channels)
      /\ \A a, b \in DOMAIN document.channels : document.channels[a] = document.channels[b] => a = b
  BY DEF IsDocument, Distinct, IsInjective
<1>2. ChannelNamed(document, node) = {names[i] : i \in least}
  BY Zenon DEF ChannelNamed
<1>3. ASSUME name \in ChannelNamed(document, node) PROVE document.channels[name] = node
  BY <1>2, <1>3
<1>4. ASSUME document.channels[name] = node PROVE name \in ChannelNamed(document, node)
  <2>1. PICK k \in DOMAIN names : names[k] = name
    BY <1>1 DEF Range
  <2>2. equal \subseteq Nat /\ k \in equal
    BY <1>1, <1>4, <2>1
  <2>3. PICK i \in equal : \A m \in equal : i <= m
    <3> HIDE DEF equal
    <3> QED
      BY <2>2, LeastNat
  <2>4. names[i] = name
    BY <1>1, <1>4, <2>3
  <2>5. i \in least
    BY <2>3
  <2> HIDE DEF least
  <2> QED
    BY <1>2, <2>4, <2>5
<1> QED
  BY <1>3, <1>4

\* The operations up to n for a channel in a direction, and a schema that is the payload
\* of the last of them.
Mine(document, name, direction, n) ==
  {i \in 1..n : /\ document.operations[i].action = direction
                /\ document.operations[i].channel = document.channels[name]}
SaidLast(document, name, direction, n, schema) ==
  /\ Mine(document, name, direction, n) = {} => schema = Absent
  /\ \A i \in Mine(document, name, direction, n) :
        (\A j \in Mine(document, name, direction, n) : i >= j) =>
            schema = PayloadOf(document.operations[i].messages)
ReadUpTo(document, specs, n) ==
  \A name \in DOMAIN document.channels :
     /\ SaidLast(document, name, "send", n, specs[name].publish)
     /\ SaidLast(document, name, "receive", n, specs[name].subscribe)

\* One more operation replaces what was said last, or changes nothing.
LEMMA SaidNext ==
  ASSUME NEW document, NEW name, NEW direction, NEW n \in Nat \ {0}, NEW schema, NEW next,
         SaidLast(document, name, direction, n - 1, schema),
         IF /\ document.operations[n].action = direction
            /\ document.operations[n].channel = document.channels[name]
         THEN next = PayloadOf(document.operations[n].messages)
         ELSE next = schema
  PROVE  SaidLast(document, name, direction, n, next)
<1> DEFINE here == /\ document.operations[n].action = direction
                   /\ document.operations[n].channel = document.channels[name]
           old == Mine(document, name, direction, n - 1)
           new == Mine(document, name, direction, n)
<1>1. new = IF here THEN old \cup {n} ELSE old
  BY DEF Mine
<1>2. \A i \in old : i \in Nat /\ i < n
  BY DEF Mine
<1>3. CASE here
  <2>1. \A i \in new : (\A j \in new : i >= j) => i = n
    BY <1>1, <1>2, <1>3
  <2> QED
    BY <1>1, <1>3, <2>1 DEF SaidLast
<1>4. CASE ~here
  <2>1. new = old /\ next = schema
    BY <1>1, <1>4
  <2> QED
    BY <2>1, Zenon DEF SaidLast
<1> QED
  BY <1>3, <1>4

LEMMA WithOperationRight ==
  ASSUME NEW document, IsDocument(document), document.version = 3,
         NEW n \in DOMAIN document.operations, NEW specs \in [DOMAIN document.channels -> SpecType]
  PROVE  /\ WithOperation(specs, document, document.operations[n]) \in [DOMAIN document.channels -> SpecType]
         /\ Distinct(document) /\ ReadUpTo(document, specs, n - 1) =>
               ReadUpTo(document, WithOperation(specs, document, document.operations[n]), n)
<1> DEFINE op == document.operations[n]
           after == WithOperation(specs, document, op)
           new(name) ==
              IF name \notin ChannelNamed(document, op.channel) THEN specs[name]
              ELSE IF op.action = "send" THEN [specs[name] EXCEPT !.publish = PayloadOf(op.messages)]
              ELSE IF op.action = "receive"
              THEN [specs[name] EXCEPT !.subscribe = PayloadOf(op.messages), !.example = ExampleOf(op.messages)]
              ELSE specs[name]
<1>1. op.messages \in MessageLists /\ n \in Nat \ {0}
  BY DEF IsDocument, Range
<1>2. PayloadOf(op.messages) \in SchemaType /\ ExampleOf(op.messages) \in ExampleType
  BY <1>1, MessagesGive
<1> HIDE DEF op
<1>3. after = [name \in DOMAIN specs |-> new(name)]
  BY Zenon DEF WithOperation, PayloadOf, ExampleOf
<1>4. ASSUME NEW name \in DOMAIN document.channels
      PROVE  /\ new(name) \in SpecType
             /\ new(name).publish = IF name \in ChannelNamed(document, op.channel) /\ op.action = "send"
                                    THEN PayloadOf(op.messages) ELSE specs[name].publish
             /\ new(name).subscribe = IF name \in ChannelNamed(document, op.channel) /\ op.action = "receive"
                                    THEN PayloadOf(op.messages) ELSE specs[name].subscribe
  <2>1. specs[name] \in SpecType
    OBVIOUS
  <2> QED
    BY <1>2, <2>1 DEF SpecType
<1>5. after \in [DOMAIN document.channels -> SpecType]
  <2> HIDE DEF new
  <2> QED
    BY <1>3, <1>4
<1>6. ASSUME Distinct(document), ReadUpTo(document, specs, n - 1), NEW name \in DOMAIN document.channels
      PROVE  /\ SaidLast(document, name, "send", n, after[name].publish)
             /\ SaidLast(document, name, "receive", n, after[name].subscribe)
  <2>1. name \in ChannelNamed(document, op.channel) <=> document.channels[name] = op.channel
    BY <1>6, ChannelNamedIs
  <2>2. after[name] = new(name)
    <3> HIDE DEF new
    <3> QED
      BY <1>3
  <2>3. /\ SaidLast(document, name, "send", n - 1, specs[name].publish)
        /\ SaidLast(document, name, "receive", n - 1, specs[name].subscribe)
    BY <1>6 DEF ReadUpTo
  <2> HIDE DEF after, new
  <2>4. SaidLast(document, name, "send", n, after[name].publish)
    BY <1>1, <1>4, <2>1, <2>2, <2>3, SaidNext DEF op
  <2>5. SaidLast(document, name, "receive", n, after[name].subscribe)
    BY <1>1, <1>4, <2>1, <2>2, <2>3, SaidNext DEF op
  <2> QED
    BY <2>4, <2>5
<1> HIDE DEF after
<1> QED
  BY <1>5, <1>6, Zenon DEF ReadUpTo, op, after

\* from_v3 visits the operations in their order.
LEMMA FromV3Right ==
  ASSUME NEW document, IsDocument(document), document.version = 3
  PROVE  /\ FromV3(document) \in [DOMAIN document.channels -> SpecType]
         /\ Distinct(document) => ReadUpTo(document, FromV3(document), Len(document.operations))
<1> DEFINE ops == document.operations
           n == Len(ops)
           S == [DOMAIN document.channels -> SpecType]
           init == [name \in DOMAIN document.channels |-> EmptySpec]
           advance(i, specs) == WithOperation(specs, document, ops[i])
           next == [i \in 1..n |-> [specs \in S |-> advance(i, specs)]]
           F == CHOOSE f : f = [i \in 0..n |-> IF i = 0 THEN init ELSE advance(i, f[i - 1])]
<1>1. n \in Nat /\ DOMAIN ops = 1..n
  BY DEF IsDocument
<1>2. FromV3(document) = F[n]
  BY DEF FromV3
<1>3. init \in S
  BY DEF SpecType, EmptySpec, SchemaType, ExampleType, Absent
<1>4. \A i \in 1..n : \A specs \in S : advance(i, specs) \in S
  BY <1>1, WithOperationRight
<1>5. ASSUME Distinct(document), NEW i \in 1..n, NEW specs \in S, ReadUpTo(document, specs, i - 1)
      PROVE  ReadUpTo(document, advance(i, specs), i)
  BY <1>1, <1>5, WithOperationRight
<1>6. \A specs : \A i \in 1..n : advance(i, specs) = WithOperation(specs, document, ops[i])
  OBVIOUS
<1>7. ReadUpTo(document, init, 0)
  <2>1. \A name \in DOMAIN document.channels : \A direction : Mine(document, name, direction, 0) = {}
    BY DEF Mine
  <2>2. \A name \in DOMAIN document.channels : init[name].publish = Absent /\ init[name].subscribe = Absent
    BY DEF EmptySpec
  <2> HIDE DEF init
  <2> QED
    BY <2>1, <2>2 DEF ReadUpTo, SaidLast
<1> HIDE DEF S, advance, init, n, ops
<1>8. next \in [1..n -> [S -> S]] /\ \A i \in 1..n : \A specs \in S : next[i][specs] = advance(i, specs)
  BY <1>4
<1> HIDE DEF next
<1>9. \E f : f = [i \in 0..n |-> IF i = 0 THEN init ELSE advance(i, f[i - 1])]
  <2>1. PICK f \in [0..n -> S] : Iterates(f, init, next, n)
    BY <1>1, <1>3, <1>8, IterationExists
  <2>2. ASSUME NEW i \in 0..n, i # 0 PROVE next[i][f[i - 1]] = advance(i, f[i - 1])
    <3>1. i \in 1..n /\ i - 1 \in 0..n
      BY <1>1, <2>2
    <3>2. f[i - 1] \in S
      BY <2>1, <3>1
    <3> QED
      BY <1>8, <3>1, <3>2
  <2>3. [i \in 0..n |-> IF i = 0 THEN init ELSE next[i][f[i - 1]]]
          = [i \in 0..n |-> IF i = 0 THEN init ELSE advance(i, f[i - 1])]
    BY <2>2, Zenon
  <2> QED
    BY <2>1, <2>3, Zenon DEF Iterates
<1>10. F = [i \in 0..n |-> IF i = 0 THEN init ELSE advance(i, F[i - 1])]
  BY <1>9, Zenon
<1> HIDE DEF F
<1>11. \A i \in 0..n : F[i] = IF i = 0 THEN init ELSE advance(i, F[i - 1])
  BY <1>10, Zenon
<1>12. \A i \in 0..n : F[i] \in S
  <2>1. F[0] \in S
    BY <1>1, <1>3, <1>11
  <2>2. ASSUME NEW i \in 1..n, F[i - 1] \in S PROVE F[i] \in S
    BY <1>1, <1>4, <1>11, <2>2
  <2> QED
    BY <1>1, <2>1, <2>2, StaysIn
<1>13. ASSUME Distinct(document) PROVE ReadUpTo(document, F[n], n)
  <2> DEFINE right == [i \in 0..n |-> IF ReadUpTo(document, F[i], i) THEN "yes" ELSE "no"]
             yes == {"yes"}
  <2>1. right[0] \in yes
    <3>1. F[0] = init /\ 0 \in 0..n
      BY <1>1, <1>11
    <3> QED
      BY <1>7, <3>1
  <2>2. ASSUME NEW i \in 1..n, right[i - 1] \in yes PROVE right[i] \in yes
    <3>1. i \in 0..n /\ i - 1 \in 0..n /\ i # 0
      BY <1>1
    <3>2. ReadUpTo(document, F[i - 1], i - 1)
      BY <2>2, <3>1
    <3>3. F[i] = advance(i, F[i - 1]) /\ F[i - 1] \in S
      BY <1>11, <1>12, <3>1
    <3>4. ReadUpTo(document, F[i], i)
      BY <1>5, <1>13, <3>2, <3>3
    <3> QED
      BY <3>1, <3>4
  <2>3. \A i \in 0..n : right[i] \in yes
    <3> HIDE DEF right, yes
    <3> QED
      BY <1>1, <2>1, <2>2, StaysIn
  <2>4. n \in 0..n
    BY <1>1
  <2> QED
    BY <2>3, <2>4
<1> QED
  BY <1>1, <1>2, <1>12, <1>13 DEF S, n, ops

\* from_document: every channel of the document gets a specification, whose schemas are
\* the declared ones if channels can be told apart.
LEMMA FromDocumentRight ==
  ASSUME NEW document, IsDocument(document), NEW name \in DOMAIN document.channels
  PROVE  /\ DOMAIN FromDocument(document) = DOMAIN document.channels
         /\ FromDocument(document)[name] \in SpecType
         /\ Distinct(document) =>
              /\ FromDocument(document)[name].publish = Declared(document, name, "send")
              /\ FromDocument(document)[name].subscribe = Declared(document, name, "receive")
<1>1. CASE document.version = 2
  <2> DEFINE node == document.channels[name]
             spec == [publish   |-> PayloadOf(node.publish),
                      subscribe |-> PayloadOf(node.subscribe),
                      example   |-> ExampleOf(node.subscribe)]
  <2>1. node \in [publish : MessageLists, subscribe : MessageLists]
    BY <1>1 DEF IsDocument
  <2>2. node.publish \in MessageLists /\ node.subscribe \in MessageLists
    BY <2>1
  <2>3. SpecV2(node) = spec
    BY Zenon DEF SpecV2, PayloadOf, ExampleOf
  <2>4. spec \in SpecType
    BY <2>2, MessagesGive DEF SpecType
  <2>5. FromDocument(document) = [x \in DOMAIN document.channels |-> SpecV2(document.channels[x])]
    BY <1>1 DEF FromDocument, FromV2
  <2>6. Declared(document, name, "send") = SpecV2(node).publish /\ Declared(document, name, "receive") = SpecV2(node).subscribe
    BY <1>1 DEF Declared
  <2> HIDE DEF node, spec
  <2>7. DOMAIN FromDocument(document) = DOMAIN document.channels /\ FromDocument(document)[name] = SpecV2(node)
    BY <2>5 DEF node
  <2> QED
    BY <2>3, <2>4, <2>6, <2>7
<1>2. CASE document.version = 3
  <2> DEFINE specs == FromDocument(document)
             n == Len(document.operations)
  <2>1. specs = FromV3(document)
    BY <1>2 DEF FromDocument
  <2>2. specs \in [DOMAIN document.channels -> SpecType]
    BY <1>2, <2>1, FromV3Right
  <2>3. n \in Nat /\ DOMAIN document.operations = 1..n
    BY <1>2 DEF IsDocument
  <2>4. ASSUME NEW direction, NEW schema, SaidLast(document, name, direction, n, schema)
        PROVE  schema = Declared(document, name, direction)
    <3> DEFINE mine == {i \in DOMAIN document.operations :
                          /\ document.operations[i].action = direction
                          /\ document.operations[i].channel = document.channels[name]}
               last == CHOOSE i \in mine : \A j \in mine : i >= j
               T == {n - i : i \in mine}
    <3>1. Declared(document, name, direction) =
             IF mine = {} \/ document.operations[last].messages = <<>> THEN Absent
             ELSE document.operations[last].messages[1].payload
      <4>1. document.version # 2
        BY <1>2
      <4> QED
        BY <4>1, Zenon DEF Declared
    <3>2. mine = Mine(document, name, direction, n)
      BY <2>3 DEF Mine
    <3>3. CASE mine = {}
      BY <2>4, <3>1, <3>2, <3>3 DEF SaidLast
    <3>4. CASE mine # {}
      <4>1. mine \subseteq 1..n
        BY <2>3
      <4> HIDE DEF mine, n
      <4>2. T \subseteq Nat /\ T # {}
        <5>1. \A i \in mine : n - i \in Nat
          BY <2>3, <4>1
        <5>2. PICK i \in mine : TRUE
          BY <3>4
        <5>3. n - i \in T
          BY <5>2
        <5> QED
          BY <5>1, <5>3
      <4>3. PICK x \in T : \A y \in T : x <= y
        <5> HIDE DEF T
        <5> QED
          BY <4>2, LeastNat
      <4>4. PICK m \in mine : x = n - m
        BY <4>3
      <4>5. \A j \in mine : m >= j
        <5> TAKE j \in mine
        <5>1. n - m <= n - j
          BY <4>3, <4>4
        <5> QED
          BY <2>3, <4>1, <5>1
      <4>6. last \in mine /\ \A j \in mine : last >= j
        BY <4>5, Zenon
      <4>7. schema = PayloadOf(document.operations[last].messages)
        <5> HIDE DEF last
        <5> QED
          BY <2>4, <3>2, <4>6 DEF SaidLast
      <4> HIDE DEF last
      <4> QED
        BY <3>1, <3>4, <4>7 DEF PayloadOf
    <3> QED
      BY <3>3, <3>4
  <2>5. ASSUME Distinct(document)
        PROVE  /\ SaidLast(document, name, "send", n, specs[name].publish)
               /\ SaidLast(document, name, "receive", n, specs[name].subscribe)
    BY <1>2, <2>1, <2>5, FromV3Right DEF ReadUpTo
  <2> HIDE DEF specs, n
  <2>6. DOMAIN specs = DOMAIN document.channels /\ specs[name] \in SpecType
    BY <2>2
  <2>7. ASSUME Distinct(document)
        PROVE  /\ specs[name].publish = Declared(document, name, "send")
               /\ specs[name].subscribe = Declared(document, name, "receive")
    BY <2>4, <2>5, <2>7
  <2> QED
    BY <2>6, <2>7 DEF specs
<1> QED
  BY <1>1, <1>2 DEF IsDocument

-----------------------------------------------------------------------------
(* The life of a message *)

\* Why the message is taken to be for the channel it was routed to.
RoutedRight ==
  /\ Pinned => routed = [channel |-> message.path, payload |-> message.text]
  /\ \/ Pinned
     \/ Envelope(message.text) # {}
     \/ AutoRoutes(message.text) = {routed.channel}
Taken ==
  /\ routed.channel \in DOMAIN channels
  /\ channels[routed.channel].publish = Absent \/ Conforms(channels[routed.channel].publish, routed.payload)

\* What is established by the time each step comes.
MessageInv ==
  /\ message \in MessageCases
  /\ progress \in {"load", "route", "validate", "generate", "reply", "sent"}
  /\ progress # "load" => channels = FromDocument(message.document)
  /\ progress \in {"validate", "generate"} => RoutedRight
  /\ progress = "generate" => Taken
  /\ progress # "sent" => asked = NoRoute
  /\ progress \in {"reply", "sent"} =>
        /\ outcome.type \in {"mock", "error"}
        /\ outcome.type = "mock" => RoutedRight /\ Taken /\ outcome.channel = routed.channel
        /\ outcome.payload = "generated" => Taken /\ channels[routed.channel].subscribe.kind = "schema"
        /\ asked # NoRoute =>
              /\ RoutedRight /\ Taken /\ Pinned
              /\ asked = [channel |-> message.path, payload |-> message.text]

LEMMA MessageInitially == MessageInit(MessageCases) => MessageInv
BY DEF MessageInit, MessageInv

\* A channel of the document is one of a specification with known texts.
LEMMA ChannelsTyped ==
  ASSUME MessageInv, progress # "load"
  PROVE  /\ DOMAIN channels = DOMAIN message.document.channels
         /\ IsFiniteSet(DOMAIN channels)
         /\ \A name \in DOMAIN channels : channels[name] \in SpecType
         /\ Distinct(message.document) => \A name \in DOMAIN channels :
               /\ channels[name].publish = Declared(message.document, name, "send")
               /\ channels[name].subscribe = Declared(message.document, name, "receive")
<1> DEFINE document == message.document
<1>1. IsDocument(document) /\ channels = FromDocument(document)
  BY MessageCasesAssumption DEF MessageInv
<1> HIDE DEF document
<1>2. DOMAIN channels = DOMAIN document.channels
  <2>1. CASE document.version = 2
    BY <1>1, <2>1 DEF FromDocument, FromV2
  <2>2. CASE document.version = 3
    <3>1. FromDocument(document) = FromV3(document)
      BY <2>2 DEF FromDocument
    <3>2. FromV3(document) \in [DOMAIN document.channels -> SpecType]
      BY <1>1, <2>2, FromV3Right
    <3> QED
      BY <1>1, <3>1, <3>2
  <2> QED
    BY <1>1, <2>1, <2>2 DEF IsDocument
<1>3. IsFiniteSet(DOMAIN channels)
  BY <1>1, <1>2 DEF IsDocument
<1> QED
  BY <1>1, <1>2, <1>3, FromDocumentRight DEF document

\* The only route there is.
LEMMA OnlyRoute ==
  ASSUME MessageInv, progress = "route", NEW text,
         Cardinality({[channel |-> c, payload |-> text] : c \in AutoRoutes(text)}) = 1,
         NEW route \in {[channel |-> c, payload |-> text] : c \in AutoRoutes(text)}
  PROVE  AutoRoutes(text) = {route.channel}
<1> DEFINE from == AutoRoutes(text)
           to == {[channel |-> c, payload |-> text] : c \in from}
           f == [c \in from |-> [channel |-> c, payload |-> text]]
<1>1. IsFiniteSet(from)
  <2>1. IsFiniteSet(DOMAIN channels)
    BY ChannelsTyped
  <2>2. from \in SUBSET DOMAIN channels
    BY DEF AutoRoutes
  <2> HIDE DEF from
  <2> QED
    BY <2>1, <2>2, FS_Subset
<1>2. IsFiniteSet(to)
  <2> HIDE DEF from
  <2>1. f \in Surjection(from, to)
    BY DEF Surjection
  <2> HIDE DEF f, to
  <2> QED
    BY <1>1, <2>1, FS_Surjection
<1>3. PICK x : to = {x}
  <2> HIDE DEF to
  <2>1. Cardinality(to) = 1
    BY DEF to
  <2> QED
    BY <1>2, <2>1, FS_Singleton
<1>4. route = x
  BY <1>3
<1>5. ASSUME NEW c \in from PROVE c = route.channel
  <2>1. [channel |-> c, payload |-> text] = route
    BY <1>3, <1>4
  <2> QED
    BY <2>1
<1>6. PICK c \in from : route = [channel |-> c, payload |-> text]
  OBVIOUS
<1> HIDE DEF from
<1> QED
  BY <1>5, <1>6 DEF from

\* An error is a right answer wherever it is given.
LEMMA ErrorRight ==
  ASSUME MessageInv, progress \in {"route", "validate", "generate"}, NEW keyword,
         keyword \in {"json", "routing", "enum", "schema", "faker"},
         Answer(ErrorOf(keyword), "reply"), UNCHANGED routed
  PROVE  MessageInv'
<1>1. outcome'.type = "error" /\ outcome'.payload = keyword /\ progress' = "reply" /\ UNCHANGED <<message, channels, asked>>
  BY DEF Answer, ErrorOf
<1>2. outcome'.payload # "generated"
  BY <1>1
<1>3. asked' = NoRoute
  BY <1>1 DEF MessageInv
<1> QED
  BY <1>1, <1>2, <1>3, Zenon DEF MessageInv

LEMMA MessageNextInv == MessageInv /\ MessageNext => MessageInv'
<1> SUFFICES ASSUME MessageInv, MessageNext PROVE MessageInv'
  OBVIOUS
<1>1. CASE LoadDocument
  BY <1>1 DEF LoadDocument, MessageInv
<1>2. CASE Route
  <2> DEFINE text == message.text
             routes == IF Pinned THEN {[channel |-> message.path, payload |-> text]}
                       ELSE IF Envelope(text) # {} THEN Envelope(text)
                       ELSE {[channel |-> c, payload |-> text] : c \in AutoRoutes(text)}
  <2>1. progress = "route" /\ asked = NoRoute
    BY <1>2 DEF Route, MessageInv
  <2>2. CASE Answer(ErrorOf("json"), "reply") /\ UNCHANGED routed
    BY <2>1, <2>2, ErrorRight
  <2>3. CASE Answer(ErrorOf("routing"), "reply") /\ UNCHANGED routed
    BY <2>1, <2>3, ErrorRight
  <2>4. CASE Cardinality(routes) = 1 /\ routed' \in routes /\ Answer(NoOutcome, "validate")
    <3>1. UNCHANGED <<message, channels, asked>> /\ progress' = "validate"
      BY <2>4 DEF Answer
    <3>2. Pinned' = Pinned /\ Envelope(message.text)' = Envelope(text) /\ AutoRoutes(message.text)' = AutoRoutes(text)
      BY <3>1 DEF Pinned, Envelope, AutoRoutes
    <3>3. RoutedRight'
      <4>1. CASE Pinned
        BY <2>4, <3>1, <3>2, <4>1 DEF RoutedRight
      <4>2. CASE ~Pinned /\ Envelope(text) # {}
        BY <3>2, <4>2 DEF RoutedRight
      <4>3. CASE ~Pinned /\ Envelope(text) = {}
        <5>1. routes = {[channel |-> c, payload |-> text] : c \in AutoRoutes(text)}
          BY <4>3
        <5>2. AutoRoutes(text) = {routed'.channel}
          BY <2>1, <2>4, <5>1, OnlyRoute
        <5> QED
          BY <3>2, <4>3, <5>2 DEF RoutedRight
      <4> QED
        BY <4>1, <4>2, <4>3
    <3> QED
      BY <2>1, <3>1, <3>3 DEF MessageInv
  <2> QED
    BY <1>2, <2>2, <2>3, <2>4 DEF Route
<1>3. CASE ValidateMessage
  <2>1. progress = "validate" /\ UNCHANGED routed /\ asked = NoRoute /\ RoutedRight
    BY <1>3 DEF ValidateMessage, MessageInv
  <2>2. CASE Answer(ErrorOf("enum"), "reply")
    BY <2>1, <2>2, ErrorRight
  <2>3. CASE Answer(ErrorOf("schema"), "reply")
    BY <2>1, <2>3, ErrorRight
  <2>4. CASE Taken /\ Answer(NoOutcome, "generate")
    <3>1. UNCHANGED <<message, channels, asked>> /\ progress' = "generate"
      BY <2>4 DEF Answer
    <3>2. RoutedRight' /\ Taken'
      BY <2>1, <2>4, <3>1 DEF RoutedRight, Taken, Pinned, Envelope, AutoRoutes
    <3> QED
      BY <2>1, <3>1, <3>2 DEF MessageInv
  <2> QED
    BY <1>3, <2>2, <2>3, <2>4 DEF ValidateMessage, Taken
<1>4. CASE GeneratePayload
  <2> DEFINE spec == channels[routed.channel]
  <2>1. progress = "generate" /\ UNCHANGED routed /\ asked = NoRoute /\ RoutedRight /\ Taken
    BY <1>4 DEF GeneratePayload, MessageInv
  <2>2. spec.example # "generated" /\ EmptyObject # "generated"
    <3>1. spec \in SpecType
      BY <2>1, ChannelsTyped DEF Taken
    <3>2. spec.example \in ExampleType
      BY <3>1 DEF SpecType
    <3>3. "none" # "generated"
      OBVIOUS
    <3>4. EmptyObject # "generated"
      BY Zenon DEF EmptyObject
    <3> QED
      BY <3>2, <3>3, <3>4, TextsAssumption DEF ExampleType
  <2>3. CASE Answer(ErrorOf("faker"), "reply")
    BY <2>1, <2>3, ErrorRight
  <2>4. ASSUME NEW payload, Answer(MockOf(routed.channel, payload), "reply"),
               payload = "generated" => spec.subscribe.kind = "schema"
        PROVE  MessageInv'
    <3>1. UNCHANGED <<message, channels, asked>> /\ progress' = "reply"
      BY <2>4 DEF Answer
    <3>2. outcome'.type = "mock" /\ outcome'.channel = routed'.channel /\ outcome'.payload = payload
      BY <2>1, <2>4 DEF Answer, MockOf
    <3>3. RoutedRight' /\ Taken'
      BY <2>1, <3>1 DEF RoutedRight, Taken, Pinned, Envelope, AutoRoutes
    <3>4. payload = "generated" => channels'[routed'.channel].subscribe.kind = "schema"
      BY <2>1, <2>4, <3>1
    <3> QED
      BY <2>1, <3>1, <3>2, <3>3, <3>4 DEF MessageInv
  <2> QED
    BY <1>4, <2>2, <2>3, <2>4 DEF GeneratePayload
<1>5. CASE ApplyScenario
  <2> DEFINE governed == message.stateful /\ Pinned /\ outcome.type = "mock"
  <2>1. progress = "reply" /\ progress' = "sent" /\ UNCHANGED <<message, channels, routed>> /\ asked = NoRoute
    BY <1>5 DEF ApplyScenario, MessageInv
  <2>2. /\ RoutedRight' = RoutedRight /\ Taken' = Taken /\ Pinned' = Pinned
    BY <2>1 DEF RoutedRight, Taken, Pinned, Envelope, AutoRoutes
  <2>3. CASE UNCHANGED <<outcome, asked>>
    BY <2>1, <2>2, <2>3 DEF MessageInv
  <2>4. CASE /\ governed
             /\ asked' = [channel |-> message.path, payload |-> message.text]
             /\ outcome' \in {outcome, MockOf(message.path, "stored"), ErrorOf("scenario")}
    <3>1. RoutedRight /\ Taken /\ Pinned
      BY <2>1, <2>4 DEF MessageInv
    <3>2. routed.channel = message.path
      BY <3>1 DEF RoutedRight
    <3>3. /\ outcome'.type \in {"mock", "error"}
          /\ outcome'.type = "mock" => outcome'.channel = routed.channel
          /\ outcome'.payload = "generated" => channels[routed.channel].subscribe.kind = "schema"
      <4>1. CASE outcome' = outcome
        BY <2>1, <4>1 DEF MessageInv
      <4>2. CASE outcome' = MockOf(message.path, "stored")
        BY <3>2, <4>2 DEF MockOf
      <4>3. CASE outcome' = ErrorOf("scenario")
        BY <4>3 DEF ErrorOf
      <4> QED
        BY <2>4, <4>1, <4>2, <4>3
    <3> QED
      BY <2>1, <2>2, <2>4, <3>1, <3>3 DEF MessageInv
  <2> QED
    BY <1>5, <2>3, <2>4 DEF ApplyScenario
<1> QED
  BY <1>1, <1>2, <1>3, <1>4, <1>5 DEF MessageNext

LEMMA MessageStutters == MessageInv /\ UNCHANGED messageVars => MessageInv'
<1> SUFFICES ASSUME MessageInv, UNCHANGED messageVars PROVE MessageInv'
  OBVIOUS
<1>1. UNCHANGED <<message, progress, channels, routed, outcome, asked>>
  BY DEF messageVars
<1>2. RoutedRight' = RoutedRight /\ Taken' = Taken /\ Pinned' = Pinned
  BY <1>1 DEF RoutedRight, Taken, Pinned, Envelope, AutoRoutes
<1> QED
  BY <1>1, <1>2 DEF MessageInv

\* handle_message and apply_scenario, for every document of either version. The inductive
\* invariant keeps why the message was routed where it was; that the channels read are the
\* channels declared is an invariant of the loop over the operations.
THEOREM MessageRoutedHolds == MessageSpec => []MessageRouted
<1>1. MessageInv => MessageRouted
  <2> SUFFICES ASSUME MessageInv, progress = "sent", Distinct(message.document) PROVE MessageRouted
    BY DEF MessageRouted
  <2> DEFINE document == message.document
  <2>1. /\ DOMAIN channels = DOMAIN document.channels
        /\ \A name \in DOMAIN channels :
              /\ channels[name].publish = Declared(document, name, "send")
              /\ channels[name].subscribe = Declared(document, name, "receive")
    BY ChannelsTyped
  <2>2. \A name \in DOMAIN channels : \A payload :
           Allowed(name, payload) <=>
             channels[name].publish = Absent \/ Conforms(channels[name].publish, payload)
    BY <2>1 DEF Allowed
  <2>3. \A text : AutoRoutes(text) = {c \in DOMAIN document.channels : Allowed(c, text)}
    BY <2>1, <2>2 DEF AutoRoutes
  <2>4. Taken => routed.channel \in DOMAIN document.channels /\ Allowed(routed.channel, routed.payload)
    BY <2>1, <2>2 DEF Taken
  <2>5. outcome.type \in {"mock", "error"}
    BY DEF MessageInv
  <2>6. outcome.type = "mock" \/ asked # NoRoute => RoutedRight /\ Taken
    BY DEF MessageInv
  <2>7. RoutedRight =>
          \/ Pinned \/ Envelope(message.text) # {}
          \/ {c \in DOMAIN document.channels : Allowed(c, message.text)} = {routed.channel}
    BY <2>3 DEF RoutedRight
  <2>8. asked # NoRoute => Pinned /\ asked.channel = routed.channel /\ asked.payload = message.text
    BY DEF MessageInv, RoutedRight
  <2>9. outcome.type = "mock" => outcome.channel = routed.channel
    BY DEF MessageInv
  <2>10. outcome.payload = "generated" => Declared(document, routed.channel, "receive").kind = "schema"
    BY <2>1 DEF MessageInv, Taken
  <2> QED
    BY <2>4, <2>5, <2>6, <2>7, <2>8, <2>9, <2>10 DEF MessageRouted
<1>2. MessageInv /\ [MessageNext]_messageVars => MessageInv'
  BY MessageNextInv, MessageStutters
<1> QED
  BY <1>1, <1>2, MessageInitially, PTL DEF MessageSpec

-----------------------------------------------------------------------------
(* The trie of routes: after n operations its nodes are the starts of      *)
(* their templates, and the edges of a node lie in the order in which the  *)
(* operations brought them.                                                *)

Starts(node, template) ==
  /\ Len(node) <= Len(template)
  /\ \A k \in 1..Len(node) : template[k] = node[k]

\* A template starts with a node and goes on with an edge.
LEMMA StartsLonger ==
  ASSUME NEW node \in Seq(Matchers), NEW template \in Seq(Matchers), NEW edge \in Matchers
  PROVE  /\ Append(node, edge) \in Seq(Matchers) /\ Append(node, edge) # <<>>
         /\ Starts(Append(node, edge), template) <=>
              Starts(node, template) /\ Len(node) < Len(template) /\ template[Len(node) + 1] = edge
<1>1. /\ Len(Append(node, edge)) = Len(node) + 1 /\ Len(node) \in Nat /\ Len(template) \in Nat
      /\ Append(node, edge)[Len(node) + 1] = edge
      /\ \A k \in 1..Len(node) : Append(node, edge)[k] = node[k]
  OBVIOUS
<1>2. Append(node, edge) \in Seq(Matchers)
  OBVIOUS
<1>3. Append(node, edge) # <<>>
  BY <1>1
<1>4. 1..(Len(node) + 1) = 1..Len(node) \cup {Len(node) + 1}
  BY <1>1
<1>5. Starts(Append(node, edge), template) <=>
        Starts(node, template) /\ Len(node) < Len(template) /\ template[Len(node) + 1] = edge
  BY <1>1, <1>4 DEF Starts
<1> QED
  BY <1>2, <1>3, <1>5

\* What a template starts with are its subsequences from the first segment on.
LEMMA StartsAre ==
  ASSUME NEW template \in Seq(Matchers)
  PROVE  /\ {SubSeq(template, 1, k) : k \in 0..Len(template)} = {node \in Seq(Matchers) : Starts(node, template)}
         /\ \A node \in Seq(Matchers) :
               node = template <=> Starts(node, template) /\ Len(node) = Len(template)
<1>1. ASSUME NEW k \in 0..Len(template)
      PROVE  SubSeq(template, 1, k) \in Seq(Matchers) /\ Starts(SubSeq(template, 1, k), template)
  <2>1. SubSeq(template, 1, k) \in Seq(Matchers)
    OBVIOUS
  <2>2. Len(SubSeq(template, 1, k)) = k /\ \A j \in 1..k : SubSeq(template, 1, k)[j] = template[j]
    OBVIOUS
  <2> QED
    BY <2>1, <2>2 DEF Starts
<1>2. ASSUME NEW node \in Seq(Matchers), Starts(node, template)
      PROVE  Len(node) \in 0..Len(template) /\ node = SubSeq(template, 1, Len(node))
  <2>1. Len(node) \in 0..Len(template)
    BY <1>2 DEF Starts
  <2>2. Len(SubSeq(template, 1, Len(node))) = Len(node) /\ SubSeq(template, 1, Len(node)) \in Seq(Matchers)
    BY <2>1
  <2>3. \A k \in 1..Len(node) : node[k] = SubSeq(template, 1, Len(node))[k]
    BY <1>2, <2>1 DEF Starts
  <2> QED
    BY <2>1, <2>2, <2>3
<1>3. ASSUME NEW node \in Seq(Matchers)
      PROVE  node = template <=> Starts(node, template) /\ Len(node) = Len(template)
  BY DEF Starts
<1>4. \A node \in {SubSeq(template, 1, k) : k \in 0..Len(template)} : node \in Seq(Matchers) /\ Starts(node, template)
  BY <1>1
<1>5. \A node \in Seq(Matchers) : Starts(node, template) => node \in {SubSeq(template, 1, k) : k \in 0..Len(template)}
  BY <1>2
<1> QED
  BY <1>3, <1>4, <1>5

\* The nodes on the way to the end of a template, and what a trie has at a node.
PathTo(template) == {node \in Seq(Matchers) : Starts(node, template)}
EdgesAt(trie, node) == IF node \in DOMAIN trie.children THEN trie.children[node] ELSE <<>>
OperationsAt(trie, node) == IF node \in DOMAIN trie.operations THEN trie.operations[node] ELSE <<>>
Grown(edges, edge) == IF edge \in Range(edges) THEN edges ELSE Append(edges, edge)
Entry(operation, index) == [method |-> operation.method, index |-> index]

\* What an insertion makes of a trie, node by node.
Inserted(trie, operation, index, new) ==
  /\ DOMAIN new.children = DOMAIN trie.children \cup PathTo(operation.template)
  /\ DOMAIN new.operations = DOMAIN trie.children \cup PathTo(operation.template)
  /\ \A node \in DOMAIN trie.children \cup PathTo(operation.template) :
        /\ new.children[node] = IF node \in PathTo(operation.template) /\ node # operation.template
                                THEN Grown(EdgesAt(trie, node), operation.template[Len(node) + 1])
                                ELSE EdgesAt(trie, node)
        /\ new.operations[node] = IF node = operation.template
                                  THEN Append(OperationsAt(trie, node), Entry(operation, index))
                                  ELSE OperationsAt(trie, node)

LEMMA InsertIs ==
  ASSUME NEW trie, NEW operation, operation.template \in Seq(Matchers), NEW index
  PROVE  Inserted(trie, operation, index, InsertOperation(trie, operation, index))
<1> DEFINE template == operation.template
           path == {SubSeq(template, 1, n) : n \in 0..Len(template)}
           nodes == DOMAIN trie.children \cup path
           children == [n \in nodes |-> IF n \in path \ {template} THEN Grown(EdgesAt(trie, n), template[Len(n) + 1])
                                        ELSE EdgesAt(trie, n)]
           operations == [n \in nodes |-> IF n = template THEN Append(OperationsAt(trie, n), Entry(operation, index))
                                          ELSE OperationsAt(trie, n)]
<1>1. InsertOperation(trie, operation, index) = [children |-> children, operations |-> operations]
  BY Zenon DEF InsertOperation, Grown, EdgesAt, OperationsAt, Entry
<1>2. path = PathTo(template)
  BY StartsAre DEF PathTo
<1> HIDE DEF path
<1>3. /\ InsertOperation(trie, operation, index).children = children
      /\ InsertOperation(trie, operation, index).operations = operations
  <2> HIDE DEF children, operations
  <2> QED
    BY <1>1
<1>4. DOMAIN children = nodes /\ DOMAIN operations = nodes
  OBVIOUS
<1>5. \A n \in nodes :
        /\ children[n] = IF n \in path \ {template} THEN Grown(EdgesAt(trie, n), template[Len(n) + 1])
                         ELSE EdgesAt(trie, n)
        /\ operations[n] = IF n = template THEN Append(OperationsAt(trie, n), Entry(operation, index))
                           ELSE OperationsAt(trie, n)
  BY Zenon
<1> HIDE DEF children, operations
<1> QED
  BY <1>2, <1>3, <1>4, <1>5 DEF Inserted

\* Those of the first n operations whose templates start with a node; the nodes they
\* give; one node is declared before another.
Declaring(operations, node, n) == {i \in 1..n : Starts(node, operations[i].template)}
Nodes(operations, n) == {node \in Seq(Matchers) : node = <<>> \/ Declaring(operations, node, n) # {}}
Ahead(operations, first, second, n) ==
  \E i \in Declaring(operations, first, n) : \A j \in Declaring(operations, second, n) : i < j

EdgesRight(operations, node, edges, n) ==
  /\ edges \in Seq(Matchers)
  /\ \A edge \in Matchers : edge \in Range(edges) <=> Declaring(operations, Append(node, edge), n) # {}
  /\ \A a, b \in DOMAIN edges :
        a < b => Ahead(operations, Append(node, edges[a]), Append(node, edges[b]), n)

Entries(operations) == {Entry(operations[i], i) : i \in DOMAIN operations}
EntriesRight(operations, node, entries, n) ==
  /\ entries \in Seq(Entries(operations))
  /\ \A k \in DOMAIN entries : entries[k].index \in 1..n /\ operations[entries[k].index].template = node
  /\ \A i \in 1..n : operations[i].template = node => \E k \in DOMAIN entries : entries[k].index = i
  /\ \A k, l \in DOMAIN entries : k < l => entries[k].index < entries[l].index

TrieInv(operations, trie, n) ==
  /\ DOMAIN trie.children = Nodes(operations, n) /\ DOMAIN trie.operations = Nodes(operations, n)
  /\ \A node \in Nodes(operations, n) :
        /\ EdgesRight(operations, node, trie.children[node], n)
        /\ EntriesRight(operations, node, trie.operations[node], n)

LEMMA TemplatesAre ==
  ASSUME NEW operations, Templated(operations)
  PROVE  /\ Len(operations) \in Nat /\ DOMAIN operations = 1..Len(operations)
         /\ \A i \in 1..Len(operations) : operations[i].template \in Seq(Matchers)
<1>1. operations \in Seq(Range(operations))
  BY DEF Templated
<1>2. Len(operations) \in Nat /\ DOMAIN operations = 1..Len(operations)
  BY <1>1
<1> QED
  BY <1>2 DEF Templated, Range

\* What the next operation declares.
LEMMA DeclaringNext ==
  ASSUME NEW operations, Templated(operations), NEW n \in 1..Len(operations)
  PROVE  /\ \A node : Declaring(operations, node, n) = Declaring(operations, node, n - 1) \cup
                        (IF Starts(node, operations[n].template) THEN {n} ELSE {})
         /\ \A node : Declaring(operations, node, n - 1) \subseteq 1..(n - 1)
         /\ Nodes(operations, n) = Nodes(operations, n - 1) \cup PathTo(operations[n].template)
         /\ \A first, second : Ahead(operations, first, second, n - 1) => Ahead(operations, first, second, n)
<1>1. n \in Nat /\ n - 1 \in Nat /\ 1..n = (1..(n - 1)) \cup {n} /\ n \notin 1..(n - 1)
  BY TemplatesAre
<1>2. ASSUME NEW node
      PROVE  Declaring(operations, node, n) = Declaring(operations, node, n - 1) \cup
                        (IF Starts(node, operations[n].template) THEN {n} ELSE {})
  BY <1>1 DEF Declaring
<1>3. ASSUME NEW node PROVE Declaring(operations, node, n - 1) \subseteq 1..(n - 1)
  BY DEF Declaring
<1>4. Nodes(operations, n) = Nodes(operations, n - 1) \cup PathTo(operations[n].template)
  <2>1. \A node \in Seq(Matchers) : Declaring(operations, node, n) # {} <=>
           Declaring(operations, node, n - 1) # {} \/ Starts(node, operations[n].template)
    BY <1>2
  <2> QED
    BY <2>1, Zenon DEF Nodes, PathTo
<1>5. ASSUME NEW first, NEW second, Ahead(operations, first, second, n - 1)
      PROVE  Ahead(operations, first, second, n)
  <2>1. PICK i \in Declaring(operations, first, n - 1) : \A j \in Declaring(operations, second, n - 1) : i < j
    BY <1>5 DEF Ahead
  <2>2. i \in 1..(n - 1) /\ i < n
    BY <1>1, <1>3, <2>1
  <2>3. i \in Declaring(operations, first, n) /\ \A j \in Declaring(operations, second, n) : i < j
    BY <1>2, <2>1, <2>2
  <2> QED
    BY <2>3 DEF Ahead
<1> QED
  BY <1>2, <1>3, <1>4, <1>5

\* A trie that knows nothing of a node is right about it if nothing is declared there.
LEMMA UnknownNode ==
  ASSUME NEW operations, Templated(operations), NEW n \in 0..Len(operations),
         NEW node \in Seq(Matchers), Declaring(operations, node, n) = {}
  PROVE  EdgesRight(operations, node, <<>>, n) /\ EntriesRight(operations, node, <<>>, n)
<1>1. \A i \in 1..n : operations[i].template \in Seq(Matchers) /\ ~Starts(node, operations[i].template)
  BY TemplatesAre DEF Declaring
<1>2. \A edge \in Matchers : Declaring(operations, Append(node, edge), n) = {}
  BY <1>1, StartsLonger DEF Declaring
<1>3. \A i \in 1..n : operations[i].template # node
  BY <1>1, StartsAre
<1>4. <<>> \in Seq(Matchers) /\ <<>> \in Seq(Entries(operations)) /\ DOMAIN <<>> = {}
  OBVIOUS
<1>5. Range(<<>>) = {}
  BY <1>4 DEF Range
<1> QED
  BY <1>2, <1>3, <1>4, <1>5 DEF EdgesRight, EntriesRight

\* The edges of a node off the way, or at its end, are right as they are.
LEMMA EdgesStay ==
  ASSUME NEW operations, Templated(operations), NEW n \in 1..Len(operations),
         NEW node \in Seq(Matchers), NEW edges, EdgesRight(operations, node, edges, n - 1),
         ~Starts(node, operations[n].template) \/ node = operations[n].template
  PROVE  EdgesRight(operations, node, edges, n)
<1>1. operations[n].template \in Seq(Matchers)
  BY TemplatesAre
<1>2. \A edge \in Matchers : ~Starts(Append(node, edge), operations[n].template)
  BY <1>1, StartsLonger
<1>3. ASSUME NEW edge \in Matchers
      PROVE  Declaring(operations, Append(node, edge), n) = Declaring(operations, Append(node, edge), n - 1)
  <2>1. Declaring(operations, Append(node, edge), n) = Declaring(operations, Append(node, edge), n - 1) \cup
           (IF Starts(Append(node, edge), operations[n].template) THEN {n} ELSE {})
    BY DeclaringNext
  <2> QED
    BY <1>2, <2>1
<1> QED
  BY <1>3, DeclaringNext DEF EdgesRight

\* The edges of a node on the way: a new one comes after all that were there.
LEMMA EdgesGrow ==
  ASSUME NEW operations, Templated(operations), NEW n \in 1..Len(operations),
         NEW node \in Seq(Matchers), NEW edges, EdgesRight(operations, node, edges, n - 1),
         Starts(node, operations[n].template), node # operations[n].template
  PROVE  EdgesRight(operations, node, Grown(edges, operations[n].template[Len(node) + 1]), n)
<1> DEFINE template == operations[n].template
           head == template[Len(node) + 1]
           with(edge, m) == Declaring(operations, Append(node, edge), m)
<1>1. template \in Seq(Matchers) /\ edges \in Seq(Matchers) /\ n \in Nat
  BY TemplatesAre DEF EdgesRight
<1>2. Len(node) < Len(template) /\ head \in Matchers
  BY <1>1, StartsAre DEF Starts
<1>3. \A edge \in Matchers : Starts(Append(node, edge), template) <=> edge = head
  BY <1>1, <1>2, StartsLonger
<1>4. \A edge \in Matchers : with(edge, n) = with(edge, n - 1) \cup (IF edge = head THEN {n} ELSE {})
  BY <1>3, DeclaringNext
<1>5. \A edge \in Matchers : with(edge, n - 1) \subseteq 1..(n - 1)
  BY DeclaringNext
<1>6. \A edge \in Matchers : edge \in Range(edges) <=> with(edge, n - 1) # {}
  BY DEF EdgesRight
<1>7. \A a, b \in DOMAIN edges :
        a < b => Ahead(operations, Append(node, edges[a]), Append(node, edges[b]), n)
  BY DeclaringNext DEF EdgesRight
<1>8. CASE head \in Range(edges)
  <2>1. \A edge \in Matchers : edge \in Range(edges) <=> with(edge, n) # {}
    BY <1>2, <1>4, <1>6, <1>8
  <2> QED
    BY <1>1, <1>7, <1>8, <2>1 DEF EdgesRight, Grown
<1>9. CASE head \notin Range(edges)
  <2> DEFINE grown == Append(edges, head)
             l == Len(edges)
  <2>1. /\ grown \in Seq(Matchers) /\ l \in Nat /\ DOMAIN edges = 1..l
        /\ DOMAIN grown = 1..(l + 1) /\ grown[l + 1] = head
        /\ \A a \in 1..l : grown[a] = edges[a] /\ edges[a] \in Matchers
    BY <1>1, <1>2
  <2>2. Range(grown) = Range(edges) \cup {head}
    <3> HIDE DEF grown, head, l
    <3>1. 1..(l + 1) = 1..l \cup {l + 1}
      BY <2>1
    <3> QED
      BY <2>1, <3>1 DEF Range
  <2>3. \A edge \in Matchers : edge \in Range(grown) <=> with(edge, n) # {}
    BY <1>2, <1>4, <1>6, <2>2
  <2>4. ASSUME NEW a \in 1..l
        PROVE  Ahead(operations, Append(node, edges[a]), Append(node, head), n)
    <3>1. edges[a] \in Range(edges) /\ edges[a] \in Matchers
      BY <2>1 DEF Range
    <3>2. PICK i \in with(edges[a], n - 1) : TRUE
      BY <1>6, <3>1
    <3>3. i < n /\ i \in with(edges[a], n)
      BY <1>1, <1>4, <1>5, <3>1, <3>2
    <3>4. with(head, n) = {n}
      BY <1>2, <1>4, <1>6, <1>9
    <3> QED
      BY <3>3, <3>4 DEF Ahead
  <2> HIDE DEF grown, head, with
  <2>5. ASSUME NEW a \in DOMAIN grown, NEW b \in DOMAIN grown, a < b
        PROVE  Ahead(operations, Append(node, grown[a]), Append(node, grown[b]), n)
    <3>1. a \in 1..l /\ (b \in 1..l \/ b = l + 1)
      BY <2>1, <2>5
    <3>2. CASE b \in 1..l
      BY <1>7, <2>1, <2>5, <3>1, <3>2
    <3>3. CASE b = l + 1
      BY <2>1, <2>4, <3>1, <3>3
    <3> QED
      BY <3>1, <3>2, <3>3
  <2>6. EdgesRight(operations, node, grown, n)
    BY <2>1, <2>3, <2>5 DEF EdgesRight, with
  <2> QED
    BY <1>9, <2>6 DEF Grown, grown, head
<1> QED
  BY <1>8, <1>9

\* What is at the end of a template gets the operation as its last entry.
LEMMA EntriesGrow ==
  ASSUME NEW operations, Templated(operations), NEW n \in 1..Len(operations),
         NEW node, NEW entries, EntriesRight(operations, node, entries, n - 1)
  PROVE  IF node = operations[n].template
         THEN EntriesRight(operations, node, Append(entries, Entry(operations[n], n)), n)
         ELSE EntriesRight(operations, node, entries, n)
<1>1. n \in Nat /\ 1..n = 1..(n - 1) \cup {n} /\ n \in DOMAIN operations
  BY TemplatesAre
<1>2. CASE node # operations[n].template
  BY <1>1, <1>2 DEF EntriesRight
<1>3. CASE node = operations[n].template
  <2> DEFINE new == Entry(operations[n], n)
             grown == Append(entries, new)
             l == Len(entries)
  <2>1. new \in Entries(operations) /\ new.index = n
    BY <1>1 DEF Entries, Entry
  <2> HIDE DEF new
  <2>2. /\ grown \in Seq(Entries(operations)) /\ l \in Nat /\ DOMAIN entries = 1..l
        /\ DOMAIN grown = 1..(l + 1) /\ grown[l + 1] = new
        /\ \A k \in 1..l : grown[k] = entries[k]
    BY <2>1 DEF EntriesRight
  <2> HIDE DEF grown, l
  <2>3. 1..(l + 1) = 1..l \cup {l + 1}
    BY <2>2
  <2>4. \A k \in 1..l : entries[k].index \in 1..(n - 1)
    BY <2>2 DEF EntriesRight
  <2>5. \A k \in DOMAIN grown : grown[k].index \in 1..n /\ operations[grown[k].index].template = node
    BY <1>1, <1>3, <2>1, <2>2, <2>3 DEF EntriesRight
  <2>6. \A i \in 1..n : operations[i].template = node => \E k \in DOMAIN grown : grown[k].index = i
    <3> TAKE i \in 1..n
    <3>1. CASE i = n
      BY <2>1, <2>2, <2>3, <3>1
    <3>2. CASE i \in 1..(n - 1)
      BY <2>2, <2>3, <3>2 DEF EntriesRight
    <3> QED
      BY <1>1, <3>1, <3>2
  <2>7. ASSUME NEW k \in DOMAIN grown, NEW m \in DOMAIN grown, k < m
        PROVE  grown[k].index < grown[m].index
    <3>1. k \in 1..l /\ (m \in 1..l \/ m = l + 1)
      BY <2>2, <2>7
    <3>2. CASE m \in 1..l
      BY <2>2, <2>7, <3>1, <3>2 DEF EntriesRight
    <3>3. CASE m = l + 1
      BY <1>1, <2>1, <2>2, <2>4, <3>1, <3>3
    <3> QED
      BY <3>1, <3>2, <3>3
  <2>8. EntriesRight(operations, node, grown, n)
    BY <2>2, <2>5, <2>6, <2>7 DEF EntriesRight
  <2> QED
    BY <1>3, <2>8 DEF grown, new
<1> QED
  BY <1>2, <1>3

\* insert_operation keeps the trie right.
LEMMA InsertRight ==
  ASSUME NEW operations, Templated(operations), NEW n \in 1..Len(operations),
         NEW trie, TrieInv(operations, trie, n - 1)
  PROVE  TrieInv(operations, InsertOperation(trie, operations[n], n), n)
<1> DEFINE new == InsertOperation(trie, operations[n], n)
           template == operations[n].template
<1>1. template \in Seq(Matchers) /\ n - 1 \in 0..Len(operations)
  BY TemplatesAre
<1>2. Nodes(operations, n) = DOMAIN trie.children \cup PathTo(template)
  BY DeclaringNext DEF TrieInv
<1>3. Inserted(trie, operations[n], n, new)
  BY <1>1, InsertIs, Zenon
<1> HIDE DEF new
<1>4. /\ DOMAIN new.children = Nodes(operations, n) /\ DOMAIN new.operations = Nodes(operations, n)
      /\ \A node \in Nodes(operations, n) :
             /\ new.children[node] = IF node \in PathTo(template) /\ node # template
                                     THEN Grown(EdgesAt(trie, node), template[Len(node) + 1])
                                     ELSE EdgesAt(trie, node)
             /\ new.operations[node] = IF node = template THEN Append(OperationsAt(trie, node), Entry(operations[n], n))
                                       ELSE OperationsAt(trie, node)
  BY <1>2, <1>3, Zenon DEF Inserted
<1> HIDE DEF template
<1>5. ASSUME NEW node \in Nodes(operations, n)
      PROVE  /\ EdgesRight(operations, node, new.children[node], n)
             /\ EntriesRight(operations, node, new.operations[node], n)
  <2>1. node \in Seq(Matchers)
    BY DEF Nodes
  <2>2. /\ EdgesRight(operations, node, EdgesAt(trie, node), n - 1)
        /\ EntriesRight(operations, node, OperationsAt(trie, node), n - 1)
    <3>1. CASE node \in Nodes(operations, n - 1)
      BY <3>1 DEF TrieInv, EdgesAt, OperationsAt
    <3>2. CASE node \notin Nodes(operations, n - 1)
      <4>1. Declaring(operations, node, n - 1) = {}
        BY <2>1, <3>2 DEF Nodes
      <4>2. EdgesAt(trie, node) = <<>> /\ OperationsAt(trie, node) = <<>>
        BY <3>2 DEF TrieInv, EdgesAt, OperationsAt
      <4> QED
        BY <1>1, <2>1, <4>1, <4>2, UnknownNode
    <3> QED
      BY <3>1, <3>2
  <2>3. EntriesRight(operations, node, new.operations[node], n)
    <3>1. IF node = template
          THEN EntriesRight(operations, node, Append(OperationsAt(trie, node), Entry(operations[n], n)), n)
          ELSE EntriesRight(operations, node, OperationsAt(trie, node), n)
      BY <2>2, EntriesGrow DEF template
    <3> QED
      BY <1>4, <3>1
  <2>4. CASE node \in PathTo(template) /\ node # template
    <3>1. Starts(node, template)
      BY <2>4 DEF PathTo
    <3>2. new.children[node] = Grown(EdgesAt(trie, node), template[Len(node) + 1])
      BY <1>4, <2>4
    <3> QED
      BY <2>1, <2>2, <2>3, <2>4, <3>1, <3>2, EdgesGrow DEF template
  <2>5. CASE ~(node \in PathTo(template) /\ node # template)
    <3>1. ~Starts(node, template) \/ node = template
      BY <2>1, <2>5 DEF PathTo
    <3>2. new.children[node] = EdgesAt(trie, node)
      BY <1>4, <2>5
    <3> QED
      BY <2>1, <2>2, <2>3, <3>1, <3>2, EdgesStay DEF template
  <2> QED
    BY <2>4, <2>5
<1> QED
  BY <1>4, <1>5 DEF TrieInv, new

LEMMA EmptyTrieRight ==
  ASSUME NEW operations, Templated(operations)
  PROVE  TrieInv(operations, EmptyTrie, 0)
<1>1. \A node : Declaring(operations, node, 0) = {}
  BY DEF Declaring
<1>2. Nodes(operations, 0) = {<<>>}
  <2>1. <<>> \in Seq(Matchers)
    OBVIOUS
  <2>2. \A node : node \in Nodes(operations, 0) <=> node \in {<<>>}
    BY <1>1, <2>1, Zenon DEF Nodes
  <2> QED
    BY <2>2, Zenon
<1>3. /\ DOMAIN EmptyTrie.children = {<<>>} /\ DOMAIN EmptyTrie.operations = {<<>>}
      /\ EmptyTrie.children[<<>>] = <<>> /\ EmptyTrie.operations[<<>>] = <<>>
  BY DEF EmptyTrie
<1>4. EdgesRight(operations, <<>>, <<>>, 0) /\ EntriesRight(operations, <<>>, <<>>, 0)
  <2>1. 0 \in 0..Len(operations) /\ <<>> \in Seq(Matchers)
    BY TemplatesAre
  <2> QED
    BY <1>1, <2>1, UnknownNode
<1> QED
  BY <1>2, <1>3, <1>4 DEF TrieInv

\* Build inserts the operations one by one, so its trie is right about all of them.
LEMMA BuildRight ==
  ASSUME NEW operations, Templated(operations)
  PROVE  TrieInv(operations, Build(operations), Len(operations))
<1> DEFINE n == Len(operations)
           advance(i, trie) == InsertOperation(trie, operations[i], i)
           Recursion(f, m) == f = [i \in 0..m |-> IF i = 0 THEN EmptyTrie ELSE advance(i, f[i - 1])]
           Good(m) == \E f : Recursion(f, m)
           Bad == {m \in 0..n : ~Good(m)}
           F == CHOOSE f : Recursion(f, n)
<1>1. n \in Nat
  BY TemplatesAre
<1>2. Build(operations) = F[n]
  BY DEF Build
<1>3. ASSUME NEW i \in 1..n, NEW trie, TrieInv(operations, trie, i - 1)
      PROVE  TrieInv(operations, advance(i, trie), i)
  BY <1>3, InsertRight
<1> HIDE DEF n, advance
<1>4. Good(0)
  <2>1. \A i \in 0..0 : EmptyTrie = IF i = 0 THEN EmptyTrie ELSE advance(i, [j \in 0..0 |-> EmptyTrie][i - 1])
    OBVIOUS
  <2>2. Recursion([i \in 0..0 |-> EmptyTrie], 0)
    BY <2>1, Zenon
  <2> QED
    BY <2>2, Zenon
<1>5. ASSUME NEW m \in Nat, Good(m) PROVE Good(m + 1)
  <2>1. PICK f : Recursion(f, m)
    BY <1>5
  <2> DEFINE G == [i \in 0..(m + 1) |-> IF i = m + 1 THEN advance(m + 1, f[m]) ELSE f[i]]
  <2>2. \A i \in 0..m : f[i] = IF i = 0 THEN EmptyTrie ELSE advance(i, f[i - 1])
    BY <2>1, Zenon
  <2>3. ASSUME NEW i \in 0..(m + 1)
        PROVE  G[i] = IF i = 0 THEN EmptyTrie ELSE advance(i, G[i - 1])
    <3>1. CASE i = m + 1
      <4>1. i # 0 /\ i - 1 = m /\ m \in 0..(m + 1) /\ m # m + 1
        BY <3>1
      <4>2. G[i] = advance(i, f[m]) /\ G[i - 1] = f[m]
        BY <3>1, <4>1
      <4> HIDE DEF G
      <4> QED
        BY <4>1, <4>2
    <3>2. CASE i # m + 1
      <4>1. i \in 0..m /\ (i # 0 => i - 1 \in 0..(m + 1) /\ i - 1 # m + 1)
        BY <3>2
      <4>2. G[i] = f[i] /\ (i # 0 => G[i - 1] = f[i - 1])
        BY <3>2, <4>1
      <4> HIDE DEF G
      <4> QED
        BY <2>2, <4>1, <4>2
    <3> QED
      BY <3>1, <3>2
  <2>4. DOMAIN G = 0..(m + 1) /\ G = [i \in 0..(m + 1) |-> G[i]]
    OBVIOUS
  <2> HIDE DEF G
  <2>5. Recursion(G, m + 1)
    BY <2>3, <2>4, Zenon
  <2> QED
    BY <2>5
<1>6. Good(n)
  <2> HIDE DEF Good
  <2>1. SUFFICES ASSUME Bad # {} PROVE FALSE
    BY <1>1
  <2>2. PICK m \in Bad : \A y \in Bad : m <= y
    <3>1. Bad \subseteq Nat
      BY <1>1
    <3> HIDE DEF Bad
    <3> QED
      BY <2>1, <3>1, LeastNat
  <2>3. m - 1 \in Nat /\ m - 1 \in 0..n /\ m - 1 \notin Bad
    BY <1>1, <1>4, <2>2
  <2>4. Good((m - 1) + 1)
    BY <1>5, <2>3
  <2> QED
    BY <2>2, <2>4
<1>7. Recursion(F, n)
  BY <1>6, Zenon
<1> HIDE DEF F
<1>8. \A i \in 0..n : F[i] = IF i = 0 THEN EmptyTrie ELSE advance(i, F[i - 1])
  BY <1>7, Zenon
<1> DEFINE right == [i \in 0..n |-> IF TrieInv(operations, F[i], i) THEN "yes" ELSE "no"]
           yes == {"yes"}
<1>9. right[0] \in yes
  <2>1. F[0] = EmptyTrie /\ 0 \in 0..n
    BY <1>1, <1>8
  <2> QED
    BY <2>1, EmptyTrieRight
<1>10. ASSUME NEW i \in 1..n, right[i - 1] \in yes PROVE right[i] \in yes
  <2>1. i \in 0..n /\ i - 1 \in 0..n /\ i # 0
    BY <1>1
  <2>2. TrieInv(operations, F[i - 1], i - 1)
    BY <1>10, <2>1
  <2>3. TrieInv(operations, F[i], i)
    BY <1>3, <1>8, <2>1, <2>2
  <2> QED
    BY <2>1, <2>3
<1> HIDE DEF yes
<1>11. \A i \in 0..n : right[i] \in yes
  <2> HIDE DEF right
  <2> QED
    BY <1>1, <1>9, <1>10, StaysIn
<1>12. TrieInv(operations, F[n], n)
  BY <1>1, <1>11 DEF yes
<1> QED
  BY <1>2, <1>12 DEF n

-----------------------------------------------------------------------------
(* The parameters of a template: their values from some segment on.        *)

LastOf(S) == CHOOSE n \in S : \A k \in S : n >= k
Named(template, m, x) == {n \in (m + 1)..Len(template) : template[n] = Param(x)}
ParamNames(template, m) == {template[n].name : n \in {k \in (m + 1)..Len(template) : template[k].kind = "Param"}}
ValuesFrom(template, segments, m) ==
  [x \in ParamNames(template, m) |-> segments[LastOf(Named(template, m, x))]]

LEMMA LastIs ==
  ASSUME NEW n \in Nat, NEW S, S \subseteq 1..n, S # {}
  PROVE  LastOf(S) \in S /\ \A k \in S : LastOf(S) >= k
<1> DEFINE T == {n - i : i \in S}
<1>1. PICK s \in S : TRUE
  OBVIOUS
<1>2. T \subseteq Nat /\ n - s \in T
  BY <1>1
<1>3. PICK x \in T : \A y \in T : x <= y
  <2> HIDE DEF T
  <2> QED
    BY <1>2, LeastNat
<1>4. PICK m \in S : x = n - m
  BY <1>3
<1>5. ASSUME NEW k \in S PROVE m >= k
  <2>1. n - k \in T
    OBVIOUS
  <2>2. n - m <= n - k
    BY <1>3, <1>4, <2>1
  <2> QED
    BY <1>4, <2>2
<1> QED
  BY <1>4, <1>5, Zenon DEF LastOf

\* A matcher is the parameter of a name exactly if its kind and its name say so.
LEMMA ParamIs ==
  ASSUME NEW matcher \in Matchers, NEW x
  PROVE  matcher = Param(x) <=> matcher.kind = "Param" /\ matcher.name = x
BY DEF Matchers, Param

LEMMA NamesAre ==
  ASSUME NEW template \in Seq(Matchers), NEW m \in 0..Len(template), NEW x
  PROVE  x \in ParamNames(template, m) <=> Named(template, m, x) # {}
<1>1. \A n \in (m + 1)..Len(template) : template[n] \in Matchers
  OBVIOUS
<1>2. \A n \in (m + 1)..Len(template) :
        template[n] = Param(x) <=> template[n].kind = "Param" /\ template[n].name = x
  BY <1>1, ParamIs
<1> QED
  BY <1>2, Zenon DEF ParamNames, Named

\* A step back to segment m binds it, unless its parameter is bound again later.
LEMMA ValuesBind ==
  ASSUME NEW template \in Seq(Matchers), NEW segments, NEW m \in 0..(Len(template) - 1)
  PROVE  ValuesFrom(template, segments, m) =
           Bind(ValuesFrom(template, segments, m + 1), template[m + 1], segments[m + 1])
<1> DEFINE edge == template[m + 1]
           here == ValuesFrom(template, segments, m)
           deeper == ValuesFrom(template, segments, m + 1)
<1>1. edge \in Matchers /\ Len(template) \in Nat /\ m + 1 \in 0..Len(template) /\ m \in 0..Len(template)
  OBVIOUS
<1>2. (m + 1)..Len(template) = {m + 1} \cup (((m + 1) + 1)..Len(template)) /\ m + 1 \notin ((m + 1) + 1)..Len(template)
  BY <1>1
<1>3. ASSUME NEW x
      PROVE  Named(template, m, x) = Named(template, m + 1, x) \cup (IF edge = Param(x) THEN {m + 1} ELSE {})
  BY <1>2 DEF Named
<1>4. DOMAIN here = ParamNames(template, m) /\ DOMAIN deeper = ParamNames(template, m + 1)
  BY DEF ValuesFrom
<1>5. \A x \in ParamNames(template, m) : here[x] = segments[LastOf(Named(template, m, x))]
  BY DEF ValuesFrom
<1>6. \A x \in ParamNames(template, m + 1) : deeper[x] = segments[LastOf(Named(template, m + 1, x))]
  BY DEF ValuesFrom
<1>7. here = [x \in ParamNames(template, m) |-> here[x]] /\ deeper = [x \in ParamNames(template, m + 1) |-> deeper[x]]
  BY DEF ValuesFrom
<1> HIDE DEF here, deeper
<1>8. ASSUME NEW x
      PROVE  /\ x \in ParamNames(template, m) <=> Named(template, m, x) # {}
             /\ x \in ParamNames(template, m + 1) <=> Named(template, m + 1, x) # {}
             /\ edge = Param(x) <=> edge.kind = "Param" /\ edge.name = x
  BY <1>1, NamesAre, ParamIs
<1>9. ASSUME NEW x \in ParamNames(template, m + 1)
      PROVE  x \in ParamNames(template, m) /\ here[x] = deeper[x]
  <2>1. Named(template, m + 1, x) # {} /\ Named(template, m + 1, x) \subseteq 1..Len(template)
    BY <1>1, <1>8, <1>9 DEF Named
  <2>2. Named(template, m, x) # {} /\ Named(template, m, x) \subseteq 1..Len(template)
    BY <1>1, <1>3, <2>1 DEF Named
  <2>3. /\ LastOf(Named(template, m, x)) \in Named(template, m, x)
        /\ \A k \in Named(template, m, x) : LastOf(Named(template, m, x)) >= k
    BY <1>1, <2>2, LastIs
  <2>4. /\ LastOf(Named(template, m + 1, x)) \in Named(template, m + 1, x)
        /\ \A k \in Named(template, m + 1, x) : LastOf(Named(template, m + 1, x)) >= k
    BY <1>1, <2>1, LastIs
  <2>5. \A k \in Named(template, m + 1, x) : k \in Nat /\ k > m + 1
    BY <1>1 DEF Named
  <2>6. LastOf(Named(template, m, x)) = LastOf(Named(template, m + 1, x))
    BY <1>1, <1>3, <2>3, <2>4, <2>5
  <2> QED
    BY <1>5, <1>6, <1>8, <2>2, <2>6
<1>10. CASE edge.kind = "Literal" \/ edge.name \in ParamNames(template, m + 1)
  <2>1. ASSUME NEW x \in ParamNames(template, m) PROVE x \in ParamNames(template, m + 1)
    BY <1>3, <1>8, <1>10
  <2>2. ParamNames(template, m) = ParamNames(template, m + 1)
    BY <1>9, <2>1
  <2>3. here = deeper
    BY <1>7, <1>9, <2>2, Zenon
  <2> QED
    BY <1>4, <1>10, <2>3 DEF Bind, here, deeper
<1>11. CASE edge.kind = "Param" /\ edge.name \notin ParamNames(template, m + 1)
  <2>1. edge.kind # "Literal"
    BY <1>11
  <2>2. \A x : x \in ParamNames(template, m) <=> x \in ParamNames(template, m + 1) \cup {edge.name}
    BY <1>3, <1>8, <1>11
  <2>3. here[edge.name] = segments[m + 1]
    <3>1. Named(template, m, edge.name) = {m + 1}
      BY <1>3, <1>8, <1>11
    <3>2. LastOf(Named(template, m, edge.name)) = m + 1
      <4> DEFINE one == {m + 1}
      <4>1. one \subseteq 1..Len(template) /\ one # {}
        BY <1>1
      <4>2. LastOf(one) \in one
        <5> HIDE DEF one
        <5> QED
          BY <1>1, <4>1, LastIs
      <4> QED
        BY <3>1, <4>2
    <3> QED
      BY <1>5, <2>2, <3>2
  <2>4. ParamNames(template, m) = DOMAIN deeper \cup {edge.name}
    BY <1>4, <2>2
  <2>5. \A x \in ParamNames(template, m) : here[x] = IF x = edge.name THEN segments[m + 1] ELSE deeper[x]
    BY <1>9, <2>2, <2>3
  <2>6. here = [x \in DOMAIN deeper \cup {edge.name} |-> IF x = edge.name THEN segments[m + 1] ELSE deeper[x]]
    BY <1>7, <2>4, <2>5, Zenon
  <2> HIDE DEF edge
  <2>7. Bind(deeper, edge, segments[m + 1]) =
          [x \in DOMAIN deeper \cup {edge.name} |-> IF x = edge.name THEN segments[m + 1] ELSE deeper[x]]
    BY <1>4, <1>11, <2>1, Zenon DEF Bind
  <2> QED
    BY <2>6, <2>7, Zenon DEF here, deeper, edge
<1>12. edge.kind \in {"Literal", "Param"}
  BY <1>1 DEF Matchers
<1> QED
  BY <1>10, <1>11, <1>12

\* From the first segment on they are all the values, beyond the last there are none.
LEMMA ValuesEnds ==
  ASSUME NEW template \in Seq(Matchers), NEW segments
  PROVE  /\ ValuesFrom(template, segments, 0) = Values(template, segments)
         /\ ValuesFrom(template, segments, Len(template)) = NoParams
<1>1. DOMAIN template = (0 + 1)..Len(template)
  OBVIOUS
<1>2. ValuesFrom(template, segments, 0) = Values(template, segments)
  <2> DEFINE at(x) == {n \in DOMAIN template : template[n] = Param(x)}
             names == {template[n].name : n \in {k \in DOMAIN template : template[k].kind = "Param"}}
  <2>1. Values(template, segments) = [x \in names |-> segments[LastOf(at(x))]]
    BY Zenon DEF Values, LastOf
  <2>2. names = ParamNames(template, 0) /\ \A x : at(x) = Named(template, 0, x)
    BY <1>1 DEF ParamNames, Named
  <2> HIDE DEF at, names
  <2> QED
    BY <2>1, <2>2, Zenon DEF ValuesFrom
<1>3. ParamNames(template, Len(template)) = {}
  <2>1. (Len(template) + 1)..Len(template) = {}
    OBVIOUS
  <2> QED
    BY <2>1 DEF ParamNames
<1>4. ValuesFrom(template, segments, Len(template)) = NoParams
  BY <1>3, Zenon DEF ValuesFrom, NoParams
<1> QED
  BY <1>2, <1>4

-----------------------------------------------------------------------------
(* The walk, one step at a time.                                           *)

GoodEdges(trie, segment, node, deeper) ==
  {i \in DOMAIN trie.children[node] :
      /\ Takes(trie.children[node][i], segment)
      /\ deeper[Append(node, trie.children[node][i])] # {}}
ChosenEdge(edges, good) == CHOOSE i \in good : \A j \in good \ {i} : Before(edges, i, j)
Through(edge, segment, node, deeper) ==
  {[node |-> found.node, params |-> Bind(found.params, edge, segment)] : found \in deeper[Append(node, edge)]}
WalkStep(trie, method, segment, left, node, deeper) ==
  IF left = 0
  THEN IF At(trie, node, method) = {} THEN {} ELSE {[node |-> node, params |-> NoParams]}
  ELSE IF GoodEdges(trie, segment, node, deeper) = {} THEN {}
  ELSE Through(trie.children[node][ChosenEdge(trie.children[node], GoodEdges(trie, segment, node, deeper))],
               segment, node, deeper)
WalkRound(trie, segments, method, left, deeper) ==
  [node \in DOMAIN trie.children |->
      WalkStep(trie, method, segments[Len(segments) - left + 1], left, node, deeper)]

\* There are such rounds, and the walk is the last one.
LEMMA WalkIs ==
  ASSUME NEW trie, NEW segments, NEW method, Len(segments) \in Nat
  PROVE  \E W : /\ \A left \in 0..Len(segments) : W[left] = WalkRound(trie, segments, method, left, W[left - 1])
                /\ Walk(trie, segments, method) = W[Len(segments)][<<>>]
<1> DEFINE n == Len(segments)
           advance(i, deeper) == WalkRound(trie, segments, method, i, deeper)
           Recursion(f, m) == f = [i \in 0..m |-> advance(i, f[i - 1])]
           Good(m) == \E f : Recursion(f, m)
           Bad == {m \in 0..n : ~Good(m)}
           F == CHOOSE f : Recursion(f, n)
<1>1. n \in Nat
  OBVIOUS
<1>2. Walk(trie, segments, method) = F[n][<<>>]
  BY Zenon DEF Walk, WalkRound, WalkStep, GoodEdges, ChosenEdge, Through
<1>3. \A d, e : advance(0, d) = advance(0, e)
  <2> TAKE d, e
  <2>1. \A node : WalkStep(trie, method, segments[Len(segments) - 0 + 1], 0, node, d)
                    = WalkStep(trie, method, segments[Len(segments) - 0 + 1], 0, node, e)
    BY Zenon DEF WalkStep
  <2> QED
    BY <2>1, Zenon DEF WalkRound
<1>4. \A i : \A d : advance(i, d) = WalkRound(trie, segments, method, i, d)
  OBVIOUS
<1> HIDE DEF n, advance
<1>5. Good(0)
  <2> DEFINE G == [i \in 0..0 |-> advance(0, i)]
  <2>1. \A i \in 0..0 : i = 0 /\ G[i] = advance(0, 0)
    OBVIOUS
  <2>2. \A i \in 0..0 : G[i] = advance(i, G[i - 1])
    <3> HIDE DEF G
    <3> TAKE i \in 0..0
    <3>1. advance(i, G[i - 1]) = advance(0, 0)
      BY <1>3, <2>1
    <3> QED
      BY <2>1, <3>1
  <2>3. G = [i \in 0..0 |-> G[i]]
    OBVIOUS
  <2> HIDE DEF G
  <2>4. Recursion(G, 0)
    BY <2>2, <2>3, Zenon
  <2> QED
    BY <2>4
<1>6. ASSUME NEW m \in Nat, Good(m) PROVE Good(m + 1)
  <2>1. PICK f : Recursion(f, m)
    BY <1>6
  <2> DEFINE G == [i \in 0..(m + 1) |-> IF i = m + 1 THEN advance(m + 1, f[m]) ELSE f[i]]
  <2>2. \A i \in 0..m : f[i] = advance(i, f[i - 1])
    BY <2>1, Zenon
  <2>3. ASSUME NEW i \in 0..(m + 1)
        PROVE  G[i] = advance(i, G[i - 1])
    <3>1. CASE i = m + 1
      <4>1. i - 1 = m /\ m \in 0..(m + 1) /\ m # m + 1
        BY <3>1
      <4>2. G[i] = advance(i, f[m]) /\ G[i - 1] = f[m]
        BY <3>1, <4>1
      <4> HIDE DEF G
      <4> QED
        BY <4>2
    <3>2. CASE i # m + 1
      <4>1. i \in 0..m /\ (i # 0 => i - 1 \in 0..(m + 1) /\ i - 1 # m + 1)
        BY <3>2
      <4>2. G[i] = f[i] /\ (i # 0 => G[i - 1] = f[i - 1])
        BY <3>2, <4>1
      <4> HIDE DEF G
      <4>3. CASE i = 0
        BY <1>3, <2>2, <4>1, <4>2, <4>3
      <4>4. CASE i # 0
        BY <2>2, <4>1, <4>2, <4>4
      <4> QED
        BY <4>3, <4>4
    <3> QED
      BY <3>1, <3>2
  <2>4. DOMAIN G = 0..(m + 1) /\ G = [i \in 0..(m + 1) |-> G[i]]
    OBVIOUS
  <2> HIDE DEF G
  <2>5. Recursion(G, m + 1)
    BY <2>3, <2>4, Zenon
  <2> QED
    BY <2>5
<1>7. Good(n)
  <2> HIDE DEF Good
  <2>1. SUFFICES ASSUME Bad # {} PROVE FALSE
    BY <1>1
  <2>2. PICK m \in Bad : \A y \in Bad : m <= y
    <3>1. Bad \subseteq Nat
      BY <1>1
    <3> HIDE DEF Bad
    <3> QED
      BY <2>1, <3>1, LeastNat
  <2>3. m - 1 \in Nat /\ m - 1 \in 0..n /\ m - 1 \notin Bad
    BY <1>1, <1>5, <2>2
  <2>4. Good((m - 1) + 1)
    BY <1>6, <2>3
  <2> QED
    BY <2>2, <2>4
<1>8. Recursion(F, n)
  BY <1>7, Zenon
<1> HIDE DEF F
<1>9. \A i \in 0..n : F[i] = advance(i, F[i - 1])
  BY <1>8, Zenon
<1>10. \A left \in 0..n : F[left] = WalkRound(trie, segments, method, left, F[left - 1])
  BY <1>4, <1>9
<1> QED
  BY <1>2, <1>10 DEF n

\* Of some edges one comes first, a literal if there is one.
LEMMA FirstEdge ==
  ASSUME NEW edges \in Seq(Matchers), NEW good, good \subseteq DOMAIN edges, good # {}
  PROVE  ChosenEdge(edges, good) \in good /\ \A j \in good \ {ChosenEdge(edges, good)} : Before(edges, ChosenEdge(edges, good), j)
<1> DEFINE literal == {i \in good : edges[i].kind = "Literal"}
           from == IF literal # {} THEN literal ELSE good
<1>1. from # {} /\ from \subseteq good /\ good \subseteq Nat
  OBVIOUS
<1>2. PICK i \in from : \A j \in from : i <= j
  <2> HIDE DEF from
  <2> QED
    BY <1>1, LeastNat
<1>3. \A j \in good : edges[j].kind \in {"Literal", "Param"}
  <2>1. \A j \in good : edges[j] \in Matchers
    OBVIOUS
  <2>2. \A matcher \in Matchers : matcher.kind \in {"Literal", "Param"}
    BY DEF Matchers
  <2> QED
    BY <2>1, <2>2
<1>4. ASSUME NEW j \in good \ {i} PROVE Before(edges, i, j)
  <2>1. CASE literal # {}
    BY <1>1, <1>2, <2>1 DEF Before
  <2>2. CASE literal = {}
    BY <1>1, <1>2, <1>3, <2>2 DEF Before
  <2> QED
    BY <2>1, <2>2
<1>5. i \in good
  BY <1>1, <1>2
<1> QED
  BY <1>4, <1>5, Zenon DEF ChosenEdge

-----------------------------------------------------------------------------
(* From a node that fits the path so far, the walk finds the best of the   *)
(* operations whose templates start with it.                               *)

FitsSoFar(node, segments) ==
  /\ Len(node) <= Len(segments)
  /\ \A k \in 1..Len(node) : node[k].kind = "Param" \/ node[k] = Literal(segments[k])
Under(operations, method, segments, node) ==
  {i \in Answering(operations, method, segments) : Starts(node, operations[i].template)}
BestUnder(operations, method, segments, node, i) ==
  /\ i \in Under(operations, method, segments, node)
  /\ \A j \in Under(operations, method, segments, node) \ {i} : Preferred(operations, i, j)
FoundAt(operations, segments, i, m) ==
  [node |-> operations[i].template, params |-> ValuesFrom(operations[i].template, segments, m)]
Finds(operations, method, segments, node, found) ==
  IF Under(operations, method, segments, node) = {} THEN found = {}
  ELSE \E i : BestUnder(operations, method, segments, node, i) /\ found = {FoundAt(operations, segments, i, Len(node))}

\* Two templates that agree throughout are preferred in their order.
LEMMA PreferredSame ==
  ASSUME NEW operations, NEW i \in Nat, NEW j \in Nat, operations[i].template = operations[j].template
  PROVE  Preferred(operations, i, j) <=> i < j
<1>1. {n \in DOMAIN operations[i].template : operations[i].template[n] # operations[j].template[n]} = {}
  OBVIOUS
<1> QED
  BY <1>1, Zenon DEF Preferred

\* The operation that introduces a node is the first that declares it.
LEMMA IntroducedIs ==
  ASSUME NEW operations, Templated(operations), NEW i \in 1..Len(operations), NEW m \in Nat,
         m <= Len(operations[i].template), NEW node \in Seq(Matchers), Len(node) = m,
         Starts(node, operations[i].template)
  PROVE  /\ Introduced(operations, operations[i].template, m) \in Declaring(operations, node, Len(operations))
         /\ \A j \in Declaring(operations, node, Len(operations)) :
               Introduced(operations, operations[i].template, m) <= j
<1> DEFINE s == operations[i].template
           with == {j \in DOMAIN operations : /\ Len(operations[j].template) >= m
                                              /\ SubSeq(operations[j].template, 1, m) = SubSeq(s, 1, m)}
<1>1. /\ s \in Seq(Matchers) /\ Len(operations) \in Nat /\ DOMAIN operations = 1..Len(operations)
      /\ \A j \in DOMAIN operations : operations[j].template \in Seq(Matchers)
  BY TemplatesAre
<1>2. ASSUME NEW t \in Seq(Matchers)
      PROVE  Starts(node, t) <=> Len(t) >= m /\ SubSeq(t, 1, m) = node
  <2>1. CASE Len(t) >= m
    <3>1. /\ SubSeq(t, 1, m) \in Seq(Matchers) /\ Len(SubSeq(t, 1, m)) = m
          /\ \A k \in 1..m : SubSeq(t, 1, m)[k] = t[k]
      BY <2>1
    <3>2. SubSeq(t, 1, m) = node <=> \A k \in 1..m : node[k] = t[k]
      BY <3>1
    <3> QED
      BY <2>1, <3>2 DEF Starts
  <2>2. CASE ~(Len(t) >= m)
    BY <2>2 DEF Starts
  <2> QED
    BY <2>1, <2>2
<1>3. SubSeq(s, 1, m) = node
  BY <1>1, <1>2
<1>4. with = Declaring(operations, node, Len(operations))
  BY <1>1, <1>2, <1>3 DEF Declaring
<1>5. Introduced(operations, s, m) = CHOOSE a \in with : \A j \in with : a <= j
  BY Zenon DEF Introduced
<1>6. with # {} /\ with \subseteq Nat
  BY <1>1
<1> HIDE DEF with
<1>7. PICK a \in with : \A j \in with : a <= j
  BY <1>6, LeastNat
<1> QED
  BY <1>4, <1>5, <1>7, Zenon

\* Two operations whose templates part at a node are preferred as the edges they take.
LEMMA PreferredAtEdge ==
  ASSUME NEW operations, Templated(operations), NEW i \in 1..Len(operations), NEW j \in 1..Len(operations),
         NEW node \in Seq(Matchers), NEW edges, EdgesRight(operations, node, edges, Len(operations)),
         NEW a \in DOMAIN edges, NEW b \in DOMAIN edges, Before(edges, a, b),
         edges[a] # edges[b],
         Starts(Append(node, edges[a]), operations[i].template),
         Starts(Append(node, edges[b]), operations[j].template)
  PROVE  Preferred(operations, i, j)
<1> DEFINE s == operations[i].template
           t == operations[j].template
           m == Len(node) + 1
           differ == {n \in DOMAIN s : s[n] # t[n]}
<1>1. s \in Seq(Matchers) /\ t \in Seq(Matchers) /\ Len(operations) \in Nat
  BY TemplatesAre
<1>2. edges[a] \in Matchers /\ edges[b] \in Matchers
  BY DEF EdgesRight
<1>3. /\ Starts(node, s) /\ Len(node) < Len(s) /\ s[m] = edges[a]
      /\ Starts(node, t) /\ Len(node) < Len(t) /\ t[m] = edges[b]
  BY <1>1, <1>2, StartsLonger
<1>4. m \in differ /\ \A k \in differ : m <= k
  <2>1. m \in DOMAIN s
    BY <1>1, <1>3
  <2>2. \A k \in 1..Len(node) : s[k] = t[k]
    BY <1>3 DEF Starts
  <2>3. DOMAIN s \subseteq Nat \ {0} /\ Len(node) \in Nat
    BY <1>1
  <2> HIDE DEF s, t
  <2>4. m \in differ
    BY <1>3, <2>1
  <2>5. ASSUME NEW k \in differ PROVE m <= k
    <3>1. k \in Nat /\ k # 0 /\ k \notin 1..Len(node)
      BY <2>2, <2>3
    <3> QED
      BY <2>3, <3>1
  <2> QED
    BY <2>4, <2>5
<1>5. (CHOOSE n \in differ : \A k \in differ : n <= k) = m
  <2>1. differ \subseteq Nat
    BY <1>1
  <2> HIDE DEF differ, m
  <2>2. \A n \in differ : (\A k \in differ : n <= k) => n = m
    BY <1>4, <2>1
  <2> QED
    BY <1>4, <2>2, Zenon
<1>6. Preferred(operations, i, j) <=>
        IF s[m].kind # t[m].kind THEN s[m].kind = "Literal"
        ELSE Introduced(operations, s, m) < Introduced(operations, t, m)
  <2>1. Preferred(operations, i, j) <=>
           IF differ = {} THEN i < j
           ELSE IF s[CHOOSE n \in differ : \A k \in differ : n <= k].kind # t[CHOOSE n \in differ : \A k \in differ : n <= k].kind
           THEN s[CHOOSE n \in differ : \A k \in differ : n <= k].kind = "Literal"
           ELSE Introduced(operations, s, CHOOSE n \in differ : \A k \in differ : n <= k)
                  < Introduced(operations, t, CHOOSE n \in differ : \A k \in differ : n <= k)
    BY Zenon DEF Preferred
  <2> HIDE DEF differ, m, s, t
  <2> QED
    BY <1>4, <1>5, <2>1, Zenon
<1>7. CASE edges[a].kind # edges[b].kind
  BY <1>3, <1>6, <1>7 DEF Before
<1>8. CASE edges[a].kind = edges[b].kind
  <2>1. a < b
    BY <1>8 DEF Before
  <2>2. PICK x \in Declaring(operations, Append(node, edges[a]), Len(operations)) :
           \A y \in Declaring(operations, Append(node, edges[b]), Len(operations)) : x < y
    BY <2>1 DEF EdgesRight, Ahead
  <2>3. /\ Append(node, edges[a]) \in Seq(Matchers) /\ Len(Append(node, edges[a])) = m
        /\ Append(node, edges[b]) \in Seq(Matchers) /\ Len(Append(node, edges[b])) = m
        /\ m \in Nat /\ m <= Len(s) /\ m <= Len(t)
    BY <1>1, <1>2, <1>3
  <2>4. Introduced(operations, s, m) <= x
    BY <2>2, <2>3, IntroducedIs
  <2>5. Introduced(operations, t, m) \in Declaring(operations, Append(node, edges[b]), Len(operations))
    BY <2>3, IntroducedIs
  <2>6. Introduced(operations, s, m) \in Nat /\ Introduced(operations, t, m) \in Nat /\ x \in Nat
    <3>1. Introduced(operations, s, m) \in Declaring(operations, Append(node, edges[a]), Len(operations))
      BY <2>3, IntroducedIs
    <3> QED
      BY <2>2, <2>5, <3>1 DEF Declaring
  <2>7. Introduced(operations, s, m) < Introduced(operations, t, m)
    BY <2>2, <2>4, <2>5, <2>6
  <2> HIDE DEF s, t, m
  <2> QED
    BY <1>3, <1>6, <1>8, <2>7
<1> QED
  BY <1>7, <1>8

\* What is entered at a node are its operations, each with its method.
LEMMA AtIs ==
  ASSUME NEW operations, Templated(operations), NEW trie, TrieInv(operations, trie, Len(operations)),
         NEW node \in Nodes(operations, Len(operations)), NEW method
  PROVE  /\ \A k \in At(trie, node, method) :
               /\ trie.operations[node][k].index \in 1..Len(operations)
               /\ operations[trie.operations[node][k].index].template = node
               /\ operations[trie.operations[node][k].index].method = method
         /\ \A i \in 1..Len(operations) :
               operations[i].template = node /\ operations[i].method = method =>
                  \E k \in At(trie, node, method) : trie.operations[node][k].index = i
         /\ At(trie, node, method) \subseteq Nat
         /\ \A k, l \in At(trie, node, method) :
               k < l => trie.operations[node][k].index < trie.operations[node][l].index
<1> DEFINE entries == trie.operations[node]
<1>1. EntriesRight(operations, node, entries, Len(operations))
  BY DEF TrieInv
<1> HIDE DEF entries
<1>2. \A k \in DOMAIN entries : entries[k] \in Entries(operations) /\ k \in Nat
  BY <1>1 DEF EntriesRight
<1>3. \A k \in DOMAIN entries : entries[k].method = operations[entries[k].index].method
  BY <1>2 DEF Entries, Entry
<1>4. At(trie, node, method) = {k \in DOMAIN entries : entries[k].method = method}
  BY DEF At, entries
<1>5. \A i \in 1..Len(operations) :
        operations[i].template = node /\ operations[i].method = method =>
           \E k \in At(trie, node, method) : entries[k].index = i
  BY <1>1, <1>3, <1>4 DEF EntriesRight
<1>6. \A k \in At(trie, node, method) :
               /\ entries[k].index \in 1..Len(operations)
               /\ operations[entries[k].index].template = node
               /\ operations[entries[k].index].method = method
  BY <1>1, <1>3, <1>4 DEF EntriesRight
<1>7. \A k, l \in At(trie, node, method) : k < l => entries[k].index < entries[l].index
  BY <1>1, <1>4 DEF EntriesRight
<1>8. At(trie, node, method) \subseteq Nat
  BY <1>2, <1>4
<1> QED
  BY <1>5, <1>6, <1>7, <1>8 DEF entries

LEMMA UnderIs ==
  ASSUME NEW operations, Templated(operations), NEW method, NEW segments, NEW node
  PROVE  \A i : i \in Under(operations, method, segments, node) <=>
            /\ i \in 1..Len(operations) /\ operations[i].method = method
            /\ Fits(operations[i].template, segments) /\ Starts(node, operations[i].template)
BY TemplatesAre DEF Under, Answering

\* At the end of the path there is a match if the node has an operation for the method.
LEMMA WalkEnds ==
  ASSUME NEW operations, Templated(operations), NEW trie, TrieInv(operations, trie, Len(operations)),
         NEW method, NEW segments, Len(segments) \in Nat,
         NEW node \in Nodes(operations, Len(operations)), Len(node) = Len(segments), FitsSoFar(node, segments),
         NEW segment, NEW deeper
  PROVE  Finds(operations, method, segments, node, WalkStep(trie, method, segment, 0, node, deeper))
<1> DEFINE U == Under(operations, method, segments, node)
           at == At(trie, node, method)
<1>1. node \in Seq(Matchers) /\ \A i \in 1..Len(operations) : operations[i].template \in Seq(Matchers)
  BY TemplatesAre DEF Nodes
<1>2. Fits(node, segments)
  BY <1>1 DEF Fits, FitsSoFar
<1>3. ASSUME NEW i
      PROVE  i \in U <=> i \in 1..Len(operations) /\ operations[i].method = method /\ operations[i].template = node
  <2>1. i \in U <=> /\ i \in 1..Len(operations) /\ operations[i].method = method
                    /\ Fits(operations[i].template, segments) /\ Starts(node, operations[i].template)
    BY UnderIs
  <2>2. ASSUME i \in 1..Len(operations)
        PROVE  Fits(operations[i].template, segments) /\ Starts(node, operations[i].template)
                 <=> operations[i].template = node
    <3>1. Fits(operations[i].template, segments) => Len(operations[i].template) = Len(node)
      BY DEF Fits
    <3>2. operations[i].template \in Seq(Matchers)
      BY <1>1, <2>2
    <3>3. node = operations[i].template <=>
            Starts(node, operations[i].template) /\ Len(node) = Len(operations[i].template)
      BY <1>1, <3>2, StartsAre
    <3> QED
      BY <1>2, <3>1, <3>3
  <2> QED
    BY <2>1, <2>2
<1> HIDE DEF U, at
<1>4. WalkStep(trie, method, segment, 0, node, deeper) = IF at = {} THEN {} ELSE {[node |-> node, params |-> NoParams]}
  BY Zenon DEF WalkStep, at
<1>5. at = {} <=> U = {}
  <2>1. ASSUME NEW k \in at PROVE U # {}
    BY <1>3, <2>1, AtIs DEF at
  <2>2. ASSUME NEW i \in U PROVE at # {}
    <3>1. i \in 1..Len(operations) /\ operations[i].method = method /\ operations[i].template = node
      BY <1>3, <2>2
    <3> QED
      BY <3>1, AtIs DEF at
  <2> QED
    BY <2>1, <2>2
<1>6. CASE U = {}
  BY <1>4, <1>5, <1>6 DEF Finds, U
<1>7. CASE U # {}
  <2>1. U \subseteq Nat
    BY <1>3, TemplatesAre
  <2>2. PICK i \in U : \A j \in U : i <= j
    BY <1>7, <2>1, LeastNat
  <2>3. operations[i].template = node
    BY <1>3, <2>2
  <2>4. ASSUME NEW j \in U \ {i} PROVE Preferred(operations, i, j)
    <3>1. operations[j].template = operations[i].template /\ i < j /\ i \in Nat /\ j \in Nat
      BY <1>3, <2>1, <2>2, <2>3, <2>4
    <3> QED
      BY <3>1, PreferredSame
  <2>5. BestUnder(operations, method, segments, node, i)
    BY <2>2, <2>4 DEF BestUnder, U
  <2>6. FoundAt(operations, segments, i, Len(node)) = [node |-> node, params |-> NoParams]
    BY <1>1, <2>3, ValuesEnds DEF FoundAt
  <2>7. WalkStep(trie, method, segment, 0, node, deeper) = {FoundAt(operations, segments, i, Len(node))}
    BY <1>4, <1>5, <1>7, <2>6
  <2> QED
    BY <1>7, <2>5, <2>7, Zenon DEF Finds, U
<1> QED
  BY <1>6, <1>7

LEMMA AppendIs ==
  ASSUME NEW node \in Seq(Matchers), NEW edge \in Matchers
  PROVE  /\ Append(node, edge)[Len(node) + 1] = edge
         /\ \A m \in 1..Len(node) : Append(node, edge)[m] = node[m]
OBVIOUS

\* Before the end the first good edge leads to the best match below the node.
LEMMA WalkGoesOn ==
  ASSUME NEW operations, Templated(operations), NEW trie, TrieInv(operations, trie, Len(operations)),
         NEW method, NEW segments, Len(segments) \in Nat, NEW left \in 1..Len(segments),
         NEW node \in Nodes(operations, Len(operations)), Len(node) = Len(segments) - left,
         FitsSoFar(node, segments), NEW deeper,
         \A child \in Nodes(operations, Len(operations)) :
            Len(child) = Len(node) + 1 /\ FitsSoFar(child, segments) =>
               Finds(operations, method, segments, child, deeper[child])
  PROVE  Finds(operations, method, segments, node,
               WalkStep(trie, method, segments[Len(node) + 1], left, node, deeper))
<1> DEFINE N == Len(operations)
           segment == segments[Len(node) + 1]
           edges == trie.children[node]
           child(k) == Append(node, edges[k])
           under(x) == Under(operations, method, segments, x)
           good == GoodEdges(trie, segment, node, deeper)
<1>1. /\ node \in Seq(Matchers) /\ Len(node) \in Nat /\ Len(node) < Len(segments)
      /\ \A i \in 1..N : operations[i].template \in Seq(Matchers)
  BY TemplatesAre DEF Nodes
<1>2. EdgesRight(operations, node, edges, N)
  BY DEF TrieInv
<1> HIDE DEF edges
<1>3. \A k \in DOMAIN edges : edges[k] \in Matchers /\ edges[k] \in Range(edges)
  BY <1>2 DEF EdgesRight, Range
<1>4. ASSUME NEW k \in DOMAIN edges
      PROVE  /\ child(k) \in Nodes(operations, N) /\ Len(child(k)) = Len(node) + 1
             /\ child(k)[Len(node) + 1] = edges[k]
             /\ \A m \in 1..Len(node) : child(k)[m] = node[m]
             /\ \A t \in Seq(Matchers) : Starts(child(k), t) <=>
                   Starts(node, t) /\ Len(node) < Len(t) /\ t[Len(node) + 1] = edges[k]
  <2>1. edges[k] \in Matchers /\ Declaring(operations, child(k), N) # {}
    BY <1>2, <1>3 DEF EdgesRight
  <2>2. child(k) \in Seq(Matchers) /\ Len(child(k)) = Len(node) + 1
    BY <1>1, <2>1
  <2>3. child(k)[Len(node) + 1] = edges[k] /\ \A m \in 1..Len(node) : child(k)[m] = node[m]
    BY <1>1, <2>1, AppendIs
  <2>4. \A t \in Seq(Matchers) : Starts(child(k), t) <=>
           Starts(node, t) /\ Len(node) < Len(t) /\ t[Len(node) + 1] = edges[k]
    BY <1>1, <2>1, StartsLonger
  <2>5. child(k) \in Nodes(operations, N)
    BY <2>1, <2>2 DEF Nodes
  <2> QED
    BY <2>2, <2>3, <2>4, <2>5
<1> HIDE DEF child, N
<1>5. ASSUME NEW k \in DOMAIN edges, Takes(edges[k], segment)
      PROVE  FitsSoFar(child(k), segments)
  <2>1. edges[k].kind = "Param" \/ edges[k] = Literal(segments[Len(node) + 1])
    BY <1>5 DEF Takes
  <2>2. 1..(Len(node) + 1) = 1..Len(node) \cup {Len(node) + 1}
    BY <1>1
  <2>3. \A m \in 1..Len(node) : node[m].kind = "Param" \/ node[m] = Literal(segments[m])
    BY DEF FitsSoFar
  <2>4. \A m \in 1..(Len(node) + 1) : child(k)[m].kind = "Param" \/ child(k)[m] = Literal(segments[m])
    <3> TAKE m \in 1..(Len(node) + 1)
    <3>1. CASE m \in 1..Len(node)
      BY <1>4, <2>3, <3>1
    <3>2. CASE m = Len(node) + 1
      BY <1>4, <2>1, <3>2
    <3> QED
      BY <2>2, <3>1, <3>2
  <2> QED
    BY <1>1, <1>4, <2>4 DEF FitsSoFar
<1>6. ASSUME NEW i \in under(node)
      PROVE  \E k \in DOMAIN edges : Takes(edges[k], segment) /\ i \in under(child(k))
  <2> DEFINE t == operations[i].template
             edge == t[Len(node) + 1]
  <2>1. i \in 1..N /\ operations[i].method = method /\ Fits(t, segments) /\ Starts(node, t)
    BY UnderIs DEF N
  <2>2. t \in Seq(Matchers) /\ Len(t) = Len(segments)
    BY <1>1, <2>1 DEF Fits
  <2> HIDE DEF t
  <2>3. Len(node) + 1 \in DOMAIN t /\ edge \in Matchers
    BY <1>1, <2>2
  <2> HIDE DEF edge
  <2>4. Starts(Append(node, edge), t)
    BY <1>1, <2>1, <2>2, <2>3, StartsLonger DEF edge
  <2>5. edge \in Range(edges)
    BY <1>2, <2>1, <2>3, <2>4 DEF EdgesRight, Declaring, t
  <2>6. PICK k \in DOMAIN edges : edges[k] = edge
    BY <2>5 DEF Range
  <2>7. edge.kind = "Param" \/ edge = Literal(segment)
    BY <2>1, <2>3 DEF Fits, edge
  <2>8. Takes(edges[k], segment)
    BY <2>6, <2>7 DEF Takes
  <2>9. i \in under(child(k))
    BY <2>1, <2>4, <2>6, UnderIs DEF child, N, t
  <2> QED
    BY <2>8, <2>9
<1>7. ASSUME NEW k \in DOMAIN edges, NEW i \in under(child(k))
      PROVE  i \in under(node) /\ Starts(child(k), operations[i].template) /\ operations[i].template[Len(node) + 1] = edges[k]
  <2>1. /\ i \in 1..N /\ operations[i].method = method /\ Fits(operations[i].template, segments)
        /\ Starts(child(k), operations[i].template)
    BY UnderIs DEF N
  <2>2. Starts(node, operations[i].template) /\ operations[i].template[Len(node) + 1] = edges[k]
    BY <1>1, <1>4, <2>1
  <2> QED
    BY <2>1, <2>2, UnderIs DEF N
<1>8. good = {k \in DOMAIN edges : Takes(edges[k], segment) /\ deeper[child(k)] # {}}
  BY DEF GoodEdges, edges, child
<1> HIDE DEF good, under
<1>9. ASSUME NEW k \in DOMAIN edges, Takes(edges[k], segment)
      PROVE  /\ Finds(operations, method, segments, child(k), deeper[child(k)])
             /\ k \in good <=> under(child(k)) # {}
  <2>1. Finds(operations, method, segments, child(k), deeper[child(k)])
    BY <1>4, <1>5, <1>9 DEF N
  <2>2. deeper[child(k)] # {} <=> under(child(k)) # {}
    BY <2>1 DEF Finds, under
  <2> QED
    BY <1>8, <1>9, <2>1, <2>2
<1>10. WalkStep(trie, method, segment, left, node, deeper) =
         IF good = {} THEN {} ELSE Through(edges[ChosenEdge(edges, good)], segment, node, deeper)
  <2>1. left # 0
    OBVIOUS
  <2> QED
    BY <2>1, Zenon DEF WalkStep, good, edges
<1>11. CASE good = {}
  <2>1. under(node) = {}
    BY <1>6, <1>9, <1>11
  <2> QED
    BY <1>10, <1>11, <2>1 DEF Finds, under
<1>12. CASE good # {}
  <2> DEFINE a == ChosenEdge(edges, good)
  <2>1. good \subseteq DOMAIN edges /\ edges \in Seq(Matchers)
    BY <1>2, <1>8 DEF EdgesRight
  <2>2. a \in good /\ \A b \in good \ {a} : Before(edges, a, b)
    BY <1>12, <2>1, FirstEdge
  <2> HIDE DEF a
  <2>3. a \in DOMAIN edges /\ Takes(edges[a], segment) /\ under(child(a)) # {}
    BY <1>8, <1>9, <2>2
  <2>4. Finds(operations, method, segments, child(a), deeper[child(a)])
    BY <1>9, <2>3
  <2>5. PICK i : /\ BestUnder(operations, method, segments, child(a), i)
                 /\ deeper[child(a)] = {FoundAt(operations, segments, i, Len(child(a)))}
    BY <2>3, <2>4, Zenon DEF Finds, under
  <2>6. i \in under(child(a)) /\ \A j \in under(child(a)) \ {i} : Preferred(operations, i, j)
    BY <2>5 DEF BestUnder, under
  <2>7. /\ i \in under(node) /\ i \in 1..N /\ Starts(child(a), operations[i].template)
        /\ operations[i].template[Len(node) + 1] = edges[a]
    BY <1>7, <2>3, <2>6, UnderIs DEF under, N
  <2>8. ASSUME NEW j \in under(node) \ {i} PROVE Preferred(operations, i, j)
    <3>1. PICK b \in DOMAIN edges : Takes(edges[b], segment) /\ j \in under(child(b))
      BY <1>6
    <3>2. b \in good
      BY <1>9, <3>1
    <3>3. CASE edges[b] = edges[a]
      BY <2>6, <2>8, <3>1, <3>3 DEF child
    <3>4. CASE edges[b] # edges[a]
      <4>1. Before(edges, a, b)
        BY <2>2, <3>2, <3>4
      <4>2. Starts(child(b), operations[j].template) /\ j \in 1..N
        BY <1>7, <3>1, UnderIs DEF under, N
      <4> QED
        BY <1>1, <1>2, <2>3, <2>7, <3>4, <4>1, <4>2, PreferredAtEdge DEF child, N
    <3> QED
      BY <3>3, <3>4
  <2>9. BestUnder(operations, method, segments, node, i)
    BY <2>7, <2>8 DEF BestUnder, under
  <2> DEFINE t == operations[i].template
             m == Len(node)
  <2>10. t \in Seq(Matchers) /\ m \in 0..(Len(t) - 1)
    <3>1. t \in Seq(Matchers)
      BY <1>1, <2>7
    <3>2. Starts(child(a), t) /\ Len(child(a)) = m + 1
      BY <1>4, <2>3, <2>7
    <3> QED
      BY <1>1, <3>1, <3>2 DEF Starts
  <2>11. ValuesFrom(t, segments, m) = Bind(ValuesFrom(t, segments, m + 1), edges[a], segment)
    BY <2>7, <2>10, ValuesBind
  <2>12. Through(edges[a], segment, node, deeper) = {FoundAt(operations, segments, i, m)}
    <3> DEFINE found == FoundAt(operations, segments, i, m + 1)
    <3>1. deeper[Append(node, edges[a])] = {found}
      BY <1>4, <2>3, <2>5 DEF child
    <3>2. found.node = t /\ found.params = ValuesFrom(t, segments, m + 1)
      BY DEF FoundAt
    <3>3. FoundAt(operations, segments, i, m) = [node |-> t, params |-> ValuesFrom(t, segments, m)]
      BY DEF FoundAt
    <3> HIDE DEF found, t, m
    <3>4. Through(edges[a], segment, node, deeper) =
            {[node |-> found.node, params |-> Bind(found.params, edges[a], segment)]}
      BY <3>1 DEF Through
    <3> QED
      BY <2>11, <3>2, <3>3, <3>4
  <2>13. under(node) # {}
    BY <2>7
  <2> QED
    BY <1>10, <1>12, <2>9, <2>12, <2>13, Zenon DEF Finds, under, a
<1> QED
  BY <1>11, <1>12

\* The walk finds the best of all operations that answer, with its parameters.
LEMMA WalkRight ==
  ASSUME NEW operations, Templated(operations), NEW trie, TrieInv(operations, trie, Len(operations)),
         NEW method, NEW segments, Len(segments) \in Nat
  PROVE  Finds(operations, method, segments, <<>>, Walk(trie, segments, method))
<1> DEFINE N == Len(operations)
           n == Len(segments)
           Right(left, result) ==
             \A node \in Nodes(operations, N) :
                Len(node) = n - left /\ FitsSoFar(node, segments) =>
                   Finds(operations, method, segments, node, result[node])
<1>1. PICK W : /\ \A left \in 0..n : W[left] = WalkRound(trie, segments, method, left, W[left - 1])
               /\ Walk(trie, segments, method) = W[n][<<>>]
  BY WalkIs
<1>2. DOMAIN trie.children = Nodes(operations, N)
  BY DEF TrieInv
<1>3. \A left \in 0..n : \A node \in Nodes(operations, N) :
        W[left][node] = WalkStep(trie, method, segments[n - left + 1], left, node, W[left - 1])
  <2> TAKE left \in 0..n
  <2>1. W[left] = WalkRound(trie, segments, method, left, W[left - 1])
    BY <1>1
  <2> QED
    BY <1>2, <2>1 DEF WalkRound
<1>4. Right(0, W[0])
  <2> SUFFICES ASSUME NEW node \in Nodes(operations, N), Len(node) = n - 0, FitsSoFar(node, segments)
               PROVE  Finds(operations, method, segments, node, W[0][node])
    OBVIOUS
  <2>1. W[0][node] = WalkStep(trie, method, segments[n - 0 + 1], 0, node, W[0 - 1])
    BY <1>3
  <2> QED
    BY <2>1, WalkEnds
<1>5. ASSUME NEW left \in 1..n, Right(left - 1, W[left - 1]) PROVE Right(left, W[left])
  <2> SUFFICES ASSUME NEW node \in Nodes(operations, N), Len(node) = n - left, FitsSoFar(node, segments)
               PROVE  Finds(operations, method, segments, node, W[left][node])
    OBVIOUS
  <2>1. W[left][node] = WalkStep(trie, method, segments[n - left + 1], left, node, W[left - 1])
    BY <1>3
  <2>2. \A child \in Nodes(operations, N) : Len(child) = Len(node) + 1 /\ FitsSoFar(child, segments) =>
           Finds(operations, method, segments, child, W[left - 1][child])
    BY <1>5
  <2> QED
    BY <2>1, <2>2, WalkGoesOn
<1> HIDE DEF Right
<1> DEFINE right == [left \in 0..n |-> IF Right(left, W[left]) THEN "yes" ELSE "no"]
           yes == {"yes"}
<1>6. right[0] \in yes
  BY <1>4
<1>7. ASSUME NEW left \in 1..n, right[left - 1] \in yes PROVE right[left] \in yes
  <2>1. left \in 0..n /\ left - 1 \in 0..n
    OBVIOUS
  <2>2. Right(left - 1, W[left - 1])
    BY <1>7, <2>1
  <2> QED
    BY <1>5, <2>1, <2>2
<1> HIDE DEF yes
<1>8. \A left \in 0..n : right[left] \in yes
  <2> HIDE DEF right
  <2> QED
    BY <1>6, <1>7, StaysIn
<1>9. Right(n, W[n])
  BY <1>8 DEF yes
<1>10. <<>> \in Nodes(operations, N) /\ Len(<<>>) = n - n /\ FitsSoFar(<<>>, segments)
  BY DEF Nodes, FitsSoFar
<1> QED
  BY <1>1, <1>9, <1>10 DEF Right

\* match_route finds an operation exactly if one answers; it is the best, and its
\* parameters have the values of the path.
LEMMA MatchRouteRight ==
  ASSUME NEW operations, Templated(operations), NEW method, NEW segments, Len(segments) \in Nat
  PROVE  /\ MatchRoute(Build(operations), method, segments) = {} =>
              /\ Answering(operations, method, segments) = {}
              /\ BestMatch(operations, method, segments) = {}
         /\ \A found \in MatchRoute(Build(operations), method, segments) :
               /\ found.index \in 1..Len(operations)
               /\ found.index \in BestMatch(operations, method, segments)
               /\ found.params = Values(operations[found.index].template, segments)
<1> DEFINE trie == Build(operations)
           answering == Answering(operations, method, segments)
           walk == Walk(trie, segments, method)
           first(node) == CHOOSE i \in At(trie, node, method) : \A j \in At(trie, node, method) : i <= j
           match == {[index |-> trie.operations[found.node][first(found.node)].index, params |-> found.params] :
                       found \in walk}
<1>1. TrieInv(operations, trie, Len(operations))
  BY BuildRight
<1> HIDE DEF trie
<1>2. Finds(operations, method, segments, <<>>, walk)
  BY <1>1, WalkRight
<1>3. MatchRoute(trie, method, segments) = match
  BY Zenon DEF MatchRoute
<1>4. \A i \in 1..Len(operations) : operations[i].template \in Seq(Matchers)
  BY TemplatesAre
<1>5. answering \subseteq 1..Len(operations) /\ Len(operations) \in Nat
  BY TemplatesAre DEF Answering
<1>6. Under(operations, method, segments, <<>>) = answering
  <2>1. \A i \in answering : Starts(<<>>, operations[i].template)
    BY <1>4, <1>5 DEF Starts
  <2> QED
    BY <2>1 DEF Under
<1> HIDE DEF walk, answering
<1>7. CASE answering = {}
  <2>1. walk = {} /\ BestMatch(operations, method, segments) = {}
    BY <1>2, <1>6, <1>7 DEF Finds, BestMatch, answering
  <2> QED
    BY <1>3, <1>7, <2>1 DEF trie, answering
<1>8. CASE answering # {}
  <2>1. PICK i : /\ BestUnder(operations, method, segments, <<>>, i)
                 /\ walk = {FoundAt(operations, segments, i, Len(<<>>))}
    BY <1>2, <1>6, <1>8, Zenon DEF Finds
  <2>2. i \in answering /\ \A j \in answering \ {i} : Preferred(operations, i, j)
    BY <1>6, <2>1 DEF BestUnder
  <2>3. i \in BestMatch(operations, method, segments)
    BY <2>2 DEF BestMatch, answering
  <2> DEFINE node == operations[i].template
             at == At(trie, node, method)
             entries == trie.operations[node]
  <2>4. i \in 1..Len(operations) /\ operations[i].method = method /\ Fits(node, segments) /\ node \in Seq(Matchers)
    BY <1>4, <1>5, <2>2 DEF Answering, answering
  <2>5. node \in Nodes(operations, Len(operations))
    <3>1. Starts(node, node)
      BY <2>4, StartsAre
    <3>2. i \in Declaring(operations, node, Len(operations))
      BY <2>4, <3>1 DEF Declaring
    <3> QED
      BY <2>4, <3>2 DEF Nodes
  <2>6. walk = {[node |-> node, params |-> Values(node, segments)]} /\ operations[i].template = node
    BY <2>1, <2>4, ValuesEnds DEF FoundAt
  <2> HIDE DEF node
  <2>7. /\ at \subseteq Nat
        /\ \A k \in at : /\ entries[k].index \in 1..Len(operations)
                         /\ operations[entries[k].index].template = node
                         /\ operations[entries[k].index].method = method
        /\ \A k, l \in at : k < l => entries[k].index < entries[l].index
    BY <1>1, <2>5, AtIs
  <2>8. PICK b \in at : entries[b].index = i
    BY <1>1, <2>4, <2>5, <2>6, AtIs
  <2> HIDE DEF at, entries
  <2> DEFINE a == first(node)
  <2>9. a \in at /\ \A k \in at : a <= k
    <3>1. PICK x \in at : \A k \in at : x <= k
      BY <2>7, <2>8, LeastNat
    <3> QED
      BY <3>1, Zenon DEF at
  <2> HIDE DEF first
  <2>10. entries[a].index = i
    <3>1. CASE a = b
      BY <2>8, <3>1
    <3>2. CASE a # b
      <4>1. entries[a].index < i
        <5> HIDE DEF a
        <5>1. a < b
          BY <2>7, <2>8, <2>9, <3>2
        <5> QED
          BY <2>7, <2>8, <2>9, <5>1
      <4> DEFINE j == entries[a].index
      <4>2. j \in 1..Len(operations) /\ operations[j].template = node /\ operations[j].method = method
        BY <2>7, <2>9
      <4>3. j \in answering /\ j # i
        BY <1>5, <2>4, <4>1, <4>2, TemplatesAre DEF Answering, answering
      <4> HIDE DEF j
      <4>4. Preferred(operations, i, j) <=> i < j
        BY <1>5, <2>4, <4>2, PreferredSame DEF node
      <4> QED
        BY <1>5, <2>2, <2>4, <4>1, <4>2, <4>3, <4>4 DEF j
    <3> QED
      BY <3>1, <3>2
  <2>11. match = {[index |-> i, params |-> Values(node, segments)]}
    BY <2>6, <2>10 DEF entries
  <2>12. MatchRoute(Build(operations), method, segments) = {[index |-> i, params |-> Values(node, segments)]}
    BY <1>3, <2>11 DEF trie
  <2>13. \A found \in MatchRoute(Build(operations), method, segments) :
            found.index = i /\ found.params = Values(node, segments)
    BY <2>12
  <2> QED
    BY <2>3, <2>4, <2>6, <2>12, <2>13
<1> QED
  BY <1>7, <1>8

\* No route is found exactly if no operation answers.
LEMMA MatchRouteIf ==
  ASSUME NEW operations, Templated(operations), NEW method, NEW segments, Len(segments) \in Nat
  PROVE  MatchRoute(Build(operations), method, segments) = {} <=> Answering(operations, method, segments) = {}
<1>1. \A found \in MatchRoute(Build(operations), method, segments) :
         found.index \in Answering(operations, method, segments)
  BY MatchRouteRight DEF BestMatch
<1> QED
  BY <1>1, MatchRouteRight

-----------------------------------------------------------------------------
(* The OpenAPI document: the parts of an operation.                        *)

\* The places of some members of s that f lists, in their order.
Lists(f, k, s, places) ==
  /\ k \in Nat /\ f \in [1..k -> places]
  /\ \A i, j \in 1..k : i < j => f[i] < f[j]
  /\ \A a \in places : \E i \in 1..k : f[i] = a
Sieved(kept, s, S, n) ==
  \E f : /\ Lists(f, Len(kept), s, {a \in 1..n : s[a] \in S})
         /\ \A i \in 1..Len(kept) : kept[i] = s[f[i]]

\* Sieve is the list of those members of a sequence that lie in a set, each from its place.
\* That the order stays matters where the last parameter of a kind counts.
LEMMA SieveIs ==
  ASSUME NEW X, NEW s \in Seq(X), NEW S
  PROVE  Sieve(s, S) \in Seq(X) /\ Sieved(Sieve(s, S), s, S, Len(s))
<1> DEFINE n == Len(s)
           next == [i \in 1..n |-> [kept \in Seq(X) |-> IF s[i] \in S THEN Append(kept, s[i]) ELSE kept]]
           Recursion(F) == F = [i \in 0..n |-> IF i = 0 THEN <<>>
                                              ELSE IF s[i] \in S THEN Append(F[i - 1], s[i]) ELSE F[i - 1]]
           kept == CHOOSE F : Recursion(F)
<1>1. n \in Nat /\ \A i \in 1..n : s[i] \in X
  OBVIOUS
<1>2. Sieve(s, S) = kept[n]
  BY Zenon DEF Sieve
<1>3. PICK F \in [0..n -> Seq(X)] : Iterates(F, <<>>, next, n)
  <2>1. next \in [1..n -> [Seq(X) -> Seq(X)]]
    BY <1>1
  <2>2. <<>> \in Seq(X)
    OBVIOUS
  <2> HIDE DEF n, next
  <2> QED
    BY <1>1, <2>1, <2>2, IterationExists
<1> HIDE DEF n
<1>4. \A i \in 1..n : F[i - 1] \in Seq(X) /\ i - 1 \in 0..n /\ i \in 0..n /\ i # 0
  BY <1>1
<1>5. Recursion(F)
  <2>1. \A i \in 0..n : (IF i = 0 THEN <<>> ELSE next[i][F[i - 1]])
           = IF i = 0 THEN <<>> ELSE IF s[i] \in S THEN Append(F[i - 1], s[i]) ELSE F[i - 1]
    BY <1>1, <1>4
  <2> HIDE DEF next
  <2> QED
    BY <1>3, <2>1, Zenon DEF Iterates
<1>6. Recursion(kept)
  BY <1>5, Zenon
<1> HIDE DEF kept, next
<1>7. kept[0] = <<>> /\ \A i \in 1..n : kept[i] = IF s[i] \in S THEN Append(kept[i - 1], s[i]) ELSE kept[i - 1]
  <2>1. 0 \in 0..n
    BY <1>1
  <2>2. \A i \in 0..n : kept[i] = IF i = 0 THEN <<>>
                                  ELSE IF s[i] \in S THEN Append(kept[i - 1], s[i]) ELSE kept[i - 1]
    BY <1>6, Zenon
  <2> QED
    BY <1>4, <2>1, <2>2
<1> DEFINE Right(i) == kept[i] \in Seq(X) /\ Sieved(kept[i], s, S, i)
           right == [i \in 0..n |-> IF Right(i) THEN "yes" ELSE "no"]
           yes == {"yes"}
<1>8. Right(0)
  <2>1. Lists(<<>>, 0, s, {a \in 1..0 : s[a] \in S})
    BY DEF Lists
  <2> QED
    BY <1>7, <2>1 DEF Sieved
<1>9. ASSUME NEW i \in 1..n, Right(i - 1) PROVE Right(i)
  <2> DEFINE old == kept[i - 1]
             m == Len(old)
             places(j) == {a \in 1..j : s[a] \in S}
  <2>1. PICK f : Lists(f, m, s, places(i - 1)) /\ \A j \in 1..m : old[j] = s[f[j]]
    BY <1>9 DEF Sieved
  <2>2. old \in Seq(X) /\ m \in Nat /\ s[i] \in X
    BY <1>1, <1>9
  <2>3. CASE s[i] \notin S
    <3>1. places(i) = places(i - 1)
      BY <1>1, <2>3
    <3>2. kept[i] = old
      BY <1>7, <2>3
    <3> QED
      BY <2>1, <2>2, <3>1, <3>2 DEF Sieved
  <2>4. CASE s[i] \in S
    <3> DEFINE g == [j \in 1..(m + 1) |-> IF j = m + 1 THEN i ELSE f[j]]
    <3>1. places(i) = places(i - 1) \cup {i}
      BY <1>1, <2>4
    <3>2. /\ kept[i] = Append(old, s[i]) /\ kept[i] \in Seq(X) /\ Len(kept[i]) = m + 1
          /\ kept[i][m + 1] = s[i] /\ \A j \in 1..m : kept[i][j] = old[j]
      <4>1. kept[i] = Append(old, s[i])
        BY <1>7, <2>4
      <4> HIDE DEF old
      <4> QED
        BY <2>2, <4>1
    <3>3. /\ f \in [1..m -> places(i - 1)]
          /\ \A j \in 1..m : f[j] \in places(i - 1) /\ f[j] \in Nat /\ f[j] < i
      <4>1. f \in [1..m -> places(i - 1)]
        BY <2>1, Zenon DEF Lists
      <4>2. \A a \in places(i - 1) : a \in Nat /\ a < i
        BY <1>1
      <4> HIDE DEF places, m
      <4> QED
        BY <4>1, <4>2
    <3>4. \A j \in 1..m : g[j] = f[j] /\ j \in 1..(m + 1)
      BY <2>2
    <3>5. g[m + 1] = i /\ 1..(m + 1) = 1..m \cup {m + 1} /\ m + 1 \in 1..(m + 1)
      BY <2>2
    <3>6. \A j \in 1..(m + 1) : g[j] \in places(i)
      <4> HIDE DEF g, places
      <4> QED BY <3>1, <3>3, <3>4, <3>5
    <3>7. g \in [1..(m + 1) -> places(i)]
      <4> HIDE DEF places
      <4> QED BY <3>6
    <3> HIDE DEF g
    <3>8. \A j, k \in 1..(m + 1) : j < k => g[j] < g[k]
      <4>1. \A j, k \in 1..m : j < k => f[j] < f[k]
        BY <2>1 DEF Lists
      <4>2. ASSUME NEW j \in 1..(m + 1), NEW k \in 1..(m + 1), j < k PROVE g[j] < g[k]
        <5> HIDE DEF m
        <5>1. j \in 1..m /\ (k \in 1..m \/ k = m + 1)
          BY <2>2, <4>2
        <5>2. CASE k \in 1..m
          BY <3>4, <4>1, <4>2, <5>1, <5>2
        <5>3. CASE k = m + 1
          <6>1. g[k] = i /\ g[j] = f[j] /\ f[j] < i
            BY <3>3, <3>4, <3>5, <5>1, <5>3
          <6> QED
            BY <6>1
        <5> QED
          BY <5>1, <5>2, <5>3
      <4> QED
        BY <4>2
    <3>9. \A a \in places(i) : \E j \in 1..(m + 1) : g[j] = a
      <4>1. \A a \in places(i - 1) : \E j \in 1..m : f[j] = a
        BY <2>1 DEF Lists
      <4> HIDE DEF places
      <4> QED
        BY <3>1, <3>4, <3>5, <4>1
    <3>10. \A j \in 1..(m + 1) : kept[i][j] = s[g[j]]
      BY <2>1, <3>2, <3>4, <3>5
    <3>11. Lists(g, m + 1, s, places(i))
      BY <2>2, <3>7, <3>8, <3>9 DEF Lists
    <3> QED
      BY <3>2, <3>10, <3>11 DEF Sieved
  <2> QED
    BY <2>3, <2>4
<1> HIDE DEF Right
<1>10. right[0] \in yes
  BY <1>1, <1>8
<1>11. ASSUME NEW i \in 1..n, right[i - 1] \in yes PROVE right[i] \in yes
  <2>1. Right(i - 1)
    BY <1>4, <1>11
  <2> QED
    BY <1>4, <1>9, <2>1
<1> HIDE DEF yes
<1>12. \A i \in 0..n : right[i] \in yes
  <2> HIDE DEF right
  <2> QED
    BY <1>1, <1>10, <1>11, StaysIn
<1>13. Right(n)
  BY <1>1, <1>12 DEF yes
<1> QED
  BY <1>2, <1>13 DEF Right, n

\* Sieve keeps the members that lie in the set, and no other.
LEMMA SieveKeeps ==
  ASSUME NEW X, NEW s \in Seq(X), NEW S
  PROVE  /\ Sieve(s, S) \in Seq(X)
         /\ Range(Sieve(s, S)) = Range(s) \cap S
<1> DEFINE kept == Sieve(s, S)
<1>1. kept \in Seq(X) /\ Sieved(kept, s, S, Len(s))
  BY SieveIs
<1>2. DOMAIN kept = 1..Len(kept) /\ DOMAIN s = 1..Len(s)
  BY <1>1
<1>3. PICK f : /\ Lists(f, Len(kept), s, {a \in 1..Len(s) : s[a] \in S})
               /\ \A i \in 1..Len(kept) : kept[i] = s[f[i]]
  BY <1>1 DEF Sieved
<1> HIDE DEF kept
<1>4. ASSUME NEW x \in Range(kept) PROVE x \in Range(s) \cap S
  BY <1>2, <1>3 DEF Range, Lists
<1>5. ASSUME NEW x \in Range(s) \cap S PROVE x \in Range(kept)
  <2>1. PICK a \in 1..Len(s) : s[a] = x
    BY <1>2 DEF Range
  <2>2. PICK i \in 1..Len(kept) : f[i] = a
    BY <1>3, <2>1 DEF Lists
  <2> QED
    BY <1>2, <1>3, <2>1, <2>2 DEF Range
<1> QED
  BY <1>1, <1>4, <1>5 DEF kept

\* Two parameters of one name and place, and what is left of two lists of parameters
\* once the first n of the second have replaced those alike.
Alike(p, q) == p.name = q.name /\ p.in = q.in
LastOnes(own, n) == {i \in 1..n : \A j \in 1..n : j > i => ~Alike(own[i], own[j])}
Remaining(inherited, own, n) ==
  {own[i] : i \in LastOnes(own, n)} \cup {p \in Range(inherited) : \A j \in 1..n : ~Alike(p, own[j])}

\* One more of the own parameters takes out those alike and comes in itself.
LEMMA RemainingNext ==
  ASSUME NEW inherited, NEW own, NEW n \in Nat \ {0}
  PROVE  Remaining(inherited, own, n) =
           {q \in Remaining(inherited, own, n - 1) : ~Alike(q, own[n])} \cup {own[n]}
<1>1. 1..n = 1..(n - 1) \cup {n} /\ \A i \in 1..(n - 1) : i \in Nat /\ n > i /\ ~(i > n)
  OBVIOUS
<1>2. \A i : i \in LastOnes(own, n) <=> i = n \/ (i \in LastOnes(own, n - 1) /\ ~Alike(own[i], own[n]))
  <2> TAKE i
  <2>1. CASE i = n
    <3>1. \A j \in 1..n : ~(j > n)
      OBVIOUS
    <3> QED
      BY <1>1, <2>1, <3>1 DEF LastOnes
  <2>2. CASE i # n
    BY <1>1, <2>2 DEF LastOnes
  <2> QED
    BY <2>1, <2>2
<1>3. \A p : (\A j \in 1..n : ~Alike(p, own[j])) <=> (\A j \in 1..(n - 1) : ~Alike(p, own[j])) /\ ~Alike(p, own[n])
  BY <1>1
<1>4. ASSUME NEW q
      PROVE  q \in Remaining(inherited, own, n) <=>
               \/ q = own[n]
               \/ q \in Remaining(inherited, own, n - 1) /\ ~Alike(q, own[n])
  <2>1. (\E i \in LastOnes(own, n) : q = own[i]) <=>
           \/ q = own[n]
           \/ (\E i \in LastOnes(own, n - 1) : q = own[i]) /\ ~Alike(q, own[n])
    BY <1>2, Zenon
  <2>2. \A m : q \in Remaining(inherited, own, m) <=>
           \/ \E i \in LastOnes(own, m) : q = own[i]
           \/ q \in Range(inherited) /\ \A j \in 1..m : ~Alike(q, own[j])
    BY Zenon DEF Remaining
  <2> QED
    BY <1>3, <2>1, <2>2, Zenon
<1> QED
  BY <1>4

\* OverrideParameters ends with what remains once every own parameter had its turn.
LEMMA OverrideIs ==
  ASSUME NEW X, NEW inherited \in Seq(X), NEW own \in Seq(X)
  PROVE  /\ OverrideParameters(inherited, own) \in Seq(X)
         /\ Range(OverrideParameters(inherited, own)) = Remaining(inherited, own, Len(own))
<1> DEFINE n == Len(own)
           others(kept, p) == {q \in Range(kept) : q.in # p.in \/ q.name # p.name}
           advance(i, kept) == Append(Sieve(kept, others(kept, own[i])), own[i])
           next == [i \in 1..n |-> [kept \in Seq(X) |-> advance(i, kept)]]
           Recursion(F) == F = [i \in 0..n |-> IF i = 0 THEN inherited ELSE advance(i, F[i - 1])]
           kept == CHOOSE F : Recursion(F)
<1>1. n \in Nat /\ \A i \in 1..n : own[i] \in X
  OBVIOUS
<1>2. OverrideParameters(inherited, own) = kept[n]
  BY Zenon DEF OverrideParameters
<1>3. ASSUME NEW i \in 1..n, NEW list \in Seq(X)
      PROVE  /\ advance(i, list) \in Seq(X)
             /\ Range(advance(i, list)) = {q \in Range(list) : ~Alike(q, own[i])} \cup {own[i]}
  <2> DEFINE rest == Sieve(list, others(list, own[i]))
  <2>1. rest \in Seq(X) /\ Range(rest) = Range(list) \cap others(list, own[i])
    BY SieveKeeps
  <2>2. Range(rest) = {q \in Range(list) : ~Alike(q, own[i])}
    BY <2>1, Zenon DEF Alike
  <2>3. advance(i, list) = Append(rest, own[i])
    OBVIOUS
  <2> HIDE DEF rest, advance
  <2>4. /\ Append(rest, own[i]) \in Seq(X)
        /\ Range(Append(rest, own[i])) = Range(rest) \cup {own[i]}
    <3>1. own[i] \in X
      BY <1>1
    <3> HIDE DEF n
    <3>2. /\ DOMAIN rest = 1..Len(rest) /\ Len(rest) \in Nat
          /\ DOMAIN Append(rest, own[i]) = 1..(Len(rest) + 1)
          /\ Append(rest, own[i])[Len(rest) + 1] = own[i]
          /\ \A j \in 1..Len(rest) : Append(rest, own[i])[j] = rest[j]
      BY <2>1, <3>1
    <3>3. 1..(Len(rest) + 1) = 1..Len(rest) \cup {Len(rest) + 1}
      BY <3>2
    <3>4. Append(rest, own[i]) \in Seq(X)
      BY <2>1, <3>1
    <3>5. Range(Append(rest, own[i])) = Range(rest) \cup {own[i]}
      <4> DEFINE longer == Append(rest, own[i])
      <4> HIDE DEF longer
      <4> QED BY <3>2, <3>3 DEF Range, longer
    <3> QED
      BY <3>4, <3>5
  <2> QED
    BY <2>2, <2>3, <2>4
<1> HIDE DEF n, advance
<1>4. PICK F \in [0..n -> Seq(X)] : Iterates(F, inherited, next, n)
  <2>1. next \in [1..n -> [Seq(X) -> Seq(X)]]
    BY <1>3
  <2> HIDE DEF next
  <2> QED
    BY <1>1, <2>1, IterationExists
<1>5. \A i \in 1..n : F[i - 1] \in Seq(X) /\ i - 1 \in 0..n /\ i \in 0..n /\ i # 0
  BY <1>1
<1>6. Recursion(F)
  <2>1. \A i \in 0..n : (IF i = 0 THEN inherited ELSE next[i][F[i - 1]])
           = IF i = 0 THEN inherited ELSE advance(i, F[i - 1])
    BY <1>1, <1>5
  <2> HIDE DEF next
  <2> QED
    BY <1>4, <2>1, Zenon DEF Iterates
<1>7. Recursion(kept)
  BY <1>6, Zenon
<1> HIDE DEF kept, next
<1>8. kept[0] = inherited /\ \A i \in 1..n : kept[i] = advance(i, kept[i - 1])
  <2>1. 0 \in 0..n
    BY <1>1
  <2>2. \A i \in 0..n : kept[i] = IF i = 0 THEN inherited ELSE advance(i, kept[i - 1])
    BY <1>7, Zenon
  <2> QED
    BY <1>5, <2>1, <2>2
<1> DEFINE Right(i) == kept[i] \in Seq(X) /\ Range(kept[i]) = Remaining(inherited, own, i)
           right == [i \in 0..n |-> IF Right(i) THEN "yes" ELSE "no"]
           yes == {"yes"}
<1>9. Right(0)
  <2>1. 1..0 = {}
    OBVIOUS
  <2>2. Remaining(inherited, own, 0) = Range(inherited)
    BY <2>1 DEF Remaining, LastOnes
  <2> QED
    BY <1>8, <2>2
<1>10. ASSUME NEW i \in 1..n, Right(i - 1) PROVE Right(i)
  <2>1. kept[i] = advance(i, kept[i - 1]) /\ i \in Nat \ {0}
    BY <1>1, <1>8
  <2>2. /\ kept[i] \in Seq(X)
        /\ Range(kept[i]) = {q \in Remaining(inherited, own, i - 1) : ~Alike(q, own[i])} \cup {own[i]}
    BY <1>3, <1>10, <2>1
  <2> QED
    BY <2>1, <2>2, RemainingNext
<1> HIDE DEF Right
<1>11. right[0] \in yes
  BY <1>1, <1>9
<1>12. ASSUME NEW i \in 1..n, right[i - 1] \in yes PROVE right[i] \in yes
  <2>1. Right(i - 1)
    BY <1>5, <1>12
  <2> QED
    BY <1>5, <1>10, <2>1
<1> HIDE DEF yes
<1>13. \A i \in 0..n : right[i] \in yes
  <2> HIDE DEF right
  <2> QED
    BY <1>1, <1>11, <1>12, StaysIn
<1>14. Right(n)
  BY <1>1, <1>13 DEF yes
<1> QED
  BY <1>2, <1>14 DEF Right, n

\* What is parsed of a list of parameters, in terms of the places in that list.
LEMMA ParsedIs ==
  ASSUME NEW nodes, nodes \in Seq(Range(nodes)), NEW version
  PROVE  LET parsed == ParseParameters(nodes, version)
             read == {a \in DOMAIN nodes : nodes[a].in \in Places}
         IN /\ parsed \in Seq({ParameterOf(p, version) : p \in Range(nodes)})
            /\ \E f : /\ Lists(f, Len(parsed), nodes, read)
                      /\ \A i \in 1..Len(parsed) : parsed[i] = ParameterOf(nodes[f[i]], version)
<1> DEFINE X == Range(nodes)
           S == {p \in X : p.in \in Places}
           kept == Sieve(nodes, S)
           parsed == ParseParameters(nodes, version)
           read == {a \in DOMAIN nodes : nodes[a].in \in Places}
<1>1. kept \in Seq(X) /\ Sieved(kept, nodes, S, Len(nodes))
  BY SieveIs
<1>2. parsed = [i \in DOMAIN kept |-> ParameterOf(kept[i], version)]
  BY Zenon DEF ParseParameters
<1>3. {a \in 1..Len(nodes) : nodes[a] \in S} = read
  <2>1. DOMAIN nodes = 1..Len(nodes)
    OBVIOUS
  <2> QED
    BY <2>1 DEF Range
<1>4. PICK f : Lists(f, Len(kept), nodes, read) /\ \A i \in 1..Len(kept) : kept[i] = nodes[f[i]]
  BY <1>1, <1>3, Zenon DEF Sieved
<1> HIDE DEF kept, read, S, parsed
<1>5. DOMAIN kept = 1..Len(kept) /\ Len(kept) \in Nat /\ \A i \in 1..Len(kept) : kept[i] \in X
  BY <1>1
<1> HIDE DEF X
<1>6. parsed \in Seq({ParameterOf(p, version) : p \in X}) /\ Len(parsed) = Len(kept)
  <2>1. \A i \in 1..Len(kept) : ParameterOf(kept[i], version) \in {ParameterOf(p, version) : p \in X}
    BY <1>5
  <2> QED
    BY <1>2, <1>5, <2>1
<1>7. \A i \in 1..Len(kept) : parsed[i] = ParameterOf(nodes[f[i]], version)
  BY <1>2, <1>4, <1>5
<1>8. Lists(f, Len(parsed), nodes, read) /\ \A i \in 1..Len(parsed) : parsed[i] = ParameterOf(nodes[f[i]], version)
  BY <1>4, <1>6, <1>7
<1> QED
  BY <1>6, <1>8 DEF parsed, read, X

\* Parsing leaves the name and the place of a parameter.
LEMMA AlikeParsed ==
  ASSUME NEW p, NEW q, NEW version
  PROVE  /\ Alike(ParameterOf(p, version), ParameterOf(q, version)) <=> Alike(p, q)
         /\ Alike(p, q) => p.in = q.in
BY DEF Alike, ParameterOf

\* The parameters that are loaded are those the document means, parsed: a parameter in a
\* place that is not read can be alike only to others in that place.
LEMMA ParametersMeant ==
  ASSUME NEW item, NEW method, NEW version, item.parameters \in Seq(Range(item.parameters)),
         item.operations[method].parameters \in Seq(Range(item.operations[method].parameters))
  PROVE  Range(OverrideParameters(ParseParameters(item.parameters, version),
                                  ParseParameters(item.operations[method].parameters, version)))
           = {ParameterOf(p, version) : p \in Meant(item, method)}
<1> DEFINE shared == item.parameters
           own == item.operations[method].parameters
           sharedParsed == ParseParameters(shared, version)
           ownParsed == ParseParameters(own, version)
           readShared == {a \in DOMAIN shared : shared[a].in \in Places}
           readOwn == {a \in DOMAIN own : own[a].in \in Places}
           m == Len(sharedParsed)
           n == Len(ownParsed)
           X == {ParameterOf(p, version) : p \in Range(shared)} \cup {ParameterOf(p, version) : p \in Range(own)}
           last == {i \in DOMAIN own : \A j \in DOMAIN own : j > i => ~Alike(own[i], own[j])}
           meant == {p \in {own[i] : i \in last} \cup
                           {p \in Range(shared) : \A q \in Range(own) : ~Alike(p, q)} : p.in \in Places}
<1>1. Meant(item, method) = meant
  BY Zenon DEF Meant, Alike
<1>2. shared \in Seq(Range(shared)) /\ own \in Seq(Range(own))
  OBVIOUS
<1> HIDE DEF shared, own
<1>3. /\ sharedParsed \in Seq({ParameterOf(p, version) : p \in Range(shared)})
      /\ \E f : /\ Lists(f, m, shared, readShared)
                /\ \A i \in 1..m : sharedParsed[i] = ParameterOf(shared[f[i]], version)
  BY <1>2, ParsedIs, Zenon
<1>4. /\ ownParsed \in Seq({ParameterOf(p, version) : p \in Range(own)})
      /\ \E f : /\ Lists(f, n, own, readOwn)
                /\ \A i \in 1..n : ownParsed[i] = ParameterOf(own[f[i]], version)
  BY <1>2, ParsedIs, Zenon
<1> HIDE DEF sharedParsed, ownParsed
<1>5. PICK f : /\ Lists(f, m, shared, readShared)
               /\ \A i \in 1..m : sharedParsed[i] = ParameterOf(shared[f[i]], version)
  BY <1>3, Zenon
<1>6. PICK g : /\ Lists(g, n, own, readOwn)
               /\ \A i \in 1..n : ownParsed[i] = ParameterOf(own[g[i]], version)
  BY <1>4, Zenon
<1>7. sharedParsed \in Seq(X) /\ ownParsed \in Seq(X)
  <2> HIDE DEF X
  <2>1. {ParameterOf(p, version) : p \in Range(shared)} \subseteq X /\ {ParameterOf(p, version) : p \in Range(own)} \subseteq X
    BY DEF X
  <2> QED
    BY <1>3, <1>4, <2>1
<1>8. Range(OverrideParameters(sharedParsed, ownParsed)) = Remaining(sharedParsed, ownParsed, n)
  <2> HIDE DEF X
  <2> QED BY <1>7, OverrideIs
<1>9. /\ DOMAIN sharedParsed = 1..m /\ m \in Nat /\ n \in Nat
      /\ DOMAIN own = 1..Len(own) /\ Len(own) \in Nat
  BY <1>2, <1>7
<1> HIDE DEF X, m, n
<1>10. /\ \A i \in 1..n : g[i] \in readOwn
       /\ \A i, j \in 1..n : i < j => g[i] < g[j]
       /\ \A a \in readOwn : \E i \in 1..n : g[i] = a
  BY <1>6, Zenon DEF Lists
<1>11. /\ \A i \in 1..m : f[i] \in readShared
       /\ \A a \in readShared : \E i \in 1..m : f[i] = a
  BY <1>5, Zenon DEF Lists
<1>12. readOwn \subseteq DOMAIN own /\ \A a \in DOMAIN own : a \in readOwn <=> own[a].in \in Places
  OBVIOUS
<1>13. readShared \subseteq DOMAIN shared /\ \A a \in DOMAIN shared : a \in readShared <=> shared[a].in \in Places
  OBVIOUS
<1> HIDE DEF readOwn, readShared
\* An index of the parsed ones follows another exactly if its place does.
<1>14. \A i, j \in 1..n : g[j] > g[i] => j > i
  <2> TAKE i \in 1..n, j \in 1..n
  <2>1. g[i] \in Nat /\ g[j] \in Nat /\ i \in Nat /\ j \in Nat
    BY <1>9, <1>10, <1>12
  <2>2. i = j => g[i] = g[j]
    OBVIOUS
  <2>3. j < i => g[j] < g[i]
    BY <1>10
  <2> QED
    BY <2>1, <2>2, <2>3
<1>15. ASSUME NEW i \in 1..n PROVE i \in LastOnes(ownParsed, n) <=> g[i] \in last
  <2>1. g[i] \in DOMAIN own /\ own[g[i]].in \in Places
    BY <1>10, <1>12
  <2>2. ASSUME g[i] \in last, NEW j \in 1..n, j > i PROVE ~Alike(ownParsed[i], ownParsed[j])
    <3>1. g[j] \in DOMAIN own /\ g[j] > g[i]
      <4>1. g[i] < g[j] /\ g[j] \in DOMAIN own
        BY <1>9, <1>10, <1>12, <2>2
      <4> QED
        BY <1>9, <2>1, <4>1
    <3>2. ~Alike(own[g[i]], own[g[j]])
      BY <2>2, <3>1
    <3> QED
      BY <1>6, <3>2, AlikeParsed
  <2>3. ASSUME i \in LastOnes(ownParsed, n), NEW a \in DOMAIN own, a > g[i] PROVE ~Alike(own[g[i]], own[a])
    <3>1. SUFFICES ASSUME Alike(own[g[i]], own[a]) PROVE FALSE
      OBVIOUS
    <3>2. own[a].in \in Places
      BY <2>1, <3>1, AlikeParsed
    <3>3. PICK j \in 1..n : g[j] = a
      BY <1>10, <1>12, <3>2
    <3>4. j > i
      BY <1>14, <2>3, <3>3
    <3>5. ~Alike(ownParsed[i], ownParsed[j])
      BY <2>3, <3>4 DEF LastOnes
    <3> QED
      BY <1>6, <3>1, <3>3, <3>5, AlikeParsed
  <2> QED
    BY <2>1, <2>2, <2>3 DEF LastOnes
<1>16. ASSUME NEW p \in Range(shared), p.in \in Places
       PROVE  (\A j \in 1..n : ~Alike(ParameterOf(p, version), ownParsed[j])) <=> \A q \in Range(own) : ~Alike(p, q)
  <2>1. ASSUME \A q \in Range(own) : ~Alike(p, q), NEW j \in 1..n PROVE ~Alike(ParameterOf(p, version), ownParsed[j])
    <3>1. own[g[j]] \in Range(own)
      BY <1>10, <1>12 DEF Range
    <3> QED
      BY <1>6, <2>1, <3>1, AlikeParsed
  <2>2. ASSUME \A j \in 1..n : ~Alike(ParameterOf(p, version), ownParsed[j]), NEW q \in Range(own), Alike(p, q)
        PROVE  FALSE
    <3>1. PICK a \in DOMAIN own : own[a] = q
      BY DEF Range
    <3>2. own[a].in \in Places
      BY <1>16, <2>2, <3>1, AlikeParsed
    <3>3. PICK j \in 1..n : g[j] = a
      BY <1>10, <1>12, <3>2
    <3> QED
      BY <1>6, <2>2, <3>1, <3>3, AlikeParsed
  <2> QED
    BY <2>1, <2>2
<1>17. ASSUME NEW x \in Remaining(sharedParsed, ownParsed, n) PROVE \E p \in meant : x = ParameterOf(p, version)
  <2>1. CASE x \in {ownParsed[i] : i \in LastOnes(ownParsed, n)}
    <3>1. PICK i \in LastOnes(ownParsed, n) : x = ownParsed[i]
      BY <2>1
    <3>2. i \in 1..n /\ g[i] \in last /\ own[g[i]].in \in Places
      BY <1>10, <1>12, <1>15, <3>1 DEF LastOnes
    <3>3. own[g[i]] \in meant
      BY <3>2
    <3> QED
      BY <1>6, <3>1, <3>2, <3>3
  <2>2. CASE x \in Range(sharedParsed) /\ \A j \in 1..n : ~Alike(x, ownParsed[j])
    <3>1. PICK i \in 1..m : x = sharedParsed[i]
      BY <1>9, <2>2 DEF Range
    <3>2. shared[f[i]] \in Range(shared) /\ shared[f[i]].in \in Places /\ x = ParameterOf(shared[f[i]], version)
      BY <1>5, <1>11, <1>13, <3>1 DEF Range
    <3>3. \A q \in Range(own) : ~Alike(shared[f[i]], q)
      BY <1>16, <2>2, <3>2
    <3>4. shared[f[i]] \in meant
      BY <3>2, <3>3
    <3> QED
      BY <3>2, <3>4
  <2> QED
    BY <2>1, <2>2 DEF Remaining
<1>18. ASSUME NEW p \in meant PROVE ParameterOf(p, version) \in Remaining(sharedParsed, ownParsed, n)
  <2>1. CASE p \in {own[i] : i \in last}
    <3>1. PICK a \in last : p = own[a]
      BY <2>1
    <3>2. a \in readOwn
      BY <1>12, <3>1
    <3>3. PICK i \in 1..n : g[i] = a
      BY <1>10, <3>2
    <3>4. i \in LastOnes(ownParsed, n) /\ ParameterOf(p, version) = ownParsed[i]
      BY <1>6, <1>15, <3>1, <3>3
    <3> QED
      BY <3>4 DEF Remaining
  <2>2. CASE p \in Range(shared) /\ \A q \in Range(own) : ~Alike(p, q)
    <3>1. PICK a \in DOMAIN shared : p = shared[a]
      BY <2>2 DEF Range
    <3>2. PICK i \in 1..m : f[i] = a
      BY <1>11, <1>13, <3>1
    <3>3. ParameterOf(p, version) \in Range(sharedParsed)
      BY <1>5, <1>9, <3>1, <3>2 DEF Range
    <3>4. \A j \in 1..n : ~Alike(ParameterOf(p, version), ownParsed[j])
      BY <1>16, <2>2
    <3> QED
      BY <3>3, <3>4 DEF Remaining
  <2> QED
    BY <2>1, <2>2
<1> HIDE DEF meant, last
<1>19. Remaining(sharedParsed, ownParsed, n) = {ParameterOf(p, version) : p \in meant}
  BY <1>17, <1>18
<1> QED
  BY <1>1, <1>8, <1>19 DEF sharedParsed, ownParsed, shared, own

\* A response's media types, JSON first, and the types alone.
Parted(content) ==
  Sieve(content, {c \in Range(content) : IsJson(c.type)}) \o
  Sieve(content, {c \in Range(content) : ~IsJson(c.type)})
TypesOf(content) == [j \in DOMAIN content |-> content[j].type]

\* The two parts lose no media type and do not mix.
LEMMA PartedIs ==
  ASSUME NEW X, NEW content \in Seq(X)
  PROVE  /\ Range(TypesOf(Parted(content))) = {c.type : c \in Range(content)}
         /\ \A j, k \in DOMAIN TypesOf(Parted(content)) :
               IsJson(TypesOf(Parted(content))[k]) /\ j < k => IsJson(TypesOf(Parted(content))[j])
<1> DEFINE json == {c \in Range(content) : IsJson(c.type)}
           other == {c \in Range(content) : ~IsJson(c.type)}
           first == Sieve(content, json)
           second == Sieve(content, other)
           both == first \o second
           types == TypesOf(Parted(content))
<1>1. first \in Seq(X) /\ Range(first) = json
  <2>1. first \in Seq(X) /\ Range(first) = Range(content) \cap json
    BY SieveKeeps
  <2> QED
    BY <2>1
<1>2. second \in Seq(X) /\ Range(second) = other
  <2>1. second \in Seq(X) /\ Range(second) = Range(content) \cap other
    BY SieveKeeps
  <2> QED
    BY <2>1
<1>3. DOMAIN types = DOMAIN both /\ \A j \in DOMAIN both : types[j] = both[j].type
  BY DEF TypesOf, Parted
<1>4. \A c : c \in Range(content) <=> c \in json \/ c \in other
  OBVIOUS
<1>5. (\A c \in json : IsJson(c.type)) /\ (\A c \in other : ~IsJson(c.type))
  OBVIOUS
<1> HIDE DEF json, other, first, second
<1>6. /\ DOMAIN first = 1..Len(first) /\ Len(first) \in Nat
      /\ DOMAIN second = 1..Len(second) /\ Len(second) \in Nat
  BY <1>1, <1>2
<1>7. /\ DOMAIN both = 1..(Len(first) + Len(second))
      /\ \A j \in 1..Len(first) : both[j] = first[j]
      /\ \A j \in 1..Len(second) : both[Len(first) + j] = second[j]
  BY <1>1, <1>2
<1> HIDE DEF both, types
<1>8. \A j \in DOMAIN both :
        \/ j \in 1..Len(first) /\ both[j] \in json
        \/ j \notin 1..Len(first) /\ both[j] \in other
  <2> TAKE j \in DOMAIN both
  <2>1. CASE j \in 1..Len(first)
    <3>1. first[j] \in Range(first)
      BY <1>6, <2>1 DEF Range
    <3> QED
      BY <1>1, <1>7, <2>1, <3>1
  <2>2. CASE j \notin 1..Len(first)
    <3>1. j - Len(first) \in 1..Len(second) /\ Len(first) + (j - Len(first)) = j
      BY <1>6, <1>7, <2>2
    <3>2. both[j] = second[j - Len(first)] /\ second[j - Len(first)] \in Range(second)
      BY <1>6, <1>7, <3>1 DEF Range
    <3> QED
      BY <1>2, <2>2, <3>2
  <2> QED
    BY <2>1, <2>2
<1>9. ASSUME NEW c \in Range(content) PROVE \E j \in DOMAIN both : both[j] = c
  <2>1. CASE c \in json
    <3>1. PICK j \in 1..Len(first) : first[j] = c
      BY <1>1, <1>6, <2>1 DEF Range
    <3>2. j \in DOMAIN both
      BY <1>6, <1>7, <3>1
    <3> QED
      BY <1>7, <3>1, <3>2
  <2>2. CASE c \in other
    <3>1. PICK j \in 1..Len(second) : second[j] = c
      BY <1>2, <1>6, <2>2 DEF Range
    <3>2. Len(first) + j \in DOMAIN both
      BY <1>6, <1>7, <3>1
    <3> QED
      BY <1>7, <3>1, <3>2
  <2> QED
    BY <1>4, <2>1, <2>2
<1>10. Range(types) = {c.type : c \in Range(content)}
  <2>1. Range(types) = {types[j] : j \in DOMAIN both}
    BY <1>3 DEF Range
  <2>2. \A j \in DOMAIN both : both[j] \in Range(content)
    BY <1>4, <1>8
  <2> QED
    BY <1>3, <1>9, <2>1, <2>2
<1>11. ASSUME NEW j \in DOMAIN types, NEW k \in DOMAIN types, IsJson(types[k]), j < k PROVE IsJson(types[j])
  <2>1. j \in DOMAIN both /\ k \in DOMAIN both /\ types[j] = both[j].type /\ types[k] = both[k].type
    BY <1>3
  <2>2. k \in 1..Len(first)
    BY <1>5, <1>8, <1>11, <2>1
  <2>3. j \in 1..Len(first)
    BY <1>6, <1>7, <1>11, <2>1, <2>2
  <2> QED
    BY <1>5, <1>8, <2>1, <2>3
<1> QED
  BY <1>10, <1>11 DEF types

\* parse_responses keeps every media type, JSON first.
LEMMA ResponsesKept ==
  ASSUME NEW nodes, NEW version,
         \A response \in Range(nodes) : response.content \in Seq(Range(response.content))
  PROVE  ContentKept(ParseResponses(nodes, version), nodes)
<1> SUFFICES ASSUME NEW i \in DOMAIN nodes
             PROVE  LET types == TypesOf(ParseResponses(nodes, version)[i].content)
                    IN /\ Range(types) = {c.type : c \in Range(nodes[i].content)}
                       /\ \A j, k \in DOMAIN types : IsJson(types[k]) /\ j < k => IsJson(types[j])
  BY Zenon DEF ContentKept, TypesOf
<1> DEFINE given == nodes[i].content
           content == [j \in DOMAIN given |-> ParseMediaType(given[j], version)]
           types == TypesOf(Parted(content))
<1>1. given \in Seq(Range(given))
  <2>1. nodes[i] \in Range(nodes)
    BY DEF Range
  <2> QED
    BY <2>1
<1>2. ParseResponses(nodes, version)[i].content = Parted(content)
  BY DEF ParseResponses, Parted
<1> HIDE DEF given
<1>3. /\ DOMAIN given = 1..Len(given) /\ Len(given) \in Nat
      /\ \A j \in DOMAIN given : content[j] = ParseMediaType(given[j], version) /\ content[j] \in Range(content)
  BY <1>1 DEF Range
<1>4. content \in Seq(Range(content))
  <2>1. content = [j \in 1..Len(given) |-> content[j]]
    BY <1>3
  <2> HIDE DEF content
  <2> QED
    BY <1>3, <2>1
<1>5. \A p : ParseMediaType(p, version).type = p.type
  BY DEF ParseMediaType
<1>6. {c.type : c \in Range(content)} = {c.type : c \in Range(given)}
  <2>1. Range(content) = {content[j] : j \in DOMAIN given} /\ Range(given) = {given[j] : j \in DOMAIN given}
    BY DEF Range
  <2>2. \A j \in DOMAIN given : content[j].type = given[j].type
    BY <1>3, <1>5
  <2> HIDE DEF content
  <2> QED
    BY <2>1, <2>2
<1> HIDE DEF content
<1>7. /\ Range(types) = {c.type : c \in Range(content)}
      /\ \A j, k \in DOMAIN types : IsJson(types[k]) /\ j < k => IsJson(types[j])
  BY <1>4, PartedIs, Zenon
<1> HIDE DEF types
<1>8. types = TypesOf(ParseResponses(nodes, version)[i].content)
  BY <1>2 DEF types
<1> QED
  BY <1>6, <1>7, <1>8 DEF given

\* The methods that are looked up are those a path declares.
LEMMA DeclaredIs ==
  ASSUME NEW operations, DOMAIN operations \subseteq Range(Methods)
  PROVE  /\ DeclaredMethods(operations) \in Seq(Range(Methods))
         /\ Range(DeclaredMethods(operations)) = DOMAIN operations
<1>1. Methods \in Seq(Range(Methods))
  <2>1. Methods \in Seq({"get", "post", "put", "patch", "delete", "head", "options", "trace"})
    BY DEF Methods
  <2>2. \A i \in 1..Len(Methods) : Methods[i] \in Range(Methods)
    <3>1. DOMAIN Methods = 1..Len(Methods)
      BY <2>1
    <3> QED
      BY <3>1 DEF Range
  <2> QED
    BY <2>1, <2>2
<1>2. /\ Sieve(Methods, DOMAIN operations) \in Seq(Range(Methods))
      /\ Range(Sieve(Methods, DOMAIN operations)) = Range(Methods) \cap DOMAIN operations
  BY <1>1, SieveKeeps
<1> QED
  BY <1>2, Zenon DEF DeclaredMethods

\* One sequence of all the elements of some sequences.
LEMMA FlattenIs ==
  ASSUME NEW X, NEW seqs \in Seq(Seq(X))
  PROVE  /\ FlattenSeq(seqs) \in Seq(X)
         /\ Range(FlattenSeq(seqs)) = UNION {Range(seqs[i]) : i \in DOMAIN seqs}
<1> DEFINE n == Len(seqs)
<1>1. n \in Nat /\ DOMAIN seqs = 1..n /\ \A i \in 1..n : seqs[i] \in Seq(X)
  OBVIOUS
<1>2. CASE n = 0
  <2>1. FlattenSeq(seqs) = <<>>
    BY <1>1, <1>2 DEF FlattenSeq
  <2>2. DOMAIN seqs = {} /\ DOMAIN <<>> = {}
    BY <1>1, <1>2
  <2> QED
    BY <2>1, <2>2 DEF Range
<1>3. CASE n # 0
  <2> DEFINE Recursion(F) == F = [i \in 1..n |-> IF i = 1 THEN seqs[i] ELSE F[i - 1] \o seqs[i]]
             flat == CHOOSE F : Recursion(F)
             next == [i \in 1..n |-> [s \in Seq(X) |-> IF i = 1 THEN seqs[i] ELSE s \o seqs[i]]]
  <2>1. FlattenSeq(seqs) = flat[n]
    BY <1>3, Zenon DEF FlattenSeq
  <2>2. PICK F \in [0..n -> Seq(X)] : Iterates(F, <<>>, next, n)
    <3>1. next \in [1..n -> [Seq(X) -> Seq(X)]]
      BY <1>1
    <3>2. <<>> \in Seq(X)
      OBVIOUS
    <3> HIDE DEF n, next
    <3> QED
      BY <1>1, <3>1, <3>2, IterationExists
  <2> HIDE DEF n
  <2>3. \A i \in 1..n : F[i - 1] \in Seq(X) /\ i - 1 \in 0..n /\ i \in 0..n /\ i # 0
    BY <1>1
  <2>4. \A i \in 1..n : F[i] = IF i = 1 THEN seqs[i] ELSE F[i - 1] \o seqs[i]
    <3>1. \A i \in 0..n : F[i] = IF i = 0 THEN <<>> ELSE next[i][F[i - 1]]
      <4> HIDE DEF next
      <4> QED BY <2>2, Zenon DEF Iterates
    <3> QED
      BY <1>1, <2>3, <3>1
  <2> HIDE DEF next
  <2>5. \E G : Recursion(G)
    <3> DEFINE G == [i \in 1..n |-> F[i]]
    <3>1. \A i \in 1..n : G[i] = IF i = 1 THEN seqs[i] ELSE G[i - 1] \o seqs[i]
      <4> TAKE i \in 1..n
      <4>1. i # 1 => i - 1 \in 1..n
        BY <1>1
      <4> QED
        BY <2>4, <4>1
    <3>2. G = [i \in 1..n |-> G[i]]
      OBVIOUS
    <3> HIDE DEF G
    <3>3. Recursion(G)
      BY <3>1, <3>2, Zenon
    <3> QED
      BY <3>3
  <2>6. Recursion(flat)
    BY <2>5, Zenon
  <2> HIDE DEF flat
  <2>7. \A i \in 1..n : flat[i] = IF i = 1 THEN seqs[i] ELSE flat[i - 1] \o seqs[i]
    BY <2>6, Zenon
  <2> DEFINE Right(i) == /\ flat[i] \in Seq(X)
                         /\ Range(flat[i]) = UNION {Range(seqs[j]) : j \in 1..i}
             right == [i \in 0..n |-> IF i = 0 \/ Right(i) THEN "yes" ELSE "no"]
             yes == {"yes"}
  <2>8. ASSUME NEW i \in 1..n, i = 1 \/ Right(i - 1) PROVE Right(i)
    <3>1. CASE i = 1
      <4>1. flat[i] = seqs[i] /\ 1..1 = {1}
        BY <2>7, <3>1
      <4>2. UNION {Range(seqs[j]) : j \in 1..1} = Range(seqs[1])
        BY <4>1
      <4> QED
        BY <1>1, <3>1, <4>1, <4>2
    <3>2. CASE i # 1
      <4> DEFINE s == flat[i - 1]
                 t == seqs[i]
      <4>1. flat[i] = s \o t
        BY <2>7, <3>2
      <4>2. s \in Seq(X) /\ t \in Seq(X) /\ Range(s) = UNION {Range(seqs[j]) : j \in 1..(i - 1)}
        BY <1>1, <2>8, <3>2
      <4> HIDE DEF s, t
      <4>3. s \o t \in Seq(X) /\ Range(s \o t) = Range(s) \cup Range(t)
        <5>1. /\ DOMAIN s = 1..Len(s) /\ Len(s) \in Nat /\ DOMAIN t = 1..Len(t) /\ Len(t) \in Nat
              /\ DOMAIN (s \o t) = 1..(Len(s) + Len(t))
              /\ \A j \in 1..Len(s) : (s \o t)[j] = s[j]
              /\ \A j \in 1..Len(t) : (s \o t)[Len(s) + j] = t[j]
          BY <4>2
        <5> DEFINE b == s \o t
        <5>2. s \o t = b
          OBVIOUS
        <5> HIDE DEF b
        <5>3. ASSUME NEW x \in Range(b) PROVE x \in Range(s) \/ x \in Range(t)
          <6>1. PICK j \in 1..(Len(s) + Len(t)) : b[j] = x
            BY <5>1, <5>2, <5>3 DEF Range
          <6>2. j \in 1..Len(s) \/ (j - Len(s) \in 1..Len(t) /\ Len(s) + (j - Len(s)) = j)
            BY <5>1
          <6> QED
            BY <5>1, <5>2, <6>1, <6>2 DEF Range
        <5>4. ASSUME NEW x, x \in Range(s) \/ x \in Range(t) PROVE x \in Range(b)
          <6>1. \A j \in 1..Len(s) : j \in DOMAIN b
            BY <5>1, <5>2
          <6>2. \A j \in 1..Len(t) : Len(s) + j \in DOMAIN b
            BY <5>1, <5>2
          <6> QED
            BY <5>1, <5>2, <5>4, <6>1, <6>2 DEF Range
        <5>5. s \o t \in Seq(X)
          BY <4>2
        <5> QED
          BY <5>2, <5>3, <5>4, <5>5
      <4>4. UNION {Range(seqs[j]) : j \in 1..i} = (UNION {Range(seqs[j]) : j \in 1..(i - 1)}) \cup Range(t)
        <5>1. 1..i = 1..(i - 1) \cup {i}
          BY <1>1
        <5> QED
          BY <5>1 DEF t
      <4> QED
        BY <4>1, <4>2, <4>3, <4>4
    <3> QED
      BY <3>1, <3>2
  <2> HIDE DEF Right
  <2>9. right[0] \in yes
    BY <1>1
  <2>10. ASSUME NEW i \in 1..n, right[i - 1] \in yes PROVE right[i] \in yes
    <3>1. i = 1 \/ Right(i - 1)
      BY <1>1, <2>3, <2>10
    <3> QED
      BY <2>3, <2>8, <3>1
  <2> HIDE DEF yes
  <2>11. \A i \in 0..n : right[i] \in yes
    <3> HIDE DEF right
    <3> QED
      BY <1>1, <2>9, <2>10, StaysIn
  <2>12. Right(n)
    BY <1>1, <1>3, <2>11 DEF yes
  <2> QED
    BY <1>1, <2>1, <2>12 DEF Right
<1> QED
  BY <1>2, <1>3

-----------------------------------------------------------------------------
(* The OpenAPI document: the operations, and the start of a server.        *)

\* What the assumption says of a path of a document.
LEMMA PathIs ==
  ASSUME NEW c \in Contracts, NEW item \in Range(c.document.paths)
  PROVE  /\ item.template \in Seq(Matchers)
         /\ item.parameters \in Seq(Range(item.parameters))
         /\ DOMAIN item.operations \subseteq Range(Methods)
         /\ \A m \in DOMAIN item.operations :
               /\ item.operations[m].parameters \in Seq(Range(item.operations[m].parameters))
               /\ \A response \in Range(item.operations[m].responses) :
                     response.content \in Seq(Range(response.content))
BY ContractsAssumption, Zenon

\* A parsed operation is what its path declares.
LEMMA OperationLoaded ==
  ASSUME NEW c \in Contracts, NEW item \in Range(c.document.paths), NEW m \in DOMAIN item.operations, NEW version
  PROVE  /\ LoadedFrom(ParseOperation(item, m, version), item, version)
         /\ ParseOperation(item, m, version).method = m
         /\ ParseOperation(item, m, version).template = item.template
<1> DEFINE o == ParseOperation(item, m, version)
<1>1. /\ o.method = m /\ o.template = item.template
      /\ o.parameters = OverrideParameters(ParseParameters(item.parameters, version),
                                           ParseParameters(item.operations[m].parameters, version))
      /\ o.responses = ParseResponses(item.operations[m].responses, version)
  BY DEF ParseOperation
<1> HIDE DEF o
<1>2. Range(o.parameters) = {ParameterOf(p, version) : p \in Meant(item, m)}
  <2>1. /\ item.parameters \in Seq(Range(item.parameters))
        /\ item.operations[m].parameters \in Seq(Range(item.operations[m].parameters))
    BY PathIs
  <2>2. Range(OverrideParameters(ParseParameters(item.parameters, version),
                                 ParseParameters(item.operations[m].parameters, version)))
          = {ParameterOf(p, version) : p \in Meant(item, m)}
    BY <2>1, ParametersMeant
  <2> QED
    BY <1>1, <2>2
<1>3. ContentKept(o.responses, item.operations[m].responses)
  <2>1. \A response \in Range(item.operations[m].responses) : response.content \in Seq(Range(response.content))
    BY PathIs
  <2>2. ContentKept(ParseResponses(item.operations[m].responses, version), item.operations[m].responses)
    BY <2>1, ResponsesKept
  <2> QED
    BY <1>1, <2>2
<1>4. LoadedFrom(o, item, version)
  BY <1>1, <1>2, <1>3 DEF LoadedFrom
<1> QED
  BY <1>1, <1>4 DEF o

\* The operations parsed are those the paths declare, with templates the router takes.
LEMMA OperationsParsed ==
  ASSUME NEW c \in Contracts
  PROVE  LET operations == ParseOperations(c.document)
             version == c.document.version
         IN /\ Templated(operations)
            /\ \A o \in Range(operations) :
                  \E item \in Range(c.document.paths) : \E m \in DOMAIN item.operations :
                     o = ParseOperation(item, m, version)
            /\ \A item \in Range(c.document.paths) : \A m \in DOMAIN item.operations :
                  ParseOperation(item, m, version) \in Range(operations)
<1> DEFINE paths == c.document.paths
           version == c.document.version
           X == UNION {{ParseOperation(item, m, version) : m \in DOMAIN item.operations} : item \in Range(paths)}
           methods(i) == DeclaredMethods(paths[i].operations)
           part(i) == [j \in DOMAIN methods(i) |-> ParseOperation(paths[i], methods(i)[j], version)]
           seqs == [i \in DOMAIN paths |-> part(i)]
           operations == ParseOperations(c.document)
<1>1. operations = FlattenSeq(seqs)
  BY Zenon DEF ParseOperations
<1>2. paths \in Seq(Range(paths))
  BY ContractsAssumption
<1>3. DOMAIN paths = 1..Len(paths) /\ Len(paths) \in Nat /\ \A i \in DOMAIN paths : paths[i] \in Range(paths)
  <2> HIDE DEF paths
  <2> QED
    BY <1>2 DEF Range
<1>4. ASSUME NEW i \in DOMAIN paths
      PROVE  /\ part(i) \in Seq(X)
             /\ Range(part(i)) = {ParseOperation(paths[i], m, version) : m \in DOMAIN paths[i].operations}
  <2> DEFINE names == methods(i)
             these == {ParseOperation(paths[i], m, version) : m \in DOMAIN paths[i].operations}
  <2>1. paths[i] \in Range(paths)
    BY <1>3
  <2>2. DOMAIN paths[i].operations \subseteq Range(Methods)
    BY <2>1, PathIs
  <2>3. names \in Seq(Range(Methods)) /\ Range(names) = DOMAIN paths[i].operations
    BY <2>2, DeclaredIs
  <2>4. part(i) = [j \in DOMAIN names |-> ParseOperation(paths[i], names[j], version)]
    OBVIOUS
  <2>5. these \subseteq X
    BY <2>1
  <2> HIDE DEF names, part, X, paths, version
  <2>6. DOMAIN names = 1..Len(names) /\ Len(names) \in Nat
    BY <2>3
  <2>7. \A j \in DOMAIN names : part(i)[j] = ParseOperation(paths[i], names[j], version) /\ part(i)[j] \in these
    BY <2>3, <2>4 DEF Range
  <2>8. part(i) \in Seq(X)
    <3> HIDE DEF these
    <3> QED
      BY <2>4, <2>5, <2>6, <2>7
  <2>9. Range(part(i)) = these
    <3>1. ASSUME NEW o \in these PROVE o \in Range(part(i))
      <4>1. PICK m \in DOMAIN paths[i].operations : o = ParseOperation(paths[i], m, version)
        OBVIOUS
      <4>2. PICK j \in DOMAIN names : names[j] = m
        BY <2>3 DEF Range
      <4> QED
        BY <2>4, <2>7, <4>1, <4>2 DEF Range
    <3>2. ASSUME NEW o \in Range(part(i)) PROVE o \in these
      <4> HIDE DEF these
      <4> QED
        BY <2>4, <2>7, <3>2 DEF Range
    <3> QED
      BY <3>1, <3>2
  <2> QED
    BY <2>8, <2>9
<1> HIDE DEF part
<1>5. seqs \in Seq(Seq(X))
  <2> HIDE DEF paths, X
  <2> QED
    BY <1>3, <1>4
<1>6. operations \in Seq(X) /\ Range(operations) = UNION {Range(seqs[i]) : i \in DOMAIN seqs}
  <2> HIDE DEF X, seqs, operations
  <2> QED
    BY <1>1, <1>5, FlattenIs
<1>7. Range(operations) = X
  <2>1. DOMAIN seqs = DOMAIN paths /\ \A i \in DOMAIN paths : seqs[i] = part(i)
    OBVIOUS
  <2> HIDE DEF seqs, operations
  <2>2. ASSUME NEW o \in Range(operations) PROVE o \in X
    <3>1. PICK i \in DOMAIN paths : o \in Range(part(i))
      BY <1>6, <2>1, <2>2
    <3> QED
      BY <1>3, <1>4, <3>1
  <2>3. ASSUME NEW o \in X PROVE o \in Range(operations)
    <3>1. PICK item \in Range(paths) : o \in {ParseOperation(item, m, version) : m \in DOMAIN item.operations}
      OBVIOUS
    <3>2. PICK i \in DOMAIN paths : paths[i] = item
      BY <3>1 DEF Range
    <3>3. o \in Range(part(i))
      BY <1>4, <3>1, <3>2
    <3> QED
      BY <1>6, <2>1, <3>3
  <2> QED
    BY <2>2, <2>3
<1> HIDE DEF operations
<1>8. \A o : o \in X <=> \E item \in Range(paths) : \E m \in DOMAIN item.operations : o = ParseOperation(item, m, version)
  <2>1. \A o : o \in X <=>
           \E item \in Range(paths) : o \in {ParseOperation(item, m, version) : m \in DOMAIN item.operations}
    <3> DEFINE of(item) == {ParseOperation(item, m, version) : m \in DOMAIN item.operations}
    <3>1. X = UNION {of(item) : item \in Range(paths)}
      OBVIOUS
    <3> HIDE DEF of, X, paths, version
    <3>2. \A o : o \in X <=> \E item \in Range(paths) : o \in of(item)
      BY <3>1
    <3> QED
      BY <3>2, Zenon DEF of
  <2> HIDE DEF X
  <2> QED
    BY <2>1, Zenon
<1>9. Templated(operations)
  <2>1. \A o \in Range(operations) : o.template \in Seq(Matchers)
    <3> TAKE o \in Range(operations)
    <3>1. PICK item \in Range(paths) : \E m \in DOMAIN item.operations : o = ParseOperation(item, m, version)
      BY <1>7, <1>8
    <3>2. PICK m \in DOMAIN item.operations : o = ParseOperation(item, m, version)
      BY <3>1
    <3> QED
      BY <3>2, PathIs, OperationLoaded
  <2>2. operations \in Seq(Range(operations))
    BY <1>6, <1>7
  <2> QED
    BY <2>1, <2>2 DEF Templated
<1> HIDE DEF X
<1> QED
  BY <1>7, <1>8, <1>9, Zenon DEF operations, paths, version

\* A route is shadowed exactly if a path of the document with a GET operation fits it.
LEMMA ShadowedIs ==
  ASSUME NEW c \in Contracts
  PROVE  Shadowed(Build(ParseOperations(c.document)), c.routes) <=>
           \E item \in Range(c.document.paths), route \in c.routes :
              "get" \in DOMAIN item.operations /\ Fits(item.template, route)
<1> DEFINE operations == ParseOperations(c.document)
           paths == c.document.paths
           version == c.document.version
<1>1. /\ Templated(operations)
      /\ \A o \in Range(operations) :
            \E item \in Range(paths) : \E m \in DOMAIN item.operations : o = ParseOperation(item, m, version)
      /\ \A item \in Range(paths) : \A m \in DOMAIN item.operations :
            ParseOperation(item, m, version) \in Range(operations)
  BY OperationsParsed, Zenon
<1>2. \A route \in c.routes : Len(route) \in Nat
  BY ContractsAssumption
<1>3. \A item \in Range(paths) : \A m \in DOMAIN item.operations :
         /\ ParseOperation(item, m, version).method = m
         /\ ParseOperation(item, m, version).template = item.template
  BY OperationLoaded
<1> HIDE DEF operations, paths
<1>4. ASSUME NEW route \in c.routes
      PROVE  MatchRoute(Build(operations), "get", route) # {} <=>
               \E item \in Range(paths) : "get" \in DOMAIN item.operations /\ Fits(item.template, route)
  <2>1. MatchRoute(Build(operations), "get", route) # {} <=> Answering(operations, "get", route) # {}
    BY <1>1, <1>2, MatchRouteIf
  <2>2. Answering(operations, "get", route) # {} <=>
          \E o \in Range(operations) : o.method = "get" /\ Fits(o.template, route)
    BY DEF Answering, Range
  <2>3. (\E o \in Range(operations) : o.method = "get" /\ Fits(o.template, route)) <=>
          \E item \in Range(paths) : "get" \in DOMAIN item.operations /\ Fits(item.template, route)
    <3>1. ASSUME NEW o \in Range(operations), o.method = "get", Fits(o.template, route)
          PROVE  \E item \in Range(paths) : "get" \in DOMAIN item.operations /\ Fits(item.template, route)
      <4>1. PICK item \in Range(paths) : \E m \in DOMAIN item.operations : o = ParseOperation(item, m, version)
        BY <1>1
      <4>2. PICK m \in DOMAIN item.operations : o = ParseOperation(item, m, version)
        BY <4>1
      <4> QED
        BY <1>3, <3>1, <4>2
    <3>2. ASSUME NEW item \in Range(paths), "get" \in DOMAIN item.operations, Fits(item.template, route)
          PROVE  \E o \in Range(operations) : o.method = "get" /\ Fits(o.template, route)
      BY <1>1, <1>3, <3>2
    <3> QED
      BY <3>1, <3>2
  <2> QED
    BY <2>1, <2>2, <2>3
<1> QED
  BY <1>4, Zenon DEF Shadowed, operations, paths

\* The one thing the action does: the property holds of what is loaded.
LEMMA LoadRight ==
  ASSUME contract \in Contracts, FromConfig
  PROVE  LoadedAsDeclared'
<1> DEFINE document == contract.document
           version == document.version
           paths == document.paths
           operations == ParseOperations(document)
           loaded == [operations |-> operations, router |-> Build(operations)]
<1>1. /\ \A o \in Range(operations) :
            \E item \in Range(paths) : \E m \in DOMAIN item.operations : o = ParseOperation(item, m, version)
      /\ \A item \in Range(paths) : \A m \in DOMAIN item.operations :
            ParseOperation(item, m, version) \in Range(operations)
  BY OperationsParsed, Zenon
<1>2. Shadowed(Build(operations), contract.routes) <=>
           \E item \in Range(paths), route \in contract.routes :
              "get" \in DOMAIN item.operations /\ Fits(item.template, route)
  BY ShadowedIs, Zenon
<1>3. \A item \in Range(paths) : \A m \in DOMAIN item.operations :
         /\ LoadedFrom(ParseOperation(item, m, version), item, version)
         /\ ParseOperation(item, m, version).method = m
  BY OperationLoaded
<1>4. contract' = contract /\ runtime' = LET l == FromResolved(document) IN
                  IF "error" \in DOMAIN l THEN l
                  ELSE IF Shadowed(l.router, contract.routes) THEN [error |-> "config"] ELSE l
  BY Zenon DEF FromConfig
<1>5. FromResolved(document) =
         IF version \notin {"3.0", "3.1"} \/ ~document.hasPaths THEN [error |-> "parse"] ELSE loaded
  BY Zenon DEF FromResolved
<1>6. LoadedAsDeclared' =
        /\ "error" \in DOMAIN runtime' => ~Servable(contract)
        /\ "operations" \in DOMAIN runtime' =>
             /\ Servable(contract)
             /\ \A o \in Range(runtime'.operations) : \E item \in Range(paths) : LoadedFrom(o, item, version)
             /\ \A item \in Range(paths) : \A m \in DOMAIN item.operations :
                   \E o \in Range(runtime'.operations) : o.method = m /\ LoadedFrom(o, item, version)
  BY <1>4 DEF LoadedAsDeclared
<1> HIDE DEF operations, version, paths
<1>7. /\ loaded.operations = operations /\ loaded.router = Build(operations)
      /\ DOMAIN loaded = {"operations", "router"}
      /\ \A e : DOMAIN [error |-> e] = {"error"}
  OBVIOUS
<1>8. Servable(contract) <=>
        /\ version \in {"3.0", "3.1"} /\ document.hasPaths
        /\ ~Shadowed(Build(operations), contract.routes)
  BY <1>2, Zenon DEF Servable, version, paths
<1> HIDE DEF loaded, document
<1>9. CASE version \notin {"3.0", "3.1"} \/ ~document.hasPaths
  <2>1. runtime' = [error |-> "parse"]
    BY <1>4, <1>5, <1>7, <1>9
  <2>2. ~Servable(contract)
    BY <1>8, <1>9
  <2>3. "operations" \notin DOMAIN runtime'
    BY <1>7, <2>1
  <2> QED
    BY <1>6, <2>2, <2>3
<1>10. CASE version \in {"3.0", "3.1"} /\ document.hasPaths
  <2>1. runtime' = IF Shadowed(Build(operations), contract.routes) THEN [error |-> "config"] ELSE loaded
    BY <1>4, <1>5, <1>7, <1>10
  <2>2. CASE Shadowed(Build(operations), contract.routes)
    <3>1. runtime' = [error |-> "config"] /\ ~Servable(contract)
      BY <1>8, <2>1, <2>2
    <3>2. "operations" \notin DOMAIN runtime'
      BY <1>7, <3>1
    <3> QED
      BY <1>6, <3>1, <3>2
  <2>3. CASE ~Shadowed(Build(operations), contract.routes)
    <3>1. runtime' = loaded /\ Servable(contract)
      BY <1>8, <1>10, <2>1, <2>3
    <3>2. "error" \notin DOMAIN runtime' /\ runtime'.operations = operations
      BY <1>7, <3>1
    <3>3. \A o \in Range(operations) : \E item \in Range(paths) : LoadedFrom(o, item, version)
      BY <1>1, <1>3
    <3>4. \A item \in Range(paths) : \A m \in DOMAIN item.operations :
             \E o \in Range(operations) : o.method = m /\ LoadedFrom(o, item, version)
      BY <1>1, <1>3
    <3> QED
      BY <1>6, <3>1, <3>2, <3>3, <3>4
  <2> QED
    BY <2>2, <2>3
<1> QED
  BY <1>9, <1>10

\* Property LoadedAsDeclared (http/openapi.rs, from_resolved and parse_parameters;
\* http/mod.rs, from_config_with): for every document, a server starts exactly if its
\* document can be served, and then with exactly the operations the document declares.
THEOREM LoadedAsDeclaredHolds == ContractSpec => []LoadedAsDeclared
<1> DEFINE Inv == contract \in Contracts /\ LoadedAsDeclared
<1>1. ContractInit(Contracts) => Inv
  BY DEF ContractInit, LoadedAsDeclared
<1>2. Inv /\ [FromConfig]_contractVars => Inv'
  <2> SUFFICES ASSUME Inv, [FromConfig]_contractVars PROVE Inv'
    OBVIOUS
  <2>1. CASE FromConfig
    <3>1. contract' \in Contracts
      BY <2>1 DEF FromConfig
    <3> QED
      BY <2>1, <3>1, LoadRight
  <2>2. CASE UNCHANGED contractVars
    BY <2>2 DEF contractVars, LoadedAsDeclared
  <2> QED
    BY <2>1, <2>2
<1> QED
  BY <1>1, <1>2, PTL DEF ContractSpec

-----------------------------------------------------------------------------
(* The HTTP request: what each stage of the handler has established.       *)

Working == {"mediaType", "parse", "validate", "proxy", "mock", "resolve", "build"}
Passed == {"proxy", "mock", "resolve", "build"}

\* The operation is the best one for the request, with the values of its parameters.
IsRouted ==
  /\ Config.openapi
  /\ matched.index \in 1..Len(Operations)
  /\ matched.index \in BestMatch(Operations, Request.method, Request.path)
  /\ matched.params = Values(Operation.template, Request.path)

MediaFits ==
  Request.body # "none" /\ Operation.media # <<>> => MediaTypeIsAccepted(Operation.media, Request.contentType)
BodyFits ==
  /\ Request.parametersValid
  /\ Request.body = "none" => ~Operation.required
  /\ IsParsed => Request.body \notin {"malformed", "violating"}

\* The mock is a response that the document declares, as the client prefers it.
MockRight ==
  \E r \in Range(Operation.responses) :
     /\ mock.status = ParseStatusCode(r.status)
     /\ PreferredCode # {} => r.status \in PreferredCode
     /\ PreferredCode = {} /\ (\E s \in Range(Operation.responses) : Is2xx(s.status)) => Is2xx(r.status)
     /\ IF r.content = <<>> THEN mock.type = "none" /\ mock.body = "none"
        ELSE /\ \E c \in Range(r.content) : c.type = mock.type
             /\ (\E a \in Range(Request.accept) : a.type # Anything) =>
                   \E a \in Range(Request.accept) : a.type = mock.type

MockFields == {"failed", "status", "type", "body"}

\* What is so at a stage that is not the last.
StageInv ==
  /\ stage # "done" => answer = NoAnswer
  /\ stage \in {"route", "match"} => matched.index = 0
  /\ stage # "route" /\ stage # "done" => ~IsControl /\ Request.body # "huge"
  /\ stage \in Working => IsRouted
  /\ stage \in Working \ {"mediaType"} => MediaFits
  /\ stage \in Working \ {"mediaType", "parse"} => ~(IsParsed /\ Request.body = "malformed")
  /\ stage \in Passed => BodyFits
  /\ stage \notin {"build", "done"} => touched = {}
  /\ stage = "build" => touched \subseteq {"scenario"}
  /\ stage \in {"resolve", "build"} => mock.status # "none" /\ mock.type # "problem" /\ DOMAIN mock = MockFields
  /\ stage = "resolve" \/ (stage = "build" /\ touched = {}) => MockRight

\* What is so of an answer.
DoneInv ==
  stage = "done" =>
    /\ answer # NoAnswer
    /\ matched.index \in 0..Len(Operations)
    /\ touched \subseteq {"scenario", "upstream", "callback", "bareCallback", "reset"}
    /\ RouteExact
    /\ Gated
    /\ MockFaithful

HttpInv ==
  /\ stage \in Stages
  /\ IsDeclared(Operations) /\ IsRequest(Request)
  /\ StageInv
  /\ DoneInv

LEMMA HttpInitially == Init => HttpInv
<1> SUFFICES ASSUME Init PROVE HttpInv
  OBVIOUS
<1>1. PICK f \in DOMAIN Families :
        case \in [operations : Families[f].operations, config : Families[f].configs, request : Families[f].requests]
  BY DEF Init
<1>2. IsDeclared(Operations) /\ IsRequest(Request)
  BY <1>1, FamiliesAssumption DEF Operations, Request
<1>3. stage = "route" /\ matched.index = 0 /\ answer = NoAnswer /\ touched = {}
  BY DEF Init, Accepted
<1> QED
  BY <1>2, <1>3 DEF HttpInv, StageInv, DoneInv, Stages, Working, Passed

\* Nothing that is said of a case changes while the case and the match stay.
LEMMA SameRequest ==
  ASSUME UNCHANGED case
  PROVE  /\ Request' = Request /\ Config' = Config /\ Operations' = Operations /\ (IsControl' <=> IsControl)
         /\ (Acceptable' <=> Acceptable)
         /\ UNCHANGED matched => Operation' = Operation /\ (IsParsed' <=> IsParsed) /\ (IsRouted' <=> IsRouted)
                                 /\ (MediaFits' <=> MediaFits) /\ (BodyFits' <=> BodyFits)
<1>1. Request' = Request /\ Config' = Config /\ Operations' = Operations
  BY DEF Request, Config, Operations
<1>2. (IsControl' <=> IsControl) /\ (Acceptable' <=> Acceptable)
  BY <1>1, Zenon DEF IsControl, Acceptable
<1>3. ASSUME UNCHANGED matched PROVE Operation' = Operation /\ (IsParsed' <=> IsParsed)
  BY <1>1, <1>3, Zenon DEF Operation, IsParsed
<1>4. ASSUME UNCHANGED matched PROVE (IsRouted' <=> IsRouted)
  BY <1>1, <1>3, <1>4, Zenon DEF IsRouted
<1>5. ASSUME UNCHANGED matched PROVE (MediaFits' <=> MediaFits) /\ (BodyFits' <=> BodyFits)
  BY <1>1, <1>3, <1>5, Zenon DEF MediaFits, BodyFits
<1> QED
  BY <1>1, <1>2, <1>3, <1>4, <1>5

\* Validated requests are the ones that the document allows.
LEMMA PassedIsAcceptable ==
  ASSUME HttpInv, stage \in Passed
  PROVE  Acceptable
<1>1. /\ Request.body # "huge" /\ IsRouted /\ MediaFits /\ BodyFits
      /\ Request.body \in {"none", "huge", "malformed", "violating", "fine"}
  BY DEF HttpInv, StageInv, Working, Passed, IsRequest
<1>2. /\ matched.index \in BestMatch(Operations, Request.method, Request.path)
      /\ Operations[matched.index] = Operation
  BY <1>1 DEF IsRouted, Operation
<1>3. Request.body # "none" /\ Operation.media # <<>> =>
        Request.contentType # NoText /\ \E d \in Range(Operation.media) : Covers(d, Request.contentType)
  BY <1>1, Zenon DEF MediaFits, MediaTypeIsAccepted
<1>4. Operation.schema /\ Request.contentType = "application/json" => Request.body \in {"none", "fine"}
  BY <1>1 DEF BodyFits, IsParsed
<1>5. Config.openapi /\ Request.parametersValid /\ (Request.body = "none" => ~Operation.required)
  BY <1>1 DEF IsRouted, BodyFits
<1> QED
  BY <1>1, <1>2, <1>3, <1>4, <1>5, Zenon DEF Acceptable

\* An early return leaves nothing behind; what it says must be right.
LEMMA RefuseRight ==
  ASSUME HttpInv, NEW problem, Refuse(problem), stage \notin {"build", "done"},
         problem.status # "none", problem.type = "problem",
         problem.extensions # {} => problem.errors = {} /\ (IsControl \/ Acceptable),
         \/ IsControl \/ Request.body = "huge" \/ ~Config.openapi \/ stage \in Working
         \/ /\ BestMatch(Operations, Request.method, Request.path) = {}
            /\ stage = "match" /\ problem.status = "404"
  PROVE  HttpInv'
<1>1. /\ stage' = "done" /\ answer' = problem /\ UNCHANGED <<case, matched, mock, touched>>
      /\ touched = {}
  BY DEF Refuse, HttpInv, StageInv
<1>2. /\ Request' = Request /\ Config' = Config /\ Operations' = Operations /\ (IsControl' <=> IsControl)
      /\ (Acceptable' <=> Acceptable) /\ Operation' = Operation
  BY <1>1, SameRequest
<1>3. answer' # NoAnswer
  <2>1. NoAnswer.status = "none"
    BY DEF NoAnswer, Answered
  <2>2. NoAnswer' = NoAnswer
    BY DEF NoAnswer, Answered
  <2> QED
    BY <1>1, <2>1
<1>4. matched.index \in 0..Len(Operations)
  <2>1. Len(Operations) \in Nat
    BY TemplatesAre DEF HttpInv, IsDeclared
  <2>2. matched.index = 0 \/ matched.index \in 1..Len(Operations)
    BY DEF HttpInv, StageInv, Stages, Working, IsRouted
  <2> QED
    BY <2>1, <2>2
<1>5. RouteExact'
  <2>1. CASE IsControl \/ Request.body = "huge" \/ ~Config.openapi
    BY <1>2, <2>1 DEF RouteExact
  <2>2. CASE stage \in Working
    <3>1. IsRouted
      BY <2>2 DEF HttpInv, StageInv
    <3>2. /\ matched'.index \in BestMatch(Operations, Request.method, Request.path)'
          /\ matched'.params = Values(Operation.template, Request.path)'
      BY <1>1, <1>2, <3>1 DEF IsRouted
    <3> QED
      BY <3>2, Zenon DEF RouteExact
  <2>3. CASE /\ BestMatch(Operations, Request.method, Request.path) = {}
             /\ stage = "match" /\ problem.status = "404"
    <3>1. matched.index = 0
      BY <2>3 DEF HttpInv, StageInv
    <3>2. BestMatch(Operations, Request.method, Request.path)' = {} /\ matched'.index = 0 /\ answer'.status = "404"
      BY <1>1, <1>2, <2>3, <3>1
    <3> QED
      BY <3>2, Zenon DEF RouteExact
  <2> QED
    BY <2>1, <2>2, <2>3
<1>6. Gated'
  <2>1. touched' = {} /\ (answer'.extensions # {} => answer'.errors = {} /\ (IsControl' \/ Acceptable'))
    BY <1>1, <1>2
  <2> QED
    BY <2>1, Zenon DEF Gated
<1>7. MockFaithful'
  BY <1>1, Zenon DEF MockFaithful, Unaided
<1>8. DoneInv'
  BY <1>1, <1>2, <1>3, <1>4, <1>5, <1>6, <1>7 DEF DoneInv
<1> QED
  BY <1>1, <1>2, <1>8 DEF HttpInv, StageInv, Stages, Working, Passed

\* A problem has a status and members as its constructor says.
LEMMA ProblemsAre ==
  /\ \A status, issues : ValidationError(status, issues).type = "problem" /\ StatefulError(status, issues).type = "problem"
  /\ NotFound.type = "problem" /\ UnsupportedMediaType.type = "problem"
  /\ NotAcceptable.type = "problem" /\ PayloadTooLarge.type = "problem"
  /\ \A status, issues : ValidationError(status, issues).status = status /\ ValidationError(status, issues).extensions = {}
  /\ \A status, members : StatefulError(status, members).status = status /\ StatefulError(status, members).errors = {}
  /\ NotFound.status = "404" /\ NotFound.extensions = {}
  /\ UnsupportedMediaType.status # "none" /\ UnsupportedMediaType.extensions = {}
  /\ NotAcceptable.status # "none" /\ NotAcceptable.extensions = {}
  /\ PayloadTooLarge.status # "none" /\ PayloadTooLarge.extensions = {}
BY DEF ValidationError, StatefulError, NotFound, UnsupportedMediaType, NotAcceptable, PayloadTooLarge, ProblemDetails

LEMMA ControlInv == HttpInv /\ Control => HttpInv'
<1> SUFFICES ASSUME HttpInv, Control PROVE HttpInv'
  OBVIOUS
<1>1. stage = "route" /\ IsControl
  BY DEF Control
<1>2. CASE Refuse(StatefulError("401", {"control"}))
  BY <1>1, <1>2, RefuseRight, ProblemsAre
<1>3. CASE Refuse(NotFound)
  BY <1>1, <1>3, RefuseRight, ProblemsAre
<1>4. CASE /\ Request.token /\ Config.scenarios
           /\ stage' = "done"
           /\ answer' = Answered("200", "application/json", "control")
           /\ touched' = IF Request.target = "reset" THEN {"reset"} ELSE {}
           /\ UNCHANGED <<case, matched, mock>>
  <2>1. /\ Request' = Request /\ Config' = Config /\ Operations' = Operations /\ IsControl'
    BY <1>1, <1>4, SameRequest
  <2>2. /\ answer'.status = "200" /\ answer'.errors = {} /\ answer'.extensions = {}
        /\ NoAnswer'.status = "none" /\ touched' \subseteq {"reset"}
    BY <1>4 DEF Answered, NoAnswer
  <2>3. RouteExact'
    BY <2>1, Zenon DEF RouteExact
  <2>4. touched' \cap ({"scenario", "upstream"} \cup Outgoing') = {} /\ touched' \cap Outgoing' = {}
    BY <2>2 DEF Outgoing
  <2>5. Request'.token /\ Config'.control
    BY <1>1, <1>4, <2>1 DEF IsControl
  <2>6. Gated'
    BY <2>2, <2>4, <2>5, Zenon DEF Gated
  <2>7. matched'.index \in 0..Len(Operations)'
    <3>1. Len(Operations) \in Nat /\ matched.index = 0
      BY <1>1, TemplatesAre DEF HttpInv, IsDeclared, StageInv
    <3> QED
      BY <1>4, <2>1, <3>1
  <2>8. DoneInv'
    <3>1. answer' # NoAnswer'
      BY <2>2
    <3>2. touched' \subseteq {"scenario", "upstream", "callback", "bareCallback", "reset"}
      BY <2>2
    <3>3. MockFaithful'
      BY <2>1, Zenon DEF MockFaithful, Unaided
    <3> QED
      BY <2>3, <2>6, <2>7, <3>1, <3>2, <3>3 DEF DoneInv
  <2> QED
    BY <1>4, <2>1, <2>8 DEF HttpInv, StageInv, Stages, Working, Passed
<1> QED
  BY <1>2, <1>3, <1>4 DEF Control

\* What is known stays known when the handler goes on to its next stage.
LEMMA ProceedKeeps ==
  ASSUME HttpInv, NEW next, Proceed(next)
  PROVE  /\ stage' = next /\ UNCHANGED <<case, matched, mock, answer, touched>>
         /\ IsDeclared(Operations)' /\ IsRequest(Request)' /\ Request' = Request
         /\ (IsControl' <=> IsControl) /\ (IsParsed' <=> IsParsed) /\ (IsRouted' <=> IsRouted)
         /\ (MediaFits' <=> MediaFits) /\ (BodyFits' <=> BodyFits) /\ NoAnswer' = NoAnswer
<1>1. stage' = next /\ UNCHANGED <<case, matched, mock, answer, touched>>
  BY DEF Proceed
<1>2. IsDeclared(Operations)' /\ IsRequest(Request)'
  BY <1>1, SameRequest DEF HttpInv
<1>3. NoAnswer' = NoAnswer
  BY DEF NoAnswer, Answered
<1> QED
  BY <1>1, <1>2, <1>3, SameRequest

LEMMA ReadBodyInv == HttpInv /\ ReadBody => HttpInv'
<1> SUFFICES ASSUME HttpInv, ReadBody PROVE HttpInv'
  OBVIOUS
<1>1. stage = "route" /\ ~IsControl
  BY DEF ReadBody
<1>2. CASE Request.body = "huge" /\ Refuse(PayloadTooLarge)
  BY <1>1, <1>2, RefuseRight, ProblemsAre
<1>3. CASE Request.body # "huge" /\ Proceed("match")
  BY <1>1, <1>3, ProceedKeeps DEF HttpInv, StageInv, DoneInv, Stages, Working, Passed
<1> QED
  BY <1>2, <1>3 DEF ReadBody

LEMMA MatchOperationInv == HttpInv /\ MatchOperation => HttpInv'
<1> SUFFICES ASSUME HttpInv, MatchOperation PROVE HttpInv'
  OBVIOUS
<1> DEFINE route == MatchRoute(Build(Operations), Request.method, Request.path)
<1>1. stage = "match" /\ ~IsControl /\ Request.body # "huge"
  BY DEF MatchOperation, HttpInv, StageInv
<1>2. Templated(Operations) /\ Len(Request.path) \in Nat
  BY DEF HttpInv, IsDeclared, IsRequest
<1>3. /\ route = {} => BestMatch(Operations, Request.method, Request.path) = {}
      /\ \A found \in route :
            /\ found.index \in 1..Len(Operations)
            /\ found.index \in BestMatch(Operations, Request.method, Request.path)
            /\ found.params = Values(Operations[found.index].template, Request.path)
  BY <1>2, MatchRouteRight
<1> HIDE DEF route
<1>4. \/ ~Config.openapi /\ Refuse(NotFound)
      \/ Config.openapi /\ route = {} /\ Refuse(NotFound)
      \/ /\ Config.openapi /\ matched' \in route /\ stage' = "mediaType"
         /\ UNCHANGED <<case, mock, answer, touched>>
  <2> DEFINE found == IF Config.openapi THEN route ELSE {}
  <2>1. \/ found = {} /\ Refuse(NotFound)
        \/ /\ found # {} /\ matched' \in found /\ stage' = "mediaType"
           /\ UNCHANGED <<case, mock, answer, touched>>
    BY Zenon DEF MatchOperation, route
  <2>2. CASE ~Config.openapi
    BY <2>1, <2>2
  <2>3. CASE Config.openapi
    BY <2>1, <2>3
  <2> QED
    BY <2>2, <2>3
<1>5. CASE ~Config.openapi /\ Refuse(NotFound)
  BY <1>1, <1>5, RefuseRight, ProblemsAre
<1>6. CASE Config.openapi /\ route = {} /\ Refuse(NotFound)
  BY <1>1, <1>3, <1>6, RefuseRight, ProblemsAre
<1>7. CASE /\ Config.openapi /\ matched' \in route /\ stage' = "mediaType"
           /\ UNCHANGED <<case, mock, answer, touched>>
  <2>1. /\ Request' = Request /\ Config' = Config /\ Operations' = Operations /\ ~IsControl'
    BY <1>1, <1>7, SameRequest
  <2>2. /\ matched'.index \in 1..Len(Operations)
        /\ matched'.index \in BestMatch(Operations, Request.method, Request.path)
        /\ matched'.params = Values(Operations[matched'.index].template, Request.path)
    BY <1>3, <1>7
  <2>3. Operation' = Operations[matched'.index]
    BY <2>1 DEF Operation
  <2>4. IsRouted'
    BY <1>7, <2>1, <2>2, <2>3, Zenon DEF IsRouted
  <2>5. NoAnswer' = NoAnswer
    BY DEF NoAnswer, Answered
  <2> QED
    BY <1>1, <1>7, <2>1, <2>4, <2>5 DEF HttpInv, StageInv, DoneInv, Stages, Working, Passed
<1> QED
  BY <1>4, <1>5, <1>6, <1>7

LEMMA CheckMediaTypeInv == HttpInv /\ CheckMediaType => HttpInv'
<1> SUFFICES ASSUME HttpInv, CheckMediaType PROVE HttpInv'
  OBVIOUS
<1>1. stage = "mediaType" /\ stage \in Working
  BY DEF CheckMediaType, Working
<1>2. Refuse(UnsupportedMediaType) \/ (MediaFits /\ Proceed("parse"))
  BY Zenon DEF CheckMediaType, MediaFits
<1>3. CASE Refuse(UnsupportedMediaType)
  BY <1>1, <1>3, RefuseRight, ProblemsAre
<1>4. CASE MediaFits /\ Proceed("parse")
  BY <1>1, <1>4, ProceedKeeps DEF HttpInv, StageInv, DoneInv, Stages, Working, Passed
<1> QED
  BY <1>2, <1>3, <1>4

LEMMA ParseBodyInv == HttpInv /\ ParseBody => HttpInv'
<1> SUFFICES ASSUME HttpInv, ParseBody PROVE HttpInv'
  OBVIOUS
<1>1. stage = "parse" /\ stage \in Working
  BY DEF ParseBody, Working
<1>2. CASE Refuse(ValidationError("400", {"/body"}))
  BY <1>1, <1>2, RefuseRight, ProblemsAre
<1>3. CASE ~(IsParsed /\ Request.body = "malformed") /\ Proceed("validate")
  BY <1>1, <1>3, ProceedKeeps DEF HttpInv, StageInv, DoneInv, Stages, Working, Passed
<1> QED
  BY <1>2, <1>3 DEF ParseBody

LEMMA ValidateInv == HttpInv /\ Validate => HttpInv'
<1> SUFFICES ASSUME HttpInv, Validate PROVE HttpInv'
  OBVIOUS
<1>1. stage = "validate" /\ stage \in Working
  BY DEF Validate, Working
<1>2. CASE Refuse(ValidationError("400", Issues))
  BY <1>1, <1>2, RefuseRight, ProblemsAre
<1>3. CASE Issues = {} /\ Proceed(IF Config.proxy THEN "proxy" ELSE "mock")
  <2>1. BodyFits
    BY <1>1, <1>3 DEF Issues, BodyFits, HttpInv, StageInv, Working
  <2>2. PICK next \in {"proxy", "mock"} : Proceed(next)
    BY <1>3
  <2> QED
    BY <1>1, <2>1, <2>2, ProceedKeeps DEF HttpInv, StageInv, DoneInv, Stages, Working, Passed
<1> QED
  BY <1>2, <1>3 DEF Validate

-----------------------------------------------------------------------------
(* What the client prefers: the fold over the headers keeps the last code. *)

Segments == [key : STRING, value : STRING]
Headers == [readable : BOOLEAN, segments : Seq(Segments)]
DirectiveSets ==
  [code : SUBSET STRING, example : SUBSET STRING, mediaType : SUBSET STRING, dynamic : BOOLEAN,
   scenario : SUBSET STRING, session : SUBSET STRING]

LEMMA LastOfSome ==
  ASSUME NEW n \in Nat, NEW S, S \subseteq 1..n
  PROVE  /\ S # {} => {k \in S : \A m \in S : m <= k} = {LastOf(S)}
         /\ LastOf(S \cup {n + 1}) = n + 1
<1>1. ASSUME S # {} PROVE {k \in S : \A m \in S : m <= k} = {LastOf(S)}
  <2>1. LastOf(S) \in S /\ \A k \in S : LastOf(S) >= k
    BY <1>1, LastIs
  <2>2. \A k \in S : k \in Nat
    OBVIOUS
  <2>3. ASSUME NEW k \in S PROVE (\A m \in S : m <= k) <=> k = LastOf(S)
    <3>1. ASSUME \A m \in S : m <= k PROVE k = LastOf(S)
      <4>1. LastOf(S) <= k /\ LastOf(S) >= k /\ LastOf(S) \in Nat /\ k \in Nat
        BY <2>1, <2>2, <3>1
      <4> QED
        BY <4>1
    <3>2. ASSUME k = LastOf(S) PROVE \A m \in S : m <= k
      BY <2>1, <2>2, <3>2
    <3> QED
      BY <3>1, <3>2
  <2> QED
    BY <2>1, <2>3
<1>2. LastOf(S \cup {n + 1}) = n + 1
  <2> DEFINE T == S \cup {n + 1}
  <2>1. T \subseteq 1..(n + 1) /\ T # {} /\ n + 1 \in Nat /\ n + 1 \in T
    OBVIOUS
  <2> HIDE DEF T
  <2>2. LastOf(T) \in T /\ \A k \in T : LastOf(T) >= k
    BY <2>1, LastIs
  <2>3. LastOf(T) \in 1..(n + 1) /\ LastOf(T) >= n + 1
    BY <2>1, <2>2
  <2>4. LastOf(T) = n + 1
    BY <2>3
  <2> QED
    BY <2>4 DEF T
<1> QED
  BY <1>1, <1>2

LEMMA DirectiveIs ==
  ASSUME NEW directives \in DirectiveSets, NEW segment \in Segments
  PROVE  /\ ParseDirective(directives, segment) \in DirectiveSets
         /\ ParseDirective(directives, segment).code =
              IF segment.key = "code" THEN {segment.value} \ NoCode ELSE directives.code
<1>1. segment.value \in STRING
  BY DEF Segments
<1> DEFINE named == segment.key \in {"scenario", "session", "example"} /\ segment.value # NoText
<1>2. CASE segment.key = "code"
  <2>1. ParseDirective(directives, segment) = [directives EXCEPT !.code = {segment.value} \ NoCode]
    BY <1>2 DEF ParseDirective
  <2> QED
    BY <1>1, <1>2, <2>1 DEF DirectiveSets
<1>3. CASE segment.key = "dynamic"
  <2>1. ParseDirective(directives, segment) =
          [directives EXCEPT !.dynamic = segment.value \in {"true", "True", "TRUE"}]
    BY <1>3 DEF ParseDirective
  <2> DEFINE wanted == segment.value \in {"true", "True", "TRUE"}
  <2>2. wanted \in BOOLEAN
    OBVIOUS
  <2> HIDE DEF wanted
  <2>3. [directives EXCEPT !.dynamic = wanted] \in DirectiveSets /\ [directives EXCEPT !.dynamic = wanted].code = directives.code
    BY <2>2 DEF DirectiveSets
  <2> QED
    BY <1>3, <2>1, <2>3 DEF wanted
<1>4. CASE segment.key \notin {"code", "dynamic"} /\ named
  <2>1. ParseDirective(directives, segment) = [directives EXCEPT ![segment.key] = {segment.value}]
    BY <1>4 DEF ParseDirective
  <2> QED
    BY <1>1, <1>4, <2>1 DEF DirectiveSets
<1>5. CASE segment.key \notin {"code", "dynamic"} /\ ~named
  <2>1. ParseDirective(directives, segment) = directives
    BY <1>5 DEF ParseDirective
  <2> QED
    BY <1>5, <2>1
<1> QED
  BY <1>2, <1>3, <1>4, <1>5

CodesIn(segments, n) == {j \in 1..n : segments[j].key = "code"}
CodeAfter(code, segments, n) ==
  IF CodesIn(segments, n) = {} THEN code ELSE {segments[LastOf(CodesIn(segments, n))].value} \ NoCode

LEMMA CodeAfterNext ==
  ASSUME NEW n \in Nat, NEW segments, NEW code
  PROVE  CodeAfter(code, segments, n + 1) =
           IF segments[n + 1].key = "code" THEN {segments[n + 1].value} \ NoCode ELSE CodeAfter(code, segments, n)
<1>1. 1..(n + 1) = 1..n \cup {n + 1}
  OBVIOUS
<1>2. CASE segments[n + 1].key = "code"
  <2>1. CodesIn(segments, n + 1) = CodesIn(segments, n) \cup {n + 1} /\ CodesIn(segments, n) \subseteq 1..n
    BY <1>1, <1>2 DEF CodesIn
  <2>2. LastOf(CodesIn(segments, n + 1)) = n + 1
    BY <2>1, LastOfSome
  <2> QED
    BY <1>2, <2>1, <2>2 DEF CodeAfter
<1>3. CASE segments[n + 1].key # "code"
  <2>1. CodesIn(segments, n + 1) = CodesIn(segments, n)
    BY <1>1, <1>3 DEF CodesIn
  <2> QED
    BY <1>3, <2>1 DEF CodeAfter
<1> QED
  BY <1>2, <1>3

LEMMA ParsePreferValueIs ==
  ASSUME NEW directives \in DirectiveSets, NEW value \in Headers
  PROVE  /\ ParsePreferValue(directives, value) \in DirectiveSets
         /\ ParsePreferValue(directives, value).code = CodeAfter(directives.code, value.segments, Len(value.segments))
<1> DEFINE segments == value.segments
           n == Len(segments)
           S == DirectiveSets
           advance(i, d) == ParseDirective(d, segments[i])
           next == [i \in 1..n |-> [d \in S |-> advance(i, d)]]
           F == CHOOSE f : f = [i \in 0..n |-> IF i = 0 THEN directives ELSE advance(i, f[i - 1])]
           right == [i \in 0..n |-> IF F[i] \in S /\ F[i].code = CodeAfter(directives.code, segments, i)
                                    THEN "yes" ELSE "no"]
           yes == {"yes"}
<1>1. n \in Nat /\ \A i \in 1..n : segments[i] \in Segments
  <2>1. segments \in Seq(Segments)
    BY DEF Headers
  <2> HIDE DEF segments
  <2> QED
    BY <2>1
<1>2. ParsePreferValue(directives, value) = F[n]
  BY DEF ParsePreferValue
<1>3. \A i \in 1..n : \A d \in S :
        /\ advance(i, d) \in S
        /\ advance(i, d).code = IF segments[i].key = "code" THEN {segments[i].value} \ NoCode ELSE d.code
  BY <1>1, DirectiveIs
<1> HIDE DEF S, advance, n, segments
<1>4. next \in [1..n -> [S -> S]] /\ \A i \in 1..n : \A d \in S : next[i][d] = advance(i, d)
  BY <1>3
<1> HIDE DEF next
<1>5. \E f : f = [i \in 0..n |-> IF i = 0 THEN directives ELSE advance(i, f[i - 1])]
  <2>1. PICK f \in [0..n -> S] : Iterates(f, directives, next, n)
    BY <1>1, <1>4, IterationExists DEF S
  <2>2. ASSUME NEW i \in 0..n, i # 0 PROVE next[i][f[i - 1]] = advance(i, f[i - 1])
    <3>1. i \in 1..n /\ i - 1 \in 0..n
      BY <1>1, <2>2
    <3>2. f[i - 1] \in S
      BY <2>1, <3>1
    <3> QED
      BY <1>4, <3>1, <3>2
  <2>3. [i \in 0..n |-> IF i = 0 THEN directives ELSE next[i][f[i - 1]]]
          = [i \in 0..n |-> IF i = 0 THEN directives ELSE advance(i, f[i - 1])]
    BY <2>2, Zenon
  <2> QED
    BY <2>1, <2>3, Zenon DEF Iterates
<1>6. F = [i \in 0..n |-> IF i = 0 THEN directives ELSE advance(i, F[i - 1])]
  BY <1>5, Zenon
<1> HIDE DEF F
<1>7. \A i \in 0..n : F[i] = IF i = 0 THEN directives ELSE advance(i, F[i - 1])
  BY <1>6, Zenon
<1>8. right[0] \in yes
  <2>1. F[0] = directives /\ 0 \in 0..n /\ directives \in S
    BY <1>1, <1>7 DEF S
  <2>2. CodeAfter(directives.code, segments, 0) = directives.code
    BY DEF CodeAfter, CodesIn
  <2> QED
    BY <2>1, <2>2
<1>9. ASSUME NEW i \in 1..n, right[i - 1] \in yes PROVE right[i] \in yes
  <2>1. i \in 0..n /\ i - 1 \in 0..n /\ i # 0 /\ i - 1 \in Nat /\ (i - 1) + 1 = i
    BY <1>1
  <2>2. F[i - 1] \in S /\ F[i - 1].code = CodeAfter(directives.code, segments, i - 1)
    BY <1>9, <2>1
  <2>3. F[i] = advance(i, F[i - 1])
    BY <1>7, <2>1
  <2>4. CodeAfter(directives.code, segments, i) =
          IF segments[i].key = "code" THEN {segments[i].value} \ NoCode ELSE CodeAfter(directives.code, segments, i - 1)
    BY <2>1, CodeAfterNext
  <2>5. F[i] \in S /\ F[i].code = CodeAfter(directives.code, segments, i)
    BY <1>3, <2>2, <2>3, <2>4
  <2> QED
    BY <2>1, <2>5
<1> HIDE DEF yes
<1>10. \A i \in 0..n : right[i] \in yes
  <2> HIDE DEF right
  <2> QED
    BY <1>1, <1>8, <1>9, StaysIn
<1>11. F[n] \in S /\ F[n].code = CodeAfter(directives.code, segments, n)
  BY <1>1, <1>10 DEF yes
<1> QED
  BY <1>2, <1>11 DEF S, segments, n

CodesOf(header) == CodesIn(header.segments, Len(header.segments))
CodeOf(header) == {header.segments[LastOf(CodesOf(header))].value} \ NoCode
Coding(prefer, n) == {i \in 1..n : prefer[i].readable /\ CodesOf(prefer[i]) # {}}
CodeRead(prefer, n) == IF Coding(prefer, n) = {} THEN {} ELSE CodeOf(prefer[LastOf(Coding(prefer, n))])

LEMMA CodeReadNext ==
  ASSUME NEW n \in Nat, NEW prefer
  PROVE  CodeRead(prefer, n + 1) =
           IF prefer[n + 1].readable /\ CodesOf(prefer[n + 1]) # {} THEN CodeOf(prefer[n + 1]) ELSE CodeRead(prefer, n)
<1>1. 1..(n + 1) = 1..n \cup {n + 1}
  OBVIOUS
<1>2. CASE prefer[n + 1].readable /\ CodesOf(prefer[n + 1]) # {}
  <2>1. Coding(prefer, n + 1) = Coding(prefer, n) \cup {n + 1} /\ Coding(prefer, n) \subseteq 1..n
    BY <1>1, <1>2 DEF Coding
  <2>2. LastOf(Coding(prefer, n + 1)) = n + 1
    BY <2>1, LastOfSome
  <2> QED
    BY <1>2, <2>1, <2>2 DEF CodeRead
<1>3. CASE ~(prefer[n + 1].readable /\ CodesOf(prefer[n + 1]) # {})
  <2>1. Coding(prefer, n + 1) = Coding(prefer, n)
    BY <1>1, <1>3 DEF Coding
  <2> QED
    BY <1>3, <2>1 DEF CodeRead
<1> QED
  BY <1>2, <1>3

LEMMA FromHeadersIs ==
  ASSUME NEW prefer \in Seq(Headers), NEW accept
  PROVE  /\ FromHeaders(prefer, accept).code = CodeRead(prefer, Len(prefer))
         /\ FromHeaders(prefer, accept).mediaType = BestMediaType(accept)
<1> DEFINE n == Len(prefer)
           S == DirectiveSets
           advance(i, d) == IF prefer[i].readable THEN ParsePreferValue(d, prefer[i]) ELSE d
           next == [i \in 1..n |-> [d \in S |-> advance(i, d)]]
           F == CHOOSE f : f = [i \in 0..n |-> IF i = 0 THEN NoDirectives ELSE advance(i, f[i - 1])]
           right == [i \in 0..n |-> IF F[i] \in S /\ F[i].code = CodeRead(prefer, i) THEN "yes" ELSE "no"]
           yes == {"yes"}
<1>1. n \in Nat /\ \A i \in 1..n : prefer[i] \in Headers
  OBVIOUS
<1>2. FromHeaders(prefer, accept) = [F[n] EXCEPT !.mediaType = BestMediaType(accept)]
  BY Zenon DEF FromHeaders
<1>3. ASSUME NEW i \in 1..n, NEW d \in S
      PROVE  /\ advance(i, d) \in S
             /\ advance(i, d).code = IF prefer[i].readable /\ CodesOf(prefer[i]) # {} THEN CodeOf(prefer[i]) ELSE d.code
  <2>1. CASE prefer[i].readable
    <3>1. /\ ParsePreferValue(d, prefer[i]) \in DirectiveSets
          /\ ParsePreferValue(d, prefer[i]).code = CodeAfter(d.code, prefer[i].segments, Len(prefer[i].segments))
      BY <1>1, ParsePreferValueIs
    <3> QED
      BY <2>1, <3>1 DEF CodeAfter, CodesOf, CodeOf
  <2>2. CASE ~prefer[i].readable
    BY <2>2
  <2> QED
    BY <2>1, <2>2
<1>4. NoDirectives \in S /\ NoDirectives.code = {}
  BY DEF NoDirectives, DirectiveSets
<1> HIDE DEF S, advance, n
<1>5. next \in [1..n -> [S -> S]] /\ \A i \in 1..n : \A d \in S : next[i][d] = advance(i, d)
  BY <1>3
<1> HIDE DEF next
<1>6. \E f : f = [i \in 0..n |-> IF i = 0 THEN NoDirectives ELSE advance(i, f[i - 1])]
  <2>1. PICK f \in [0..n -> S] : Iterates(f, NoDirectives, next, n)
    BY <1>1, <1>4, <1>5, IterationExists
  <2>2. ASSUME NEW i \in 0..n, i # 0 PROVE next[i][f[i - 1]] = advance(i, f[i - 1])
    <3>1. i \in 1..n /\ i - 1 \in 0..n
      BY <1>1, <2>2
    <3>2. f[i - 1] \in S
      BY <2>1, <3>1
    <3> QED
      BY <1>5, <3>1, <3>2
  <2>3. [i \in 0..n |-> IF i = 0 THEN NoDirectives ELSE next[i][f[i - 1]]]
          = [i \in 0..n |-> IF i = 0 THEN NoDirectives ELSE advance(i, f[i - 1])]
    BY <2>2, Zenon
  <2> QED
    BY <2>1, <2>3, Zenon DEF Iterates
<1>7. F = [i \in 0..n |-> IF i = 0 THEN NoDirectives ELSE advance(i, F[i - 1])]
  BY <1>6, Zenon
<1> HIDE DEF F
<1>8. \A i \in 0..n : F[i] = IF i = 0 THEN NoDirectives ELSE advance(i, F[i - 1])
  BY <1>7, Zenon
<1>9. right[0] \in yes
  <2>1. F[0] = NoDirectives /\ 0 \in 0..n
    BY <1>1, <1>8
  <2>2. CodeRead(prefer, 0) = {}
    BY DEF CodeRead, Coding
  <2> QED
    BY <1>4, <2>1, <2>2
<1>10. ASSUME NEW i \in 1..n, right[i - 1] \in yes PROVE right[i] \in yes
  <2>1. i \in 0..n /\ i - 1 \in 0..n /\ i # 0 /\ i - 1 \in Nat /\ (i - 1) + 1 = i
    BY <1>1
  <2>2. F[i - 1] \in S /\ F[i - 1].code = CodeRead(prefer, i - 1)
    BY <1>10, <2>1
  <2>3. F[i] = advance(i, F[i - 1])
    BY <1>8, <2>1
  <2>4. CodeRead(prefer, i) =
          IF prefer[i].readable /\ CodesOf(prefer[i]) # {} THEN CodeOf(prefer[i]) ELSE CodeRead(prefer, i - 1)
    BY <2>1, CodeReadNext
  <2>5. F[i] \in S /\ F[i].code = CodeRead(prefer, i)
    BY <1>3, <2>2, <2>3, <2>4
  <2> QED
    BY <2>1, <2>5
<1> HIDE DEF yes
<1>11. \A i \in 0..n : right[i] \in yes
  <2> HIDE DEF right
  <2> QED
    BY <1>1, <1>9, <1>10, StaysIn
<1>12. F[n] \in S /\ F[n].code = CodeRead(prefer, n)
  BY <1>1, <1>11 DEF yes
<1>13. /\ [F[n] EXCEPT !.mediaType = BestMediaType(accept)].code = F[n].code
       /\ [F[n] EXCEPT !.mediaType = BestMediaType(accept)].mediaType = BestMediaType(accept)
  BY <1>12 DEF S, DirectiveSets
<1> QED
  BY <1>2, <1>12, <1>13 DEF n

\* The code that the handler read is the one that the client prefers.
LEMMA PreferIs ==
  ASSUME IsRequest(Request)
  PROVE  Prefer.code = PreferredCode /\ Prefer.mediaType = BestMediaType(Request.accept)
<1> DEFINE prefer == Request.prefer
           n == Len(prefer)
           in(i) == {j \in DOMAIN prefer[i].segments : prefer[i].segments[j].key = "code"}
           of == {i \in DOMAIN prefer : prefer[i].readable /\ in(i) # {}}
           lasts(i) == {k \in in(i) : \A m \in in(i) : m <= k}
           wish(i) == {prefer[i].segments[j].value : j \in lasts(i)}
           headers == {k \in of : \A m \in of : m <= k}
<1>1. prefer \in Seq(Headers)
  BY DEF IsRequest, Headers, Segments
<1>2. n \in Nat /\ DOMAIN prefer = 1..n
  BY <1>1
<1>3. \A i \in 1..n : Len(prefer[i].segments) \in Nat /\ DOMAIN prefer[i].segments = 1..Len(prefer[i].segments)
  <2> TAKE i \in 1..n
  <2>1. prefer[i] \in Headers
    BY <1>1
  <2>2. prefer[i].segments \in Seq(Segments)
    BY <2>1 DEF Headers
  <2> QED
    BY <2>2
<1>4. Wished("code") = UNION {wish(i) : i \in headers}
  BY Zenon DEF Wished
<1> HIDE DEF prefer, n
<1>5. \A i \in 1..n : in(i) = CodesOf(prefer[i]) /\ in(i) \subseteq 1..Len(prefer[i].segments)
  BY <1>3 DEF CodesOf, CodesIn
<1>6. of = Coding(prefer, n) /\ of \subseteq 1..n
  BY <1>2, <1>5 DEF Coding
<1>7. ASSUME NEW i \in of PROVE wish(i) \ NoCode = CodeOf(prefer[i])
  <2>1. i \in 1..n /\ in(i) # {}
    BY <1>2
  <2>2. lasts(i) = {LastOf(in(i))}
    BY <1>3, <1>5, <2>1, LastOfSome
  <2> HIDE DEF lasts, in
  <2>3. wish(i) = {prefer[i].segments[LastOf(in(i))].value}
    BY <2>2
  <2> QED
    BY <1>5, <2>1, <2>3 DEF CodeOf
<1> HIDE DEF of, wish
<1>8. CASE of = {}
  <2>1. Wished("code") = {}
    BY <1>4, <1>8
  <2> QED
    BY <1>1, <1>6, <1>8, <2>1, FromHeadersIs DEF Prefer, PreferredCode, CodeRead, prefer, n
<1>9. CASE of # {}
  <2>1. headers = {LastOf(of)}
    BY <1>2, <1>6, <1>9, LastOfSome
  <2>2. LastOf(of) \in of
    BY <2>1
  <2> HIDE DEF headers
  <2>3. Wished("code") = wish(LastOf(of))
    BY <1>4, <2>1
  <2>4. PreferredCode = CodeOf(prefer[LastOf(of)])
    BY <1>7, <2>2, <2>3 DEF PreferredCode
  <2>5. CodeRead(prefer, n) = CodeOf(prefer[LastOf(of)])
    BY <1>6, <1>9 DEF CodeRead
  <2> QED
    BY <1>1, <2>4, <2>5, FromHeadersIs DEF Prefer, prefer, n
<1> QED
  BY <1>8, <1>9

-----------------------------------------------------------------------------
(* The response: a mock that does not fail is a declared response.         *)

Beats(accept, i, k) ==
  accept[k].type # Anything =>
     \/ accept[k].quality < accept[i].quality
     \/ accept[k].quality = accept[i].quality /\ i < k
BestOf(accept, m) ==
  \/ \A k \in 1..m : accept[k].type = Anything
  \/ \E i \in 1..m : accept[i].type # Anything /\ \A k \in 1..m \ {i} : Beats(accept, i, k)

\* A media type is found whenever the client names one, and it is one of them.
LEMMA BestMediaTypeIs ==
  ASSUME NEW accept \in Seq([type : STRING, quality : Int])
  PROVE  /\ \A t \in BestMediaType(accept) : \E a \in Range(accept) : a.type = t
         /\ (\E a \in Range(accept) : a.type # Anything) => BestMediaType(accept) # {}
<1> DEFINE n == Len(accept)
           right == [m \in 0..n |-> IF BestOf(accept, m) THEN "yes" ELSE "no"]
           yes == {"yes"}
<1>1. n \in Nat /\ DOMAIN accept = 1..n
  OBVIOUS
<1>2. \A i \in 1..n : accept[i].quality \in Int
  <2> DEFINE T == [type : STRING, quality : Int]
  <2>1. accept \in Seq(T) /\ \A x \in T : x.quality \in Int
    OBVIOUS
  <2> HIDE DEF T
  <2>2. \A i \in 1..n : accept[i] \in T
    BY <2>1
  <2> QED
    BY <2>1, <2>2
<1> HIDE DEF n
<1>3. right[0] \in yes
  <2>1. BestOf(accept, 0)
    BY DEF BestOf
  <2> QED
    BY <1>1, <2>1
<1>4. ASSUME NEW m \in 1..n, right[m - 1] \in yes PROVE right[m] \in yes
  <2>1. m \in 0..n /\ m - 1 \in 0..n /\ 1..m = 1..(m - 1) \cup {m} /\ m \notin 1..(m - 1) /\ 1..m \subseteq 1..n
    BY <1>1
  <2>2. BestOf(accept, m - 1)
    BY <1>4, <2>1
  <2>3. CASE accept[m].type = Anything
    <3>1. CASE \A k \in 1..(m - 1) : accept[k].type = Anything
      BY <2>1, <2>3, <3>1 DEF BestOf
    <3>2. ASSUME NEW i \in 1..(m - 1), accept[i].type # Anything, \A k \in 1..(m - 1) \ {i} : Beats(accept, i, k)
          PROVE  BestOf(accept, m)
      <4>1. Beats(accept, i, m)
        BY <2>3 DEF Beats
      <4>2. i \in 1..m /\ \A k \in 1..m \ {i} : Beats(accept, i, k)
        BY <2>1, <3>2, <4>1
      <4> QED
        BY <3>2, <4>2 DEF BestOf
    <3> QED
      BY <2>2, <3>1, <3>2 DEF BestOf
  <2>4. CASE accept[m].type # Anything
    <3>1. CASE \A k \in 1..(m - 1) : accept[k].type = Anything
      <4>1. \A k \in 1..m \ {m} : Beats(accept, m, k)
        BY <2>1, <3>1 DEF Beats
      <4> QED
        BY <2>1, <2>4, <4>1 DEF BestOf
    <3>2. ASSUME NEW i \in 1..(m - 1), accept[i].type # Anything, \A k \in 1..(m - 1) \ {i} : Beats(accept, i, k)
          PROVE  BestOf(accept, m)
      <4>1. accept[i].quality \in Int /\ accept[m].quality \in Int /\ i < m /\ i # m
        BY <1>2, <2>1
      <4>2. CASE accept[m].quality > accept[i].quality
        <5>1. ASSUME NEW k \in 1..m \ {m} PROVE Beats(accept, m, k)
          <6>1. accept[k].quality \in Int /\ k \in 1..(m - 1)
            BY <1>2, <2>1
          <6>2. CASE k = i
            BY <4>1, <4>2, <6>2 DEF Beats
          <6>3. CASE k # i
            <7>1. Beats(accept, i, k)
              BY <3>2, <6>1, <6>3
            <7> QED
              BY <4>1, <4>2, <6>1, <7>1 DEF Beats
          <6> QED
            BY <6>2, <6>3
        <5> QED
          BY <2>1, <2>4, <5>1 DEF BestOf
      <4>3. CASE ~(accept[m].quality > accept[i].quality)
        <5>1. Beats(accept, i, m)
          BY <4>1, <4>3 DEF Beats
        <5>2. i \in 1..m /\ \A k \in 1..m \ {i} : Beats(accept, i, k)
          BY <2>1, <3>2, <5>1
        <5> QED
          BY <3>2, <5>2 DEF BestOf
      <4> QED
        BY <4>2, <4>3
    <3> QED
      BY <2>2, <3>1, <3>2 DEF BestOf
  <2> QED
    BY <2>1, <2>3, <2>4
<1> HIDE DEF yes
<1>5. \A m \in 0..n : right[m] \in yes
  <2> HIDE DEF right
  <2> QED
    BY <1>1, <1>3, <1>4, StaysIn
<1>6. BestOf(accept, n)
  BY <1>1, <1>5 DEF yes
<1>7. ASSUME NEW a \in Range(accept), a.type # Anything PROVE BestMediaType(accept) # {}
  <2>1. PICK k \in 1..n : accept[k] = a
    BY <1>1 DEF Range
  <2>2. PICK i \in 1..n : accept[i].type # Anything /\ \A j \in 1..n \ {i} : Beats(accept, i, j)
    BY <1>6, <1>7, <2>1 DEF BestOf
  <2>3. accept[i].type \in BestMediaType(accept)
    BY <1>1, <2>2 DEF BestMediaType, Beats
  <2> QED
    BY <2>3
<1>8. \A t \in BestMediaType(accept) : \E a \in Range(accept) : a.type = t
  BY DEF BestMediaType, Range
<1> QED
  BY <1>7, <1>8

\* What a search returns is an element with the property, and there is one if any has it.
LEMMA SelectResponseIs ==
  ASSUME NEW responses, DOMAIN responses \subseteq Nat, NEW prefer
  PROVE  \A r \in SelectResponse(responses, prefer) :
            /\ r \in Range(responses)
            /\ prefer.code # {} => r.status \in prefer.code
            /\ prefer.code = {} /\ (\E s \in Range(responses) : Is2xx(s.status)) => Is2xx(r.status)
<1> DEFINE Coded == First(responses, LAMBDA r : r.status \in prefer.code)
           Ok == First(responses, LAMBDA r : r.status = "200")
           Success == First(responses, LAMBDA r : Is2xx(r.status))
           Default == First(responses, LAMBDA r : r.status = "default")
           Whichever == First(responses, LAMBDA r : TRUE)
<1>1. \A r \in Coded : r \in Range(responses) /\ r.status \in prefer.code
  BY DEF First, Range
<1>2. \A r \in Ok : r \in Range(responses) /\ Is2xx(r.status)
  BY DEF First, Range, Is2xx
<1>3. \A r \in Success : r \in Range(responses) /\ Is2xx(r.status)
  BY DEF First, Range
<1>4. \A r \in Default \cup Whichever : r \in Range(responses)
  BY DEF First, Range
<1>5. ASSUME NEW s \in Range(responses), Is2xx(s.status) PROVE Success # {}
  <2> DEFINE good == {i \in DOMAIN responses : Is2xx(responses[i].status)}
  <2>1. Success = {responses[i] : i \in {n \in good : \A j \in good : n <= j}}
    BY DEF First
  <2>2. good # {} /\ good \subseteq Nat
    BY <1>5 DEF Range
  <2> HIDE DEF good, Success
  <2>3. PICK i \in good : \A j \in good : i <= j
    BY <2>2, LeastNat
  <2> QED
    BY <2>1, <2>3
<1>6. SelectResponse(responses, prefer) =
        IF prefer.code # {} THEN Coded ELSE Else(Ok, Else(Success, Else(Default, Whichever)))
  BY Zenon DEF SelectResponse
<1> HIDE DEF Coded, Ok, Success, Default, Whichever
<1>7. \A x, y : Else(x, y) = IF x # {} THEN x ELSE y
  BY DEF Else
<1> QED
  BY <1>1, <1>2, <1>3, <1>4, <1>5, <1>6, <1>7

LEMMA FromEntryIs ==
  ASSUME NEW status, NEW entry, NEW prefer
  PROVE  \/ FromEntry(status, entry, prefer).failed
         \/ /\ FromEntry(status, entry, prefer).status = status
            /\ FromEntry(status, entry, prefer).type = entry.type
            /\ DOMAIN FromEntry(status, entry, prefer) = MockFields
<1> DEFINE body == IF prefer.dynamic THEN Generated(entry) ELSE ResolveBody(entry)
           m == FromEntry(status, entry, prefer)
<1>1. m = IF prefer.example # {}
          THEN IF prefer.example \subseteq entry.names THEN Mocked(status, entry.type, "static") ELSE Failure("404")
          ELSE IF body = "error" THEN Failure("500") ELSE Mocked(status, entry.type, body)
  BY Zenon DEF FromEntry
<1>2. \A code : Failure(code).failed
  BY DEF Failure
<1>3. \A b : /\ Mocked(status, entry.type, b).status = status /\ Mocked(status, entry.type, b).type = entry.type
            /\ DOMAIN Mocked(status, entry.type, b) = MockFields
  BY DEF Mocked, MockFields
<1> HIDE DEF body, m
<1>4. m.failed \/ (m.status = status /\ m.type = entry.type /\ DOMAIN m = MockFields)
  BY <1>1, <1>2, <1>3
<1> QED
  BY <1>4 DEF m

\* A mock that does not fail comes from a declared response and from one of its media
\* types, one that was asked for if any was.
LEMMA MockResponseIs ==
  ASSUME NEW op, IsOperation(op), NEW prefer, ~MockResponse(op.responses, prefer).failed
  PROVE  /\ MockResponse(op.responses, prefer).status # "none"
         /\ MockResponse(op.responses, prefer).type # "problem"
         /\ DOMAIN MockResponse(op.responses, prefer) = MockFields
         /\ \E r \in SelectResponse(op.responses, prefer) :
               /\ MockResponse(op.responses, prefer).status = ParseStatusCode(r.status)
               /\ IF r.content = <<>>
                  THEN MockResponse(op.responses, prefer).type = "none" /\ MockResponse(op.responses, prefer).body = "none"
                  ELSE \E c \in Range(r.content) :
                          /\ c.type = MockResponse(op.responses, prefer).type
                          /\ prefer.mediaType # {} => c.type \in prefer.mediaType
<1> DEFINE responses == op.responses
           selected == SelectResponse(responses, prefer)
           r == CHOOSE x \in selected : TRUE
           status == ParseStatusCode(r.status)
           entry == NegotiateMediaType(r.content, prefer.mediaType)
           e == CHOOSE x \in entry : TRUE
           m == MockResponse(responses, prefer)
           T == [status : STRING \ {"none"}, content : Seq(MediaEntry)]
<1>1. m = IF selected = {} THEN Failure("404")
          ELSE IF r.content = <<>> THEN Mocked(status, "none", "none")
          ELSE IF entry = {} THEN Failure("406") ELSE FromEntry(status, e, prefer)
  BY Zenon DEF MockResponse
<1>2. responses \in Seq(T)
  BY DEF IsOperation
<1>3. /\ DOMAIN responses \subseteq Nat /\ \A x \in Range(responses) : x \in T
  <2> HIDE DEF T, responses
  <2> QED
    BY <1>2 DEF Range
<1>4. \A x \in T : x.status # "none" /\ x.content \in Seq(MediaEntry)
  OBVIOUS
<1>5. \A code : Failure(code).failed
  BY DEF Failure
<1>6. ~m.failed
  OBVIOUS
<1> HIDE DEF m, T, responses, selected
<1>7. selected # {}
  BY <1>1, <1>5, <1>6
<1>8. r \in selected
  BY <1>7
<1>9. r.status # "none" /\ r.content \in Seq(MediaEntry)
  BY <1>3, <1>4, <1>8, SelectResponseIs DEF selected
<1> HIDE DEF r
<1>10. status # "none"
  BY <1>9 DEF ParseStatusCode
<1>11. CASE r.content = <<>>
  <2>1. m = Mocked(status, "none", "none")
    BY <1>1, <1>7, <1>11
  <2>2. m.status = status /\ m.type = "none" /\ m.body = "none" /\ DOMAIN m = MockFields
    BY <2>1 DEF Mocked, MockFields
  <2>3. m.status # "none" /\ m.type # "problem"
    BY <1>10, <2>2
  <2> QED
    BY <1>8, <1>11, <2>2, <2>3, Zenon DEF m, selected, responses
<1>12. CASE r.content # <<>>
  <2>1. m = IF entry = {} THEN Failure("406") ELSE FromEntry(status, e, prefer)
    BY <1>1, <1>7, <1>12
  <2>2. entry # {}
    BY <1>5, <1>6, <2>1
  <2>3. e \in entry
    BY <2>2
  <2>4. \A x \in entry : x \in Range(r.content) /\ (prefer.mediaType # {} => x.type \in prefer.mediaType)
    <3>1. CASE prefer.mediaType = {}
      <4>1. entry = {r.content[1]}
        BY <3>1 DEF NegotiateMediaType
      <4>2. 1 \in DOMAIN r.content
        BY <1>9, <1>12
      <4> HIDE DEF entry
      <4> QED
        BY <3>1, <4>1, <4>2 DEF Range
    <3>2. CASE prefer.mediaType # {}
      BY <3>2 DEF NegotiateMediaType, First, Range
    <3> QED
      BY <3>1, <3>2
  <2> HIDE DEF e, entry, status
  <2>5. e \in Range(r.content) /\ (prefer.mediaType # {} => e.type \in prefer.mediaType)
    BY <2>3, <2>4
  <2>6. m = FromEntry(status, e, prefer)
    BY <2>1, <2>2
  <2>7. m.status = status /\ m.type = e.type /\ DOMAIN m = MockFields
    BY <1>6, <2>6, FromEntryIs
  <2>8. e.type # "problem"
    <3>1. e \in MediaEntry
      BY <1>9, <2>5 DEF Range
    <3> QED
      BY <3>1 DEF MediaEntry
  <2>9. m.status # "none" /\ m.type # "problem"
    BY <1>10, <2>7, <2>8
  <2>10. m.status = ParseStatusCode(r.status)
    BY <2>7 DEF status
  <2> QED
    BY <1>8, <1>12, <2>5, <2>7, <2>9, <2>10, Zenon DEF m, selected, responses
<1> QED
  BY <1>11, <1>12

-----------------------------------------------------------------------------
(* The last steps of an HTTP request.                                      *)

\* While a request is worked on its operation is one of the document.
LEMMA OperationIs ==
  ASSUME HttpInv, stage \in Working
  PROVE  IsOperation(Operation) /\ Len(Operations) \in Nat /\ matched.index \in 1..Len(Operations)
<1>1. matched.index \in 1..Len(Operations) /\ IsDeclared(Operations)
  BY DEF HttpInv, StageInv, IsRouted
<1>2. Len(Operations) \in Nat /\ DOMAIN Operations = 1..Len(Operations)
  BY <1>1, TemplatesAre DEF IsDeclared
<1> QED
  BY <1>1, <1>2 DEF IsDeclared, Operation, Range

LEMMA MockInv == HttpInv /\ Mock => HttpInv'
<1> SUFFICES ASSUME HttpInv, Mock PROVE HttpInv'
  OBVIOUS
<1> DEFINE response == MockResponse(Operation.responses, Prefer)
<1>1. stage = "mock" /\ stage \in Working /\ stage \in Passed
  BY DEF Mock, Working, Passed
<1>2. CASE response.failed /\ Refuse(Refusal(response))
  <2>1. Refusal(response) \in {NotFound, NotAcceptable, ValidationError("500", {"/response"})}
    BY Zenon DEF Refusal
  <2>2. /\ Refusal(response).status # "none" /\ Refusal(response).type = "problem"
        /\ Refusal(response).extensions = {}
    BY <2>1, ProblemsAre
  <2> HIDE DEF response
  <2> QED
    BY <1>1, <1>2, <2>2, RefuseRight
<1>3. CASE /\ ~response.failed /\ mock' = response
           /\ stage' = IF Config.scenarios THEN "resolve" ELSE "build"
           /\ UNCHANGED <<case, matched, answer, touched>>
  <2>1. /\ IsOperation(Operation) /\ IsRequest(Request)
    BY <1>1, OperationIs DEF HttpInv
  <2>2. Prefer.code = PreferredCode /\ Prefer.mediaType = BestMediaType(Request.accept)
    BY <2>1, PreferIs
  <2>3. DOMAIN Operation.responses \subseteq Nat
    BY <2>1 DEF IsOperation
  <2>4. PICK r \in SelectResponse(Operation.responses, Prefer) :
           /\ response.status = ParseStatusCode(r.status)
           /\ IF r.content = <<>> THEN response.type = "none" /\ response.body = "none"
              ELSE \E c \in Range(r.content) :
                      c.type = response.type /\ (Prefer.mediaType # {} => c.type \in Prefer.mediaType)
    BY <1>3, <2>1, MockResponseIs
  <2>5. /\ r \in Range(Operation.responses)
        /\ PreferredCode # {} => r.status \in PreferredCode
        /\ PreferredCode = {} /\ (\E s \in Range(Operation.responses) : Is2xx(s.status)) => Is2xx(r.status)
    BY <2>2, <2>3, SelectResponseIs
  <2>6. (\E a \in Range(Request.accept) : a.type # Anything) /\ r.content # <<>> =>
           \E a \in Range(Request.accept) : a.type = response.type
    <3>1. Request.accept \in Seq([type : STRING, quality : Int])
      BY <2>1 DEF IsRequest
    <3>2. /\ \A t \in BestMediaType(Request.accept) : \E a \in Range(Request.accept) : a.type = t
          /\ (\E a \in Range(Request.accept) : a.type # Anything) => BestMediaType(Request.accept) # {}
      BY <3>1, BestMediaTypeIs
    <3> HIDE DEF response
    <3> QED
      BY <2>2, <2>4, <3>2
  <2>7. response.status # "none" /\ response.type # "problem" /\ DOMAIN response = MockFields
    BY <1>3, <2>1, MockResponseIs
  <2> HIDE DEF response
  <2>8. /\ Request' = Request /\ Operation' = Operation /\ Operations' = Operations /\ (IsControl' <=> IsControl)
        /\ (IsParsed' <=> IsParsed) /\ (IsRouted' <=> IsRouted) /\ (MediaFits' <=> MediaFits) /\ (BodyFits' <=> BodyFits)
    BY <1>3, SameRequest
  <2>9. PreferredCode' = PreferredCode
    BY <1>3, SMT DEF PreferredCode, Wished, Request
  <2>10. MockRight'
    <3>1. /\ mock'.status = ParseStatusCode(r.status)
          /\ PreferredCode' # {} => r.status \in PreferredCode'
          /\ PreferredCode' = {} /\ (\E s \in Range(Operation'.responses) : Is2xx(s.status)) => Is2xx(r.status)
          /\ IF r.content = <<>> THEN mock'.type = "none" /\ mock'.body = "none"
             ELSE /\ \E c \in Range(r.content) : c.type = mock'.type
                  /\ (\E a \in Range(Request'.accept) : a.type # Anything) =>
                        \E a \in Range(Request'.accept) : a.type = mock'.type
      BY <1>3, <2>4, <2>5, <2>6, <2>8, <2>9
    <3> QED
      BY <2>5, <2>8, <3>1, Zenon DEF MockRight
  <2>11. NoAnswer' = NoAnswer
    BY DEF NoAnswer, Answered
  <2>12. stage' \in {"resolve", "build"}
    BY <1>3
  <2> QED
    BY <1>1, <1>3, <2>7, <2>8, <2>10, <2>11, <2>12 DEF HttpInv, StageInv, DoneInv, Stages, Working, Passed, MockFields
<1> QED
  BY <1>2, <1>3, Zenon DEF Mock

\* An answer after the validation: what it and its traces must be for all to be right.
LEMMA FinishRight ==
  ASSUME HttpInv, stage \in Passed, stage' = "done", UNCHANGED <<case, matched>>,
         answer' # NoAnswer,
         touched' \subseteq {"scenario", "upstream"} \cup Outgoing,
         answer'.errors # {} => touched' \subseteq {"upstream"} /\ answer'.extensions = {},
         touched' \cap Outgoing # {} =>
            /\ answer'.type # "problem"
            /\ \E c \in Operation.callbacks :
                  c.url[1] = "http://host" \/ (c.url[1] = Pointer /\ Request.body = "fine" /\ Request.url = "http://host"),
         MockFaithful'
  PROVE  HttpInv'
<1>1. /\ Request' = Request /\ Config' = Config /\ Operations' = Operations /\ (IsControl' <=> IsControl)
      /\ (Acceptable' <=> Acceptable) /\ Operation' = Operation /\ (IsRouted' <=> IsRouted)
  BY SameRequest
<1>2. Acceptable /\ IsRouted /\ Len(Operations) \in Nat /\ matched.index \in 1..Len(Operations)
  BY PassedIsAcceptable, OperationIs DEF HttpInv, StageInv, Working, Passed
<1>3. NoAnswer' = NoAnswer
  BY DEF NoAnswer, Answered
<1>4. RouteExact'
  <2>1. IsRouted'
    BY <1>1, <1>2
  <2> QED
    BY <2>1, Zenon DEF RouteExact, IsRouted
<1>5. Gated'
  <2>1. Outgoing' = Outgoing /\ Pointer' = Pointer
    BY DEF Outgoing, Pointer
  <2>2. "reset" \notin touched'
    BY DEF Outgoing
  <2>3. answer'.errors # {} => touched' \subseteq {"upstream"}
    OBVIOUS
  <2>4. answer'.extensions # {} => answer'.errors = {} /\ (IsControl' \/ Acceptable')
    BY <1>1, <1>2
  <2>5. touched' \cap Outgoing' # {} =>
            /\ answer'.type # "problem"
            /\ \E c \in Operation'.callbacks :
                  c.url[1] = "http://host" \/ (c.url[1] = Pointer' /\ Request'.body = "fine" /\ Request'.url = "http://host")
    BY <1>1, <2>1, Zenon
  <2> QED
    BY <1>1, <1>2, <2>2, <2>3, <2>4, <2>5, Zenon DEF Gated
<1>6. touched' \subseteq {"scenario", "upstream", "callback", "bareCallback", "reset"}
  BY DEF Outgoing
<1>7. DoneInv'
  <2>1. matched.index \in 0..Len(Operations)
    BY <1>2
  <2> QED
    BY <1>1, <1>3, <1>4, <1>5, <1>6, <2>1 DEF DoneInv
<1> QED
  BY <1>1, <1>7 DEF HttpInv, StageInv, Stages, Working, Passed

LEMMA ProxyInv == HttpInv /\ Proxy => HttpInv'
<1> SUFFICES ASSUME HttpInv, Proxy PROVE HttpInv'
  OBVIOUS
<1>1. /\ stage = "proxy" /\ stage \in Passed /\ stage' = "done" /\ UNCHANGED <<case, matched>>
      /\ touched' = {"upstream"}
  BY DEF Proxy, Passed, HttpInv, StageInv
<1>2. \/ \E issues : answer' = ValidationError("502", issues)
      \/ \E status \in {"200", "500"} : \E body : answer' = Answered(status, "upstream", body)
  <2>1. CASE \E issue \in {"/proxy", "/response/body"} : answer' = ValidationError("502", {issue})
    BY <2>1, Zenon
  <2>2. CASE ~ \E issue \in {"/proxy", "/response/body"} : answer' = ValidationError("502", {issue})
    <3>1. \E status \in {"200", "500"} : \E body, issues :
             answer' = IF issues # {} THEN ValidationError("502", issues) ELSE Answered(status, "upstream", body)
      BY <2>2, Zenon DEF Proxy
    <3> QED
      BY <3>1, Zenon
  <2> QED
    BY <2>1, <2>2
<1>3. answer'.extensions = {} /\ answer'.status # "none"
  <2>1. \A issues : ValidationError("502", issues).extensions = {} /\ ValidationError("502", issues).status = "502"
    BY ProblemsAre
  <2>2. \A status, body : /\ Answered(status, "upstream", body).extensions = {}
                          /\ Answered(status, "upstream", body).status = status
    BY DEF Answered
  <2> QED
    BY <1>2, <2>1, <2>2
<1>4. answer' # NoAnswer
  BY <1>3 DEF NoAnswer, Answered
<1>5. MockFaithful'
  <2>1. "upstream" \in touched'
    BY <1>1
  <2>2. ~Unaided'
    BY <2>1 DEF Unaided
  <2> QED
    BY <2>2, Zenon DEF MockFaithful
<1> QED
  BY <1>1, <1>3, <1>4, <1>5, FinishRight DEF Outgoing

\* A resolution refuses with a problem that tells of no issues.
LEMMA StatefulFailureIs ==
  ASSUME NEW failure \in DOMAIN StatefulFailure
  PROVE  /\ StatefulFailure[failure].type = "problem" /\ StatefulFailure[failure].status # "none"
         /\ StatefulFailure[failure].errors = {}
<1>1. \E status \in {"404", "409", "429", "500"} : \E members : StatefulFailure[failure] = StatefulError(status, members)
  BY DEF StatefulFailure
<1> QED
  BY <1>1, ProblemsAre

LEMMA ResolveInv == HttpInv /\ Resolve => HttpInv'
<1> SUFFICES ASSUME HttpInv, Resolve PROVE HttpInv'
  OBVIOUS
<1>1. /\ stage = "resolve" /\ stage \in Passed /\ UNCHANGED <<case, matched>>
      /\ touched = {} /\ answer = NoAnswer
      /\ mock.status # "none" /\ mock.type # "problem" /\ DOMAIN mock = MockFields
      /\ MockRight
  BY DEF Resolve, Passed, HttpInv, StageInv
<1>2. /\ Request' = Request /\ Operation' = Operation /\ Operations' = Operations /\ (IsControl' <=> IsControl)
      /\ (IsParsed' <=> IsParsed) /\ (IsRouted' <=> IsRouted) /\ (MediaFits' <=> MediaFits) /\ (BodyFits' <=> BodyFits)
      /\ NoAnswer' = NoAnswer
  BY <1>1, SameRequest DEF NoAnswer, Answered
<1>3. CASE stage' = "build" /\ UNCHANGED <<mock, answer, touched>>
  <2>1. PreferredCode' = PreferredCode
    BY <1>1, SMT DEF PreferredCode, Wished, Request
  <2>2. MockRight'
    BY <1>1, <1>2, <1>3, <2>1, Zenon DEF MockRight
  <2> QED
    BY <1>1, <1>2, <1>3, <2>2 DEF HttpInv, StageInv, DoneInv, Stages, Working, Passed, MockFields
<1>4. CASE /\ touched' = touched \cup {"scenario"}
           /\ mock' \in {mock} \cup Resolved
           /\ stage' = "build"
           /\ UNCHANGED answer
  <2>1. /\ mock'.status # "none" /\ mock'.type # "problem" /\ DOMAIN mock' = MockFields
    <3>1. \/ mock' = mock \/ mock' = [mock EXCEPT !.body = "stored"]
          \/ mock' = [mock EXCEPT !.status = "204", !.body = "none"]
          \/ \E body : mock' = [mock EXCEPT !.status = "202", !.body = body]
      BY <1>4 DEF Resolved
    <3> QED
      BY <1>1, <3>1 DEF MockFields
  <2>2. touched' = {"scenario"}
    BY <1>1, <1>4
  <2> QED
    BY <1>1, <1>2, <1>4, <2>1, <2>2 DEF HttpInv, StageInv, DoneInv, Stages, Working, Passed, MockFields
<1>5. CASE \E failure \in DOMAIN StatefulFailure :
             /\ touched' = IF failure \in {"UnknownScenario", "SessionCapExceeded"} THEN touched
                           ELSE touched \cup {"scenario"}
             /\ answer' = StatefulFailure[failure]
             /\ stage' = "done"
  <2>1. /\ answer'.type = "problem" /\ answer'.status # "none" /\ answer'.errors = {}
        /\ touched' \subseteq {"scenario"} /\ stage' = "done"
    BY <1>1, <1>5, StatefulFailureIs
  <2>2. answer' # NoAnswer
    BY <2>1 DEF NoAnswer, Answered
  <2>3. MockFaithful'
    BY <2>1, Zenon DEF MockFaithful, Unaided
  <2> QED
    BY <1>1, <2>1, <2>2, <2>3, FinishRight DEF Outgoing
<1>6. \/ stage' = "build" /\ UNCHANGED <<mock, answer, touched>>
      \/ /\ touched' = touched \cup {"scenario"}
         /\ mock' \in {mock} \cup Resolved
         /\ stage' = "build"
         /\ UNCHANGED answer
      \/ \E failure \in DOMAIN StatefulFailure :
             /\ touched' = IF failure \in {"UnknownScenario", "SessionCapExceeded"} THEN touched
                           ELSE touched \cup {"scenario"}
             /\ answer' = StatefulFailure[failure]
             /\ stage' = "done"
  BY Zenon DEF Resolve
<1> QED
  BY <1>3, <1>4, <1>5, <1>6, Zenon

\* A callback is fired where the document says or a body that was parsed.
LEMMA FiredIs ==
  ASSUME HttpInv, stage \in Passed, Fired # {}
  PROVE  \E c \in Operation.callbacks :
            c.url[1] = "http://host" \/ (c.url[1] = Pointer /\ Request.body = "fine" /\ Request.url = "http://host")
<1>1. PICK c \in Operation.callbacks : \E url \in ResolveCallbackUrl(c.url) : IsValidCallbackUrl(url)
  BY Zenon DEF Fired
<1>2. PICK url \in ResolveCallbackUrl(c.url) : url[1] = "http://host"
  BY <1>1 DEF IsValidCallbackUrl
<1>3. c.url \in Seq(STRING) /\ c.url # <<>>
  BY OperationIs DEF IsOperation, Working, Passed
<1>4. 1 \in DOMAIN c.url
  BY <1>3
<1>5. url = [i \in DOMAIN c.url |-> IF c.url[i] = Pointer /\ IsParsed /\ Request.url # "none" THEN Request.url ELSE c.url[i]]
  BY <1>2, Zenon DEF ResolveCallbackUrl
<1>6. url[1] = IF c.url[1] = Pointer /\ IsParsed /\ Request.url # "none" THEN Request.url ELSE c.url[1]
  BY <1>4, <1>5
<1>7. IsParsed => Request.body = "fine"
  BY DEF HttpInv, StageInv, IsRequest, Working, Passed, BodyFits, IsParsed
<1> QED
  BY <1>2, <1>6, <1>7

LEMMA BuildResponseInv == HttpInv /\ BuildResponse => HttpInv'
<1> SUFFICES ASSUME HttpInv, BuildResponse PROVE HttpInv'
  OBVIOUS
<1> DEFINE body == IF mock.type = "none" THEN "none" ELSE mock.body
<1>1. /\ stage = "build" /\ stage \in Passed /\ stage' = "done" /\ UNCHANGED <<case, matched, mock>>
      /\ answer' = Answered(mock.status, mock.type, body)
      /\ touched' = touched \cup Fired
      /\ touched \subseteq {"scenario"}
      /\ mock.status # "none" /\ mock.type # "problem"
      /\ touched = {} => MockRight
  BY DEF BuildResponse, Passed, HttpInv, StageInv
<1>2. Fired \subseteq Outgoing
  BY Zenon DEF Fired, FireCallback, Outgoing
<1>3. /\ answer'.status = mock.status /\ answer'.type = mock.type /\ answer'.body = body
      /\ answer'.errors = {} /\ answer'.extensions = {}
  BY <1>1 DEF Answered
<1>4. answer' # NoAnswer
  BY <1>1, <1>3 DEF NoAnswer, Answered
<1>5. touched' \cap Outgoing # {} => Fired # {}
  BY <1>1 DEF Outgoing
<1>6. MockFaithful'
  <2>1. SUFFICES ASSUME Unaided' PROVE
          (\E r \in Range(Operation.responses) :
            /\ answer.status = ParseStatusCode(r.status)
            /\ PreferredCode # {} => r.status \in PreferredCode
            /\ PreferredCode = {} /\ (\E s \in Range(Operation.responses) : Is2xx(s.status)) =>
                  Is2xx(r.status)
            /\ IF r.content = <<>> THEN answer.type = "none" /\ answer.body = "none"
               ELSE /\ \E c \in Range(r.content) : c.type = answer.type
                    /\ (\E a \in Range(Request.accept) : a.type # Anything) =>
                          \E a \in Range(Request.accept) : a.type = answer.type)'
    BY Zenon DEF MockFaithful
  <2>2. touched = {}
    BY <1>1, <2>1 DEF Unaided
  <2>3. PreferredCode' = PreferredCode
    BY <1>1, SMT DEF PreferredCode, Wished, Request
  <2>4. Request' = Request /\ Operation' = Operation
    BY <1>1, SameRequest
  <2>5. PICK r \in Range(Operation.responses) :
            /\ mock.status = ParseStatusCode(r.status)
            /\ PreferredCode # {} => r.status \in PreferredCode
            /\ PreferredCode = {} /\ (\E s \in Range(Operation.responses) : Is2xx(s.status)) => Is2xx(r.status)
            /\ IF r.content = <<>> THEN mock.type = "none" /\ mock.body = "none"
               ELSE /\ \E c \in Range(r.content) : c.type = mock.type
                    /\ (\E a \in Range(Request.accept) : a.type # Anything) =>
                          \E a \in Range(Request.accept) : a.type = mock.type
    BY <1>1, <2>2, Zenon DEF MockRight
  <2>6. r.content = <<>> => body = "none"
    BY <2>5
  <2> HIDE DEF body
  <2> QED
    BY <1>3, <2>3, <2>4, <2>5, <2>6, Zenon
<1> HIDE DEF body
<1>7. touched' \subseteq {"scenario", "upstream"} \cup Outgoing
  BY <1>1, <1>2
<1> QED
  BY <1>1, <1>3, <1>4, <1>5, <1>6, <1>7, FiredIs, FinishRight

LEMMA HttpStutters == HttpInv /\ UNCHANGED vars => HttpInv'
<1> SUFFICES ASSUME HttpInv, UNCHANGED vars PROVE HttpInv'
  OBVIOUS
<1>1. UNCHANGED <<case, stage, matched, mock, answer, touched>>
  BY DEF vars
<1>2. /\ Request' = Request /\ Operation' = Operation /\ Operations' = Operations /\ Config' = Config
      /\ (IsControl' <=> IsControl) /\ (Acceptable' <=> Acceptable)
      /\ (IsParsed' <=> IsParsed) /\ (IsRouted' <=> IsRouted) /\ (MediaFits' <=> MediaFits) /\ (BodyFits' <=> BodyFits)
      /\ NoAnswer' = NoAnswer
  BY <1>1, SameRequest DEF NoAnswer, Answered
<1>3. PreferredCode' = PreferredCode
  BY <1>1, SMT DEF PreferredCode, Wished, Request
<1>4. MockRight => MockRight'
  BY <1>1, <1>2, <1>3, Zenon DEF MockRight
<1>5. RouteExact => RouteExact'
  BY <1>1, <1>2, Zenon DEF RouteExact
<1>6. Gated => Gated'
  <2>1. Outgoing' = Outgoing /\ Pointer' = Pointer
    BY Zenon DEF Outgoing, Pointer
  <2> QED
    BY <1>1, <1>2, <2>1, Zenon DEF Gated
<1>7. MockFaithful => MockFaithful'
  BY <1>1, <1>2, <1>3, Zenon DEF MockFaithful, Unaided
<1>8. StageInv'
  BY <1>1, <1>2, <1>4 DEF HttpInv, StageInv, Working, Passed, MockFields
<1>9. DoneInv'
  BY <1>1, <1>2, <1>5, <1>6, <1>7 DEF HttpInv, DoneInv
<1> QED
  BY <1>1, <1>2, <1>8, <1>9 DEF HttpInv, Stages

\* The handler from its first stage to the last.
LEMMA HttpNextInv == HttpInv /\ [Next]_vars => HttpInv'
<1> QED
  BY ControlInv, ReadBodyInv, MatchOperationInv, CheckMediaTypeInv, ParseBodyInv, ValidateInv, ProxyInv, MockInv,
     ResolveInv, BuildResponseInv, HttpStutters, Zenon DEF Next, Finished

LEMMA HttpAlways == Spec => []HttpInv
<1> QED
  BY HttpInitially, HttpNextInv, PTL DEF Spec

\* The handler (http_fallback_handler) is at one of its stages with an operation of the
\* document, has an answer exactly when it is done, and touches nothing but what the
\* stages are for.
THEOREM HandlerTypes == Spec => []TypeOK
<1>1. HttpInv => TypeOK
  <2> SUFFICES ASSUME HttpInv PROVE TypeOK
    OBVIOUS
  <2>1. Len(Operations) \in Nat
    BY TemplatesAre DEF HttpInv, IsDeclared
  <2>2. stage \in Stages /\ (stage = "done" <=> answer # NoAnswer)
    BY DEF HttpInv, StageInv, DoneInv
  <2>3. matched.index \in 0..Len(Operations)
    <3>1. CASE stage = "done"
      BY <3>1 DEF HttpInv, DoneInv
    <3>2. CASE stage \in Working
      BY <3>2, OperationIs
    <3>3. CASE stage \in {"route", "match"}
      BY <2>1, <3>3 DEF HttpInv, StageInv
    <3> QED
      BY <2>2, <3>1, <3>2, <3>3 DEF Stages, Working
  <2>4. touched \subseteq {"scenario", "upstream", "callback", "bareCallback", "reset"}
    BY DEF HttpInv, StageInv, DoneInv
  <2> QED
    BY <2>2, <2>3, <2>4 DEF TypeOK
<1> QED
  BY <1>1, HttpAlways, PTL

\* match_route, whatever the operations of the document and the path: the walk over the
\* trie that insert_operation built finds an operation exactly if the document declares
\* one for the method and the path, the one to be preferred to all others, and binds
\* the values of its parameters and of no others.
THEOREM RouteExactHolds == Spec => []RouteExact
<1>1. HttpInv => RouteExact
  <2> SUFFICES ASSUME HttpInv PROVE RouteExact
    OBVIOUS
  <2>1. CASE stage = "done"
    BY <2>1 DEF HttpInv, DoneInv
  <2>2. CASE stage \in Working
    <3>1. IsRouted
      BY <2>2 DEF HttpInv, StageInv
    <3> QED
      BY <3>1, Zenon DEF IsRouted, RouteExact
  <2>3. CASE stage \in {"route", "match"}
    BY <2>3 DEF RouteExact
  <2> QED
    BY <2>1, <2>2, <2>3 DEF HttpInv, Stages, Working
<1> QED
  BY <1>1, HttpAlways, PTL

\* Only a request that the document allows reaches scenarios, the upstream or a callback
\* (the early returns of http_fallback_handler), a refusal leaves nothing behind that it
\* denies, and a callback goes where the document or a parsed body says.
THEOREM GatedHolds == Spec => []Gated
<1>1. HttpInv => Gated
  <2> SUFFICES ASSUME HttpInv PROVE Gated
    OBVIOUS
  <2>1. CASE stage = "done"
    BY <2>1 DEF HttpInv, DoneInv
  <2>2. CASE stage # "done"
    <3>1. answer.errors = {} /\ answer.extensions = {}
      BY <2>2 DEF HttpInv, StageInv, NoAnswer, Answered
    <3>2. touched \subseteq {"scenario"} /\ (touched # {} => stage = "build")
      BY <2>2 DEF HttpInv, StageInv
    <3>3. touched # {} => Acceptable
      BY <3>2, PassedIsAcceptable DEF Passed
    <3>4. touched \cap Outgoing = {} /\ "reset" \notin touched
      BY <3>2 DEF Outgoing
    <3>5. touched \cap ({"scenario", "upstream"} \cup Outgoing) # {} => Acceptable
      BY <3>3
    <3> QED
      BY <3>1, <3>4, <3>5, Zenon DEF Gated
  <2> QED
    BY <2>1, <2>2
<1> QED
  BY <1>1, HttpAlways, PTL

\* A mocked answer is one the document declares (mock_response with from_headers and
\* best_media_type): with the last code the client preferred if there is one, a success
\* if there is none and one is declared, in a media type that was asked for.
THEOREM MockFaithfulHolds == Spec => []MockFaithful
<1>1. HttpInv => MockFaithful
  <2> SUFFICES ASSUME HttpInv PROVE MockFaithful
    OBVIOUS
  <2>1. CASE stage = "done"
    BY <2>1 DEF HttpInv, DoneInv
  <2>2. CASE stage # "done"
    BY <2>2, Zenon DEF MockFaithful, Unaided
  <2> QED
    BY <2>1, <2>2
<1> QED
  BY <1>1, HttpAlways, PTL

=============================================================================
