---------------------------- MODULE ConfigProofs ----------------------------
(***************************************************************************)
(* Theorems about Config, for documents of any length and any number of    *)
(* loads, names and devices: the strings of a configuration are freed once *)
(* and with it, all but those a repeated element has taken the place of;   *)
(* no list in use points to a string that was freed; and the command found *)
(* for a device is the one the document has for it.                        *)
(*                                                                         *)
(* What makes it so is that the nodes of a load own, between them, every   *)
(* string of the load that was not overwritten exactly once, at each step  *)
(* of the load, although many nodes point to one string, and to one that   *)
(* was overwritten: removeCommandList() decides by the type of a node, and *)
(* the types fit how the fields were filled.                               *)
(*                                                                         *)
(* The lookup rests on a second invariant: each list tells, in the order   *)
(* of the document, what the elements read so far say of each command.     *)
(***************************************************************************)
EXTENDS Config, FiniteSetTheorems, SequenceTheorems, WellFoundedInduction, TLAPS

-----------------------------------------------------------------------------
(* Types.                                                                  *)

TextSet == Name \cup Pcmd \cup Device \cup {"default", "compiled"}

StringSet == [load : Nat, at : Nat, of : Device \cup {"xml", "lost"}, field : Fields,
              text : TextSet]

NodeSet == [type : {Default, Override, Copy},
            strings : UNION {[F -> StringSet] : F \in SUBSET Fields}]

Element == [is : {"command"}, name : Name, pcmd : Pcmd]
             \cup [is : {"field"}, field : Given]
             \cup [is : {"device"}, dev : Device, fields : SUBSET Given,
                   protocmd : {{}} \cup {{p} : p \in Pcmd}]

DeviceLists == UNION {[D -> Seq(NodeSet)] : D \in SUBSET Device}
ConfSet == [load : Nat, cmds : Seq(NodeSet), devs : DeviceLists, read : Seq(Element)]

Typed ==
  /\ pc \in {"idle", "reading", "compile", "exited"} /\ load \in 0..Len(MaxElements)
  /\ read \in Seq(Element) /\ devID \in Device
  /\ tcmds \in Seq(NodeSet) /\ tdevs \in DeviceLists /\ conf \in ConfSet
  /\ replaced \subseteq 1..load
  /\ DOMAIN frees \subseteq StringSet /\ frees \in [DOMAIN frees -> Nat]
  /\ overwritten \subseteq DOMAIN frees

\* The lists under construction, in the shape of those in force.
Building == [conf EXCEPT !.cmds = tcmds, !.devs = tdevs]

-----------------------------------------------------------------------------
(* Nodes and places.                                                       *)

LEMMA NodeIs ==
  ASSUME NEW node \in NodeSet
  PROVE  /\ node.type \in {Default, Override, Copy}
         /\ DOMAIN node.strings \subseteq Fields
         /\ node.strings \in [DOMAIN node.strings -> StringSet]
         /\ \A f \in DOMAIN node.strings : node.strings[f] \in StringSet
<1>1. node.type \in {Default, Override, Copy}
      /\ node.strings \in UNION {[F -> StringSet] : F \in SUBSET Fields}
  BY DEF NodeSet
<1>2. PICK F \in SUBSET Fields : node.strings \in [F -> StringSet]
  BY <1>1
<1> QED
  BY <1>1, <1>2

LEMMA NodeMade ==
  ASSUME NEW t \in {Default, Override, Copy}, NEW F \in SUBSET Fields,
         NEW g \in [F -> StringSet]
  PROVE  [type |-> t, strings |-> g] \in NodeSet
<1>1. g \in UNION {[G -> StringSet] : G \in SUBSET Fields}
  OBVIOUS
<1> QED
  BY <1>1 DEF NodeSet

LEMMA DevicesAre ==
  ASSUME NEW l \in DeviceLists
  PROVE  /\ DOMAIN l \subseteq Device /\ l \in [DOMAIN l -> Seq(NodeSet)]
         /\ \A d \in DOMAIN l : l[d] \in Seq(NodeSet)
<1>1. PICK D \in SUBSET Device : l \in [D -> Seq(NodeSet)]
  BY DEF DeviceLists
<1> QED
  BY <1>1

LEMMA DevicesMade ==
  ASSUME NEW D \in SUBSET Device, NEW l \in [D -> Seq(NodeSet)]
  PROVE  l \in DeviceLists
BY DEF DeviceLists

\* Places are pairs of a list and a place in it.
IsLists(c) == c.cmds \in Seq(NodeSet) /\ c.devs \in DeviceLists

LEMMA DefaultPlace ==
  ASSUME NEW c, NEW i \in DOMAIN c.cmds
  PROVE  <<"default", i>> \in Places(c) /\ Node(c, <<"default", i>>) = c.cmds[i]
BY DEF Places, Node

LEMMA DevicePlace ==
  ASSUME NEW c, IsLists(c), NEW d \in DOMAIN c.devs, NEW i \in DOMAIN c.devs[d]
  PROVE  <<d, i>> \in Places(c) /\ Node(c, <<d, i>>) = c.devs[d][i] /\ d # "default"
<1>1. d # "default"
  BY DevicesAre, DeviceAssumption DEF IsLists
<1>2. <<d, i>> \in UNION {{<<e, j>> : j \in DOMAIN c.devs[e]} : e \in DOMAIN c.devs}
  OBVIOUS
<1> QED
  BY <1>1, <1>2 DEF Places, Node

LEMMA PlaceIs ==
  ASSUME NEW c, IsLists(c), NEW p \in Places(c)
  PROVE  /\ \/ \E i \in DOMAIN c.cmds : p = <<"default", i>>
            \/ \E d \in DOMAIN c.devs : \E i \in DOMAIN c.devs[d] : p = <<d, i>>
         /\ Node(c, p) \in NodeSet
<1>1. \/ \E i \in DOMAIN c.cmds : p = <<"default", i>>
      \/ \E d \in DOMAIN c.devs : \E i \in DOMAIN c.devs[d] : p = <<d, i>>
  BY DEF Places
<1>2. ASSUME NEW i \in DOMAIN c.cmds, p = <<"default", i>> PROVE Node(c, p) \in NodeSet
  <2>1. c.cmds[i] \in NodeSet
    BY DEF IsLists
  <2> QED
    BY <1>2, <2>1, DefaultPlace
<1>3. ASSUME NEW d \in DOMAIN c.devs, NEW i \in DOMAIN c.devs[d], p = <<d, i>>
      PROVE  Node(c, p) \in NodeSet
  <2>1. c.devs[d] \in Seq(NodeSet)
    BY DevicesAre DEF IsLists
  <2>2. c.devs[d][i] \in NodeSet
    BY <2>1
  <2> QED
    BY <1>3, <2>2, DevicePlace
<1> QED
  BY <1>1, <1>2, <1>3

-----------------------------------------------------------------------------
(* Ownership.                                                              *)

\* The fields of nodes that are freed with the node, and what a field points to.
Owned(c) == {x \in Places(c) \X Fields :
               x[2] \in Owns(Node(c, x[1]).type) \cap DOMAIN Node(c, x[1]).strings}
At(c, x) == Node(c, x[1]).strings[x[2]]

\* The lists c point to strings of one load only, and own all of them, each once, but for the
\* lost ones, which they do not own.
PointsTo(c, strings, ld) ==
  \A p \in Places(c) : \A f \in DOMAIN Node(c, p).strings :
    Node(c, p).strings[f] \in strings /\ Node(c, p).strings[f].load = ld
OwnsOnce(c) == \A x, y \in Owned(c) : At(c, x) = At(c, y) => x = y
OwnsAll(c, strings, lost, ld) ==
  \A s \in strings \ lost : s.load = ld => \E x \in Owned(c) : At(c, x) = s
OwnsNone(c, lost) == \A x \in Owned(c) : At(c, x) \notin lost

Sound(c, strings, lost, ld) ==
  PointsTo(c, strings, ld) /\ OwnsOnce(c) /\ OwnsAll(c, strings, lost, ld) /\ OwnsNone(c, lost)

\* So each string of this load that is not lost is freed once when the lists are, and no
\* other is.
LEMMA FreedOnce ==
  ASSUME NEW c, NEW strings, NEW lost, NEW ld, Sound(c, strings, lost, ld), NEW s \in strings
  PROVE  FreedWith(c, s) = IF s.load = ld /\ s \notin lost THEN 1 ELSE 0
<1> DEFINE F == {x \in Owned(c) : At(c, x) = s}
<1>1. FreedWith(c, s) = Cardinality(F)
  <2>1. F = {x \in Places(c) \X Fields :
               /\ x[2] \in Owns(Node(c, x[1]).type) \cap DOMAIN Node(c, x[1]).strings
               /\ Node(c, x[1]).strings[x[2]] = s}
    BY DEF Owned, At
  <2> QED
    BY <2>1 DEF FreedWith, Quantify
<1>2. CASE s.load = ld /\ s \notin lost
  <2>1. PICK x \in Owned(c) : At(c, x) = s
    BY <1>2 DEF Sound, OwnsAll
  <2>2. F = {x}
    BY <2>1 DEF Sound, OwnsOnce
  <2> QED
    BY <1>1, <1>2, <2>2, FS_Singleton
<1>3. CASE ~(s.load = ld /\ s \notin lost)
  <2>1. ASSUME NEW x \in Owned(c), At(c, x) = s PROVE FALSE
    <3>1. x[1] \in Places(c) /\ x[2] \in DOMAIN Node(c, x[1]).strings
      BY DEF Owned
    <3>2. s.load = ld
      BY <2>1, <3>1 DEF Sound, PointsTo, At
    <3>3. s \notin lost
      BY <2>1 DEF Sound, OwnsNone
    <3> QED
      BY <1>3, <3>2, <3>3
  <2>2. F = {}
    BY <2>1
  <2> QED
    BY <1>1, <1>3, <2>2, FS_EmptySet
<1> QED
  BY <1>2, <1>3

\* Strings of another load do not matter, nor do new strings that are lost at once.
LEMMA SoundWithMore ==
  ASSUME NEW c, NEW strings, NEW lost, NEW ld, Sound(c, strings, lost, ld),
         NEW new, NEW gone, \A s \in new : s.load # ld \/ s \in gone,
         \A s \in gone : s.load # ld \/ s \notin strings
  PROVE  Sound(c, strings \cup new, lost \cup gone, ld)
<1>1. PointsTo(c, strings \cup new, ld) /\ OwnsOnce(c)
  BY DEF Sound, PointsTo
<1>2. OwnsAll(c, strings \cup new, lost \cup gone, ld)
  BY DEF Sound, OwnsAll
<1>3. ASSUME NEW x \in Owned(c) PROVE At(c, x) \notin lost \cup gone
  <2>1. x[1] \in Places(c) /\ x[2] \in DOMAIN Node(c, x[1]).strings
    BY DEF Owned
  <2>2. At(c, x) \in strings /\ At(c, x).load = ld
    BY <2>1 DEF Sound, PointsTo, At
  <2>3. At(c, x) \notin lost
    BY DEF Sound, OwnsNone
  <2> QED
    BY <2>2, <2>3
<1> QED
  BY <1>1, <1>2, <1>3 DEF Sound, OwnsNone

\* A node more, which owns new strings, all of them, and shares others.
OwnFields(node) == Owns(node.type) \cap Fields \cap DOMAIN node.strings

AddsNode(c, c2, strings, ld, q, new) ==
  LET node == Node(c2, q)
  IN /\ q \notin Places(c) /\ Places(c2) = Places(c) \cup {q}
     /\ \A p \in Places(c) : Node(c2, p) = Node(c, p)
     /\ \A f \in DOMAIN node.strings \ OwnFields(node) :
          node.strings[f] \in strings /\ node.strings[f].load = ld
     /\ new = {node.strings[f] : f \in OwnFields(node)}
     /\ \A s \in new : s.load = ld /\ s \notin strings
     /\ \A f, g \in OwnFields(node) : node.strings[f] = node.strings[g] => f = g

LEMMA SoundWithNode ==
  ASSUME NEW c, NEW c2, NEW strings, NEW lost, NEW ld, Sound(c, strings, lost, ld),
         lost \subseteq strings, NEW q, NEW new, AddsNode(c, c2, strings, ld, q, new)
  PROVE  Sound(c2, strings \cup new, lost, ld)
<1> DEFINE node == Node(c2, q)
<1>1. /\ q \notin Places(c) /\ Places(c2) = Places(c) \cup {q}
      /\ \A p \in Places(c) : Node(c2, p) = Node(c, p)
      /\ \A f \in DOMAIN node.strings \ OwnFields(node) :
           node.strings[f] \in strings /\ node.strings[f].load = ld
      /\ new = {node.strings[f] : f \in OwnFields(node)}
      /\ \A s \in new : s.load = ld /\ s \notin strings
      /\ \A f, g \in OwnFields(node) : node.strings[f] = node.strings[g] => f = g
  BY DEF AddsNode
<1>2. PointsTo(c2, strings \cup new, ld)
  <2> SUFFICES ASSUME NEW p \in Places(c2), NEW f \in DOMAIN Node(c2, p).strings
               PROVE  /\ Node(c2, p).strings[f] \in strings \cup new
                      /\ Node(c2, p).strings[f].load = ld
    BY DEF PointsTo
  <2>1. CASE p \in Places(c)
    BY <1>1, <2>1 DEF Sound, PointsTo
  <2>2. CASE p = q
    BY <1>1, <2>2
  <2> QED
    BY <1>1, <2>1, <2>2
<1>3. \A x \in Owned(c2) : \/ x \in Owned(c) /\ At(c2, x) = At(c, x)
                           \/ x[1] = q /\ x = <<q, x[2]>> /\ x[2] \in OwnFields(node)
                                /\ At(c2, x) = node.strings[x[2]]
  BY <1>1 DEF Owned, At, OwnFields
<1>4. \A x \in Owned(c) : x \in Owned(c2) /\ At(c2, x) = At(c, x) /\ At(c, x) \in strings
  <2> TAKE x \in Owned(c)
  <2>1. x \in Places(c) \X Fields /\ x[2] \in DOMAIN Node(c, x[1]).strings
    BY DEF Owned
  <2>2. At(c, x) \in strings
    BY <2>1 DEF At, Sound, PointsTo
  <2>3. Node(c2, x[1]) = Node(c, x[1]) /\ x \in Places(c2) \X Fields
    BY <1>1, <2>1
  <2> QED
    BY <2>2, <2>3 DEF Owned, At
<1>5. \A f \in OwnFields(node) : <<q, f>> \in Owned(c2) /\ At(c2, <<q, f>>) = node.strings[f]
  BY <1>1 DEF Owned, At, OwnFields
<1> HIDE DEF node
<1>6. OwnsOnce(c2)
  <2> SUFFICES ASSUME NEW x \in Owned(c2), NEW y \in Owned(c2), At(c2, x) = At(c2, y)
               PROVE  x = y
    BY DEF OwnsOnce
  <2>1. CASE x \in Owned(c) /\ y \in Owned(c)
    BY <1>4, <2>1 DEF Sound, OwnsOnce
  <2>2. CASE x \notin Owned(c) /\ y \notin Owned(c)
    BY <1>1, <1>3, <2>2
  <2>3. CASE x \in Owned(c) /\ y \notin Owned(c)
    BY <1>1, <1>3, <1>4, <2>3
  <2>4. CASE x \notin Owned(c) /\ y \in Owned(c)
    BY <1>1, <1>3, <1>4, <2>4
  <2> QED
    BY <2>1, <2>2, <2>3, <2>4
<1>7. OwnsAll(c2, strings \cup new, lost, ld)
  <2> SUFFICES ASSUME NEW s \in strings \cup new, s \notin lost, s.load = ld
               PROVE  \E x \in Owned(c2) : At(c2, x) = s
    BY DEF OwnsAll
  <2>1. CASE s \in strings
    <3>1. PICK x \in Owned(c) : At(c, x) = s
      BY <2>1 DEF Sound, OwnsAll
    <3> QED
      BY <1>4, <3>1
  <2>2. CASE s \in new
    <3>1. PICK f \in OwnFields(node) : s = node.strings[f]
      BY <1>1, <2>2
    <3> QED
      BY <1>5, <3>1
  <2> QED
    BY <2>1, <2>2
<1>8. ASSUME NEW x \in Owned(c2) PROVE At(c2, x) \notin lost
  <2>1. CASE x \in Owned(c)
    BY <1>4, <2>1 DEF Sound, OwnsNone
  <2>2. CASE x \notin Owned(c)
    BY <1>1, <1>3, <2>2
  <2> QED
    BY <2>1, <2>2
<1> QED
  BY <1>2, <1>6, <1>7, <1>8 DEF Sound, OwnsNone

\* Some nodes get a new string each for a field that they own.  What the field pointed to,
\* if anything, is gone.
AddsField(c, c2, strings, ld, f, v) ==
  /\ Places(c2) = Places(c) /\ DOMAIN v \subseteq Places(c) /\ f \in Fields
  /\ \A p \in Places(c) \ DOMAIN v : Node(c2, p) = Node(c, p)
  /\ \A p \in DOMAIN v : /\ Node(c2, p).type = Node(c, p).type
                         /\ Node(c2, p).strings = Put(Node(c, p).strings, f, v[p])
                         /\ f \in Owns(Node(c, p).type)
                         /\ v[p].load = ld /\ v[p] \notin strings
  /\ \A p, r \in DOMAIN v : v[p] = v[r] => p = r

Gone(c, f, v) ==
  {Node(c, p).strings[f] : p \in {r \in DOMAIN v : f \in DOMAIN Node(c, r).strings}}

LEMMA SoundWithField ==
  ASSUME NEW c, NEW c2, NEW strings, NEW lost, NEW ld, Sound(c, strings, lost, ld),
         lost \subseteq strings, NEW f, NEW v, AddsField(c, c2, strings, ld, f, v)
  PROVE  Sound(c2, strings \cup {v[p] : p \in DOMAIN v}, lost \cup Gone(c, f, v), ld)
<1> DEFINE new == {v[p] : p \in DOMAIN v}
<1>1. /\ Places(c2) = Places(c) /\ DOMAIN v \subseteq Places(c) /\ f \in Fields
      /\ \A p \in Places(c) \ DOMAIN v : Node(c2, p) = Node(c, p)
      /\ \A p \in DOMAIN v : v[p].load = ld /\ v[p] \notin strings
      /\ \A p, r \in DOMAIN v : v[p] = v[r] => p = r
  BY DEF AddsField
<1>2. \A p \in DOMAIN v :
        /\ Node(c2, p).type = Node(c, p).type
        /\ f \in Owns(Node(c, p).type)
        /\ DOMAIN Node(c2, p).strings = DOMAIN Node(c, p).strings \cup {f}
        /\ Node(c2, p).strings[f] = v[p]
        /\ \A g \in DOMAIN Node(c, p).strings :
             g # f => Node(c2, p).strings[g] = Node(c, p).strings[g]
  <2> SUFFICES ASSUME NEW p \in DOMAIN v, NEW a, a = Node(c, p), NEW b, b = Node(c2, p)
               PROVE  /\ b.type = a.type /\ f \in Owns(a.type)
                      /\ DOMAIN b.strings = DOMAIN a.strings \cup {f}
                      /\ b.strings[f] = v[p]
                      /\ \A g \in DOMAIN a.strings : g # f => b.strings[g] = a.strings[g]
    OBVIOUS
  <2>1. b.type = a.type /\ f \in Owns(a.type) /\ b.strings = Put(a.strings, f, v[p])
    BY DEF AddsField
  <2> QED
    BY ONLY <2>1 DEF Put
<1> DEFINE Old(x) == x \in Owned(c) /\ At(c2, x) = At(c, x) /\ ~(x[1] \in DOMAIN v /\ x[2] = f)
           New(x) == x[1] \in DOMAIN v /\ x = <<x[1], f>> /\ At(c2, x) = v[x[1]]
<1>3. \A x \in Owned(c2) : Old(x) \/ New(x)
  <2> TAKE x \in Owned(c2)
  <2>1. /\ x \in Places(c) \X Fields /\ x = <<x[1], x[2]>>
        /\ x[2] \in Owns(Node(c2, x[1]).type) /\ x[2] \in DOMAIN Node(c2, x[1]).strings
    BY <1>1 DEF Owned
  <2>2. CASE x[1] \notin DOMAIN v
    BY <1>1, <2>1, <2>2 DEF Owned, At
  <2>3. CASE x[1] \in DOMAIN v /\ x[2] = f
    BY <1>2, <2>1, <2>3 DEF At
  <2>4. CASE x[1] \in DOMAIN v /\ x[2] # f
    BY <1>2, <2>1, <2>4 DEF Owned, At
  <2> QED
    BY <2>2, <2>3, <2>4
<1>4. \A x \in Owned(c) : /\ At(c, x) \in strings
                          /\ \/ x \in Owned(c2) /\ At(c2, x) = At(c, x)
                             \/ At(c, x) \in Gone(c, f, v)
  <2> TAKE x \in Owned(c)
  <2>1. /\ x \in Places(c) \X Fields
        /\ x[2] \in Owns(Node(c, x[1]).type) /\ x[2] \in DOMAIN Node(c, x[1]).strings
    BY DEF Owned
  <2>2. At(c, x) \in strings
    BY <2>1 DEF At, Sound, PointsTo
  <2>3. CASE x[1] \notin DOMAIN v
    BY <1>1, <2>1, <2>2, <2>3 DEF Owned, At
  <2>4. CASE x[1] \in DOMAIN v /\ x[2] # f
    BY <1>1, <1>2, <2>1, <2>2, <2>4 DEF Owned, At
  <2>5. CASE x[1] \in DOMAIN v /\ x[2] = f
    BY <2>1, <2>2, <2>5 DEF Gone, At
  <2> QED
    BY <2>3, <2>4, <2>5
<1>5. \A p \in DOMAIN v : <<p, f>> \in Owned(c2) /\ At(c2, <<p, f>>) = v[p]
  BY <1>1, <1>2 DEF Owned, At
<1>6. PointsTo(c2, strings \cup new, ld)
  <2> SUFFICES ASSUME NEW p \in Places(c2), NEW g \in DOMAIN Node(c2, p).strings
               PROVE  /\ Node(c2, p).strings[g] \in strings \cup new
                      /\ Node(c2, p).strings[g].load = ld
    BY DEF PointsTo
  <2>1. CASE p \notin DOMAIN v
    BY <1>1, <2>1 DEF Sound, PointsTo
  <2>2. CASE p \in DOMAIN v /\ g = f
    BY <1>1, <1>2, <2>2
  <2>3. CASE p \in DOMAIN v /\ g # f
    BY <1>1, <1>2, <2>3 DEF Sound, PointsTo
  <2> QED
    BY <2>1, <2>2, <2>3
<1>7. \A s \in Gone(c, f, v) : /\ s \in strings
                               /\ \E x \in Owned(c) : /\ At(c, x) = s
                                                      /\ x[1] \in DOMAIN v /\ x[2] = f
  <2> TAKE s \in Gone(c, f, v)
  <2>1. PICK p \in DOMAIN v : f \in DOMAIN Node(c, p).strings /\ s = Node(c, p).strings[f]
    BY DEF Gone
  <2>2. p \in Places(c) /\ f \in Owns(Node(c, p).type)
    BY <1>1, <1>2
  <2>3. <<p, f>> \in Owned(c) /\ At(c, <<p, f>>) = s
    BY <1>1, <2>1, <2>2 DEF Owned, At
  <2> QED
    BY <2>1, <2>2, <2>3 DEF Sound, PointsTo
<1>8. OwnsOnce(c2)
  <2> SUFFICES ASSUME NEW x \in Owned(c2), NEW y \in Owned(c2), At(c2, x) = At(c2, y)
               PROVE  x = y
    BY DEF OwnsOnce
  <2>1. CASE Old(x) /\ Old(y)
    BY <2>1 DEF Sound, OwnsOnce
  <2>2. CASE New(x) /\ New(y)
    BY <1>1, <2>2
  <2>3. CASE Old(x) /\ New(y)
    <3>1. At(c2, x) \in strings
      BY <1>4, <2>3
    <3>2. At(c2, y) \notin strings
      BY <1>1, <2>3
    <3> QED
      BY <3>1, <3>2
  <2>4. CASE New(x) /\ Old(y)
    <3>1. At(c2, y) \in strings
      BY <1>4, <2>4
    <3>2. At(c2, x) \notin strings
      BY <1>1, <2>4
    <3> QED
      BY <3>1, <3>2
  <2> QED
    BY <1>3, <2>1, <2>2, <2>3, <2>4
<1>9. OwnsAll(c2, strings \cup new, lost \cup Gone(c, f, v), ld)
  <2> SUFFICES ASSUME NEW s \in strings \cup new, s \notin lost, s \notin Gone(c, f, v),
                      s.load = ld
               PROVE  \E x \in Owned(c2) : At(c2, x) = s
    BY DEF OwnsAll
  <2>1. CASE s \in strings
    <3>1. PICK x \in Owned(c) : At(c, x) = s
      BY <2>1 DEF Sound, OwnsAll
    <3> QED
      BY <1>4, <3>1
  <2>2. CASE s \in new
    BY <1>5, <2>2
  <2> QED
    BY <2>1, <2>2
<1>10. ASSUME NEW x \in Owned(c2) PROVE At(c2, x) \notin lost \cup Gone(c, f, v)
  <2>1. CASE Old(x)
    <3>1. At(c, x) \notin lost
      BY <2>1 DEF Sound, OwnsNone
    <3>2. At(c, x) \notin Gone(c, f, v)
      BY <1>7, <2>1 DEF Sound, OwnsOnce
    <3> QED
      BY <2>1, <3>1, <3>2
  <2>2. CASE New(x)
    BY <1>1, <1>7, <2>2
  <2> QED
    BY <1>3, <2>1, <2>2
<1> QED
  BY <1>6, <1>8, <1>9, <1>10 DEF Sound, OwnsNone

-----------------------------------------------------------------------------
(* The merge of the defaults into the lists of the devices, as the steps   *)
(* of the loop in parseXMLFile().                                          *)

\* The least-number principle, on sets.
LEMMA LeastOf ==
  ASSUME NEW T, T \subseteq Nat, T # {}
  PROVE  \E x \in T : \A y \in T : x <= y
<1> DEFINE R == {ss \in Nat \X Nat : ss[1] < ss[2]}
<1>1. IsWellFoundedOn(R, Nat)
  BY NatLessThanWellFounded DEF OpToRel
<1>2. \A x, y \in Nat : y < x => <<y, x>> \in R
  OBVIOUS
<1> HIDE DEF R
<1>3. PICK x \in T : \A y \in T : ~ (<<y, x>> \in R)
  BY <1>1, WFMin
<1>4. ASSUME NEW y \in T PROVE x <= y
  <2>1. x \in Nat /\ y \in Nat
    OBVIOUS
  <2>2. ~ (y < x)
    BY <1>2, <1>3, <2>1
  <2> QED
    BY <2>1, <2>2
<1> QED
  BY <1>4

LEMMA MaxOf ==
  ASSUME NEW n \in Nat, NEW S, S \subseteq 1..n, S # {}
  PROVE  Max(S) \in S /\ \A y \in S : y <= Max(S)
<1> DEFINE T == {k \in 0..n : n - k \in S}
<1>1. PICK s : s \in S
  OBVIOUS
<1>2. T \subseteq Nat /\ n - s \in T
  BY <1>1
<1>3. PICK k \in T : \A j \in T : k <= j
  BY <1>2, LeastOf
<1>4. n - k \in S /\ k \in 0..n
  BY <1>3
<1>5. \A y \in S : n - k >= y
  <2> TAKE y \in S
  <2>1. n - y \in T
    OBVIOUS
  <2> QED
    BY <1>3, <1>4, <2>1
<1>6. Max(S) \in S /\ \A y \in S : Max(S) >= y
  BY <1>4, <1>5 DEF Max
<1> QED
  BY <1>6

\* What FoldLeft() computes, for every set of places.
FoldsTo(g, base, seq, S) ==
  g = [s \in SUBSET S |->
         IF s = {} THEN base ELSE CopyDefault(g[s \ {Max(s)}], seq[Max(s)])]

LEMMA FoldExists ==
  ASSUME NEW base, NEW seq, NEW n \in Nat
  PROVE  \E g : FoldsTo(g, base, seq, 1..n)
<1> DEFINE T == {k \in Nat : ~ \E g : FoldsTo(g, base, seq, 1..k)}
<1> SUFFICES ASSUME T # {} PROVE FALSE
  OBVIOUS
<1>1. PICK k \in T : \A j \in T : k <= j
  BY LeastOf
<1>2. k \in Nat /\ ~ \E g : FoldsTo(g, base, seq, 1..k)
  BY <1>1
<1>3. CASE k = 0
  <2> DEFINE g == [s \in {{}} |-> base]
  <2>1. 1..k = {} /\ SUBSET {} = {{}}
    BY <1>3
  <2>2. FoldsTo(g, base, seq, {})
    BY <2>1 DEF FoldsTo
  <2> QED
    BY <1>2, <2>1, <2>2
<1>4. CASE k # 0
  <2>1. k - 1 \in Nat /\ k - 1 \notin T
    BY <1>1, <1>2, <1>4
  <2>2. PICK h : FoldsTo(h, base, seq, 1..(k - 1))
    BY <2>1
  <2> DEFINE g == [s \in SUBSET (1..k) |->
                     IF k \in s THEN CopyDefault(h[s \ {k}], seq[k]) ELSE h[s]]
             e(s) == IF s = {} THEN base ELSE CopyDefault(g[s \ {Max(s)}], seq[Max(s)])
  <2>3. ASSUME NEW s \in SUBSET (1..k) PROVE g[s] = e(s)
    <3>1. s \ {k} \in SUBSET (1..(k - 1))
      BY <1>2, <1>4
    <3>2. CASE k \in s
      <4>1. Max(s) = k
        <5>1. PICK x : x = Max(s)
          OBVIOUS
        <5>2. x \in s /\ k <= x
          BY <1>2, <3>2, <5>1, MaxOf
        <5>3. x \in Nat /\ x <= k
          BY <1>2, <5>2
        <5> QED
          BY <1>2, <5>1, <5>2, <5>3
      <4>2. s \ {k} \in SUBSET (1..k) /\ k \notin s \ {k}
        BY <3>1
      <4>3. g[s \ {k}] = h[s \ {k}]
        BY <4>2
      <4>4. g[s] = CopyDefault(h[s \ {k}], seq[k])
        BY <3>2
      <4> QED
        BY <3>2, <4>1, <4>3, <4>4
    <3>3. CASE k \notin s /\ s # {}
      <4>1. s \subseteq 1..(k - 1)
        BY <3>1, <3>3
      <4>2. Max(s) \in s
        BY <2>1, <3>3, <4>1, MaxOf
      <4>3. s \ {Max(s)} \in SUBSET (1..(k - 1)) /\ s \ {Max(s)} \in SUBSET (1..k)
            /\ k \notin s \ {Max(s)}
        BY <3>3, <4>1
      <4>4. g[s \ {Max(s)}] = h[s \ {Max(s)}] /\ g[s] = h[s]
        BY <3>3, <4>3
      <4>5. h[s] = CopyDefault(h[s \ {Max(s)}], seq[Max(s)])
        BY <2>2, <3>3, <4>1 DEF FoldsTo
      <4> QED
        BY <3>3, <4>4, <4>5
    <3>4. CASE s = {}
      <4>1. g[s] = h[s] /\ s \in SUBSET (1..(k - 1))
        BY <3>1, <3>4
      <4>2. h[s] = base
        BY <2>2, <3>4, <4>1 DEF FoldsTo
      <4> QED
        BY <3>4, <4>1, <4>2
    <3> QED
      BY <3>2, <3>3, <3>4
  <2>4. g = [s \in SUBSET (1..k) |-> e(s)]
    <3> HIDE DEF e
    <3>1. g = [s \in SUBSET (1..k) |-> g[s]]
      OBVIOUS
    <3> HIDE DEF g
    <3> QED
      BY <2>3, <3>1
  <2>5. FoldsTo(g, base, seq, 1..k)
    BY <2>4 DEF FoldsTo
  <2> QED
    BY <1>2, <2>5
<1> QED
  BY <1>3, <1>4

\* The loop over the defaults.
Loop(m, base, seq, n) ==
  /\ m[0] = base
  /\ \A k \in 1..n : m[k] = CopyDefault(m[k - 1], seq[k])
  /\ FoldLeft(CopyDefault, base, seq) = m[n]

LEMMA MergeSteps ==
  ASSUME NEW base, NEW seq, NEW n \in Nat, DOMAIN seq = 1..n
  PROVE  \E m : Loop(m, base, seq, n)
<1>1. PICK g : /\ FoldsTo(g, base, seq, 1..n)
               /\ FoldLeft(CopyDefault, base, seq) = g[1..n]
  <2> DEFINE g == CHOOSE g : FoldsTo(g, base, seq, 1..n)
  <2>1. FoldsTo(g, base, seq, 1..n)
    BY FoldExists
  <2>2. FoldLeft(CopyDefault, base, seq) = g[1..n]
    BY DEF FoldLeft, MapThenFoldSet, FoldsTo
  <2> QED
    BY <2>1, <2>2
<1> DEFINE m == [k \in 0..n |-> g[1..k]]
<1>2. m[0] = base
  <2>1. 1..0 = {} /\ {} \in SUBSET (1..n)
    OBVIOUS
  <2>2. g[{}] = base
    BY <1>1, <2>1 DEF FoldsTo
  <2> QED
    BY <2>1, <2>2
<1>3. ASSUME NEW k \in 1..n PROVE m[k] = CopyDefault(m[k - 1], seq[k])
  <2>1. 1..k \in SUBSET (1..n) /\ 1..k # {} /\ k \in Nat /\ k - 1 \in 0..n
    <3>1. k \in Nat /\ k >= 1 /\ k <= n /\ k \in 1..k
      OBVIOUS
    <3>2. 1..k \subseteq 1..n
      BY <3>1
    <3>3. k - 1 \in 0..n
      BY <3>1
    <3>4. 1..k # {}
      BY <3>1
    <3> QED
      BY <3>1, <3>2, <3>3, <3>4
  <2>2. Max(1..k) = k
    <3>1. Max(1..k) \in 1..k /\ \A y \in 1..k : y <= Max(1..k)
      BY <2>1, MaxOf
    <3> QED
      BY <2>1, <3>1
  <2>3. (1..k) \ {k} = 1..(k - 1)
    BY <2>1
  <2>4. g[1..k] = CopyDefault(g[1..(k - 1)], seq[k])
    BY <1>1, <2>1, <2>2, <2>3 DEF FoldsTo
  <2> QED
    BY <2>1, <2>4
<1>4. FoldLeft(CopyDefault, base, seq) = m[n]
  BY <1>1
<1> HIDE DEF m
<1> QED
  BY <1>2, <1>3, <1>4 DEF Loop

-----------------------------------------------------------------------------
(* The invariant.                                                          *)

\* Loads are numbered upwards; lists are under construction only while a document is read.
Stages ==
  /\ conf.load \in 0..load /\ conf.load \notin replaced
  /\ conf.load = 0 => conf = NoConf
  /\ pc = "reading" => load >= 1 /\ conf.load # load /\ load \notin replaced
  /\ pc = "compile" => load >= 1 /\ conf.load = load
  /\ pc # "reading" => tcmds = <<>> /\ tdevs = NoConf.devs /\ read = <<>>

\* What nodes there are in which list, and that nothing is compiled before compileCommand().
Unsent(node) == "send" \notin DOMAIN node.strings

Kinds ==
  /\ \A i \in DOMAIN tcmds : IsNode(tcmds[i], {Default}) /\ Unsent(tcmds[i])
  /\ \A d \in DOMAIN tdevs : \A i \in DOMAIN tdevs[d] :
       IsNode(tdevs[d][i], {Override}) /\ Unsent(tdevs[d][i])
  /\ \A i \in DOMAIN conf.cmds : IsNode(conf.cmds[i], {Default}) /\ Unsent(conf.cmds[i])
  /\ \A d \in DOMAIN conf.devs : \A i \in DOMAIN conf.devs[d] :
       /\ IsNode(conf.devs[d][i], {Override, Copy})
       /\ pc = "compile" => Unsent(conf.devs[d][i])

\* The string that is allocated next was not allocated before.
Fresh ==
  \A s \in DOMAIN frees :
    /\ s.load \in 1..load
    /\ s.load = load /\ pc = "reading" => s.at <= Len(read)
    /\ s.load = load /\ pc \in {"reading", "compile"} => s.field # "send"

SoundLists ==
  /\ Sound(conf, DOMAIN frees, overwritten, conf.load)
  /\ pc = "reading" => Sound(Building, DOMAIN frees, overwritten, load)

IInv == /\ Typed /\ Stages /\ Kinds /\ Fresh
        /\ FreedWithItsConfiguration /\ SoundLists

-----------------------------------------------------------------------------
(* Reading elements.                                                       *)

LEMMA BuildingIs ==
  ASSUME Typed
  PROVE  Building.cmds = tcmds /\ Building.devs = tdevs /\ IsLists(Building)
<1>1. Building.cmds = tcmds /\ Building.devs = tdevs
  BY DEF Typed, ConfSet, Building
<1> QED
  BY <1>1 DEF IsLists, Typed

LEMMA BuildingNext ==
  ASSUME Typed, conf' = conf
  PROVE  Building'.cmds = tcmds' /\ Building'.devs = tdevs'
BY DEF Typed, ConfSet, Building

LEMMA XmlIs ==
  ASSUME Typed, NEW f \in Fields, NEW t \in TextSet
  PROVE  /\ XmlString(f, t) \in StringSet /\ XmlString(f, t).load = load
         /\ XmlString(f, t).at = Len(read) + 1 /\ XmlString(f, t).field = f
         /\ XmlString(f, t).text = t /\ XmlString(f, t).of = "xml"
BY DEF Typed, XmlString, StringSet

LEMMA LostIs ==
  ASSUME Typed, NEW f \in Fields
  PROVE  /\ LostString(f) \in StringSet /\ LostString(f).load = load
         /\ LostString(f).at = Len(read) + 1 /\ LostString(f).field = f
         /\ LostString(f).of = "lost"
BY DEF Typed, LostString, StringSet, TextSet

\* New strings are not freed yet, and were not there before.
LEMMA Allocates ==
  ASSUME IInv, pc \in {"reading", "compile"}, replaced' = replaced,
         NEW new, new \subseteq StringSet, \A s \in new : s.load = load, Allocate(new),
         NEW gone, \A s \in gone : s.load = load, overwritten' = overwritten \cup gone
  PROVE  /\ DOMAIN frees' = DOMAIN frees \cup new
         /\ DOMAIN frees' \subseteq StringSet /\ frees' \in [DOMAIN frees' -> Nat]
         /\ FreedWithItsConfiguration'
<1>1. DOMAIN frees \subseteq StringSet /\ frees \in [DOMAIN frees -> Nat]
  BY DEF IInv, Typed
<1>2. frees' = [s \in new \cup DOMAIN frees |-> IF s \in new THEN 0 ELSE frees[s]]
  BY DEF Allocate
<1>3. load \notin replaced
  BY DEF IInv, Stages
<1>4. ASSUME NEW s \in new \cup DOMAIN frees
      PROVE  /\ frees'[s] \in Nat
             /\ frees'[s] = IF s.load \in replaced /\ s \notin overwritten' THEN 1 ELSE 0
  <2>1. CASE s \in new
    BY <1>2, <1>3, <2>1
  <2>2. CASE s \notin new
    <3>1. s \in overwritten' /\ s \notin overwritten => s.load \notin replaced
      BY <1>3
    <3> QED
      BY <1>1, <1>2, <2>2, <3>1 DEF IInv, FreedWithItsConfiguration
  <2> QED
    BY <2>1, <2>2
<1>5. DOMAIN frees' = DOMAIN frees \cup new
  BY <1>2
<1> QED
  BY <1>1, <1>2, <1>4, <1>5 DEF FreedWithItsConfiguration

\* What an element has to keep so that the invariant is kept.
Keeps(new, gone) ==
  /\ tcmds' \in Seq(NodeSet) /\ tdevs' \in DeviceLists
  /\ \A i \in DOMAIN tcmds' : IsNode(tcmds'[i], {Default}) /\ Unsent(tcmds'[i])
  /\ \A d \in DOMAIN tdevs' : \A i \in DOMAIN tdevs'[d] :
       IsNode(tdevs'[d][i], {Override}) /\ Unsent(tdevs'[d][i])
  /\ new \subseteq StringSet
  /\ \A s \in new : s.load = load /\ s.at = Len(read) + 1 /\ s.field # "send"
  /\ gone \subseteq DOMAIN frees \cup new /\ \A s \in gone : s.load = load
  /\ Sound(Building', DOMAIN frees \cup new, overwritten \cup gone, load)

LEMMA ElementKeeps ==
  ASSUME IInv, NEW e \in Element, Reads(e), NEW new, Allocate(new), NEW gone,
         overwritten' = overwritten \cup gone, Keeps(new, gone)
  PROVE  IInv'
<1>1. /\ pc = "reading" /\ read' = Append(read, e)
      /\ UNCHANGED <<pc, load, devID, conf, replaced>>
  BY DEF Reads
<1>2. /\ DOMAIN frees' = DOMAIN frees \cup new
      /\ DOMAIN frees' \subseteq StringSet /\ frees' \in [DOMAIN frees' -> Nat]
      /\ FreedWithItsConfiguration'
  BY <1>1, Allocates DEF Keeps
<1>3. read' \in Seq(Element) /\ Len(read') = Len(read) + 1 /\ Len(read) \in Nat
  BY <1>1 DEF IInv, Typed
<1>4. Typed'
  <2>1. overwritten' \subseteq DOMAIN frees'
    BY <1>2 DEF IInv, Typed, Keeps
  <2> QED
    BY <1>1, <1>2, <1>3, <2>1 DEF IInv, Typed, Keeps
<1>5. Stages'
  BY <1>1 DEF IInv, Stages
<1>6. Kinds'
  BY <1>1 DEF IInv, Kinds, Keeps, Unsent
<1>7. Fresh'
  <2> SUFFICES ASSUME NEW s \in DOMAIN frees \cup new
               PROVE  /\ s.load \in 1..load
                      /\ s.load = load => s.at <= Len(read) + 1 /\ s.field # "send"
    BY <1>1, <1>2, <1>3 DEF Fresh
  <2>1. CASE s \in new
    BY <1>1, <1>3, <2>1 DEF IInv, Stages, Typed, Keeps
  <2>2. CASE s \in DOMAIN frees
    <3>1. s.at \in Nat
      BY <2>2 DEF IInv, Typed, StringSet
    <3> QED
      BY <1>1, <1>3, <2>2, <3>1 DEF IInv, Fresh
  <2> QED
    BY <2>1, <2>2
<1>8. Sound(conf, DOMAIN frees \cup new, overwritten \cup gone, conf.load)
  <2>1. \A s \in new \cup gone : s.load # conf.load
    BY <1>1 DEF Keeps, IInv, Stages
  <2> QED
    BY <2>1, SoundWithMore DEF IInv, SoundLists
<1>9. SoundLists'
  BY <1>1, <1>2, <1>8 DEF SoundLists, Keeps
<1> QED
  BY <1>2, <1>4, <1>5, <1>6, <1>7, <1>9 DEF IInv

\* A node at the end of the defaults, and at the end of the list of a device.
LEMMA OneDefaultMore ==
  ASSUME NEW c, NEW c2, IsLists(c), NEW node \in NodeSet,
         c2.cmds = Append(c.cmds, node), c2.devs = c.devs, NEW q,
         q = <<"default", Len(c.cmds) + 1>>
  PROVE  /\ q \notin Places(c) /\ Places(c2) = Places(c) \cup {q}
         /\ \A p \in Places(c) : Node(c2, p) = Node(c, p)
         /\ Node(c2, q) = node /\ IsLists(c2)
<1>1. c.cmds \in Seq(NodeSet) /\ c2.cmds \in Seq(NodeSet) /\ Len(c.cmds) \in Nat
      /\ DOMAIN c.cmds = 1..Len(c.cmds)
  BY DEF IsLists
<1>2. /\ DOMAIN c2.cmds = DOMAIN c.cmds \cup {Len(c.cmds) + 1}
      /\ c2.cmds[Len(c.cmds) + 1] = node
      /\ \A i \in DOMAIN c.cmds : c2.cmds[i] = c.cmds[i]
      /\ Len(c.cmds) + 1 \notin DOMAIN c.cmds
  BY <1>1
<1>3. IsLists(c2)
  BY <1>1 DEF IsLists
<1>4. q \notin Places(c)
  <2> SUFFICES ASSUME q \in Places(c) PROVE FALSE
    OBVIOUS
  <2>1. CASE \E i \in DOMAIN c.cmds : q = <<"default", i>>
    BY <1>2, <2>1
  <2>2. CASE \E d \in DOMAIN c.devs : \E i \in DOMAIN c.devs[d] : q = <<d, i>>
    BY <2>2, DevicePlace
  <2> QED
    BY <2>1, <2>2, PlaceIs
<1>5. Places(c2) = Places(c) \cup {q}
  BY <1>2 DEF Places
<1>6. \A p \in Places(c) : Node(c2, p) = Node(c, p)
  <2> TAKE p \in Places(c)
  <2>1. CASE \E i \in DOMAIN c.cmds : p = <<"default", i>>
    BY <1>2, <2>1 DEF Node
  <2>2. CASE \E d \in DOMAIN c.devs : \E i \in DOMAIN c.devs[d] : p = <<d, i>>
    <3>0. PICK d \in DOMAIN c.devs : \E i \in DOMAIN c.devs[d] : p = <<d, i>>
      BY <2>2
    <3>1. PICK i \in DOMAIN c.devs[d] : p = <<d, i>>
      BY <3>0
    <3>2. d # "default"
      BY DevicePlace
    <3> QED
      BY <3>1, <3>2 DEF Node
  <2> QED
    BY <2>1, <2>2, PlaceIs
<1>7. Node(c2, q) = node
  BY <1>2 DEF Node
<1> QED
  BY <1>3, <1>4, <1>5, <1>6, <1>7

\* The places in lists of devices.
In(l, x) == \E e \in DOMAIN l : \E i \in DOMAIN l[e] : x = <<e, i>>
AllIn(l) == UNION {{<<e, i>> : i \in DOMAIN l[e]} : e \in DOMAIN l}

LEMMA InLists == \A l, x : x \in AllIn(l) <=> In(l, x)
BY DEF AllIn, In

WithNode(l, d, node) == [l EXCEPT ![d] = Append(@, node)]

LEMMA OneDeviceMore ==
  ASSUME NEW c, NEW c2, IsLists(c), NEW node \in NodeSet, NEW d \in DOMAIN c.devs,
         c2.cmds = c.cmds, c2.devs = WithNode(c.devs, d, node), NEW q,
         q = <<d, Len(c.devs[d]) + 1>>
  PROVE  /\ q \notin Places(c) /\ Places(c2) = Places(c) \cup {q}
         /\ \A p \in Places(c) : Node(c2, p) = Node(c, p)
         /\ Node(c2, q) = node /\ IsLists(c2)
<1>1. /\ DOMAIN c.devs \subseteq Device /\ c.devs \in [DOMAIN c.devs -> Seq(NodeSet)]
      /\ c.devs[d] \in Seq(NodeSet)
  BY DevicesAre DEF IsLists
<1>2. PICK l \in Seq(NodeSet) : l = c.devs[d]
  BY <1>1
<1>3. PICK n \in Nat : n = Len(l)
  OBVIOUS
<1>4. /\ DOMAIN c2.devs = DOMAIN c.devs /\ c2.devs[d] = Append(l, node)
      /\ \A e \in DOMAIN c.devs : e # d => c2.devs[e] = c.devs[e]
  BY <1>2 DEF WithNode
<1>5. /\ DOMAIN Append(l, node) = DOMAIN l \cup {n + 1} /\ n + 1 \notin DOMAIN l
      /\ Append(l, node)[n + 1] = node /\ Append(l, node) \in Seq(NodeSet)
      /\ \A i \in DOMAIN l : Append(l, node)[i] = l[i]
  BY <1>3
<1>6. IsLists(c2)
  <2>1. c2.devs \in [DOMAIN c.devs -> Seq(NodeSet)]
    BY <1>1, <1>2, <1>5 DEF WithNode
  <2> QED
    BY <1>1, <2>1, DevicesMade DEF IsLists
<1>7. d # "default"
  BY <1>1, DeviceAssumption
<1>8. q = <<d, n + 1>>
  BY <1>2, <1>3
<1>9. q \notin Places(c)
  <2> SUFFICES ASSUME q \in Places(c) PROVE FALSE
    OBVIOUS
  <2>1. CASE \E i \in DOMAIN c.cmds : q = <<"default", i>>
    BY <1>7, <1>8, <2>1
  <2>2. CASE \E e \in DOMAIN c.devs : \E i \in DOMAIN c.devs[e] : q = <<e, i>>
    BY <1>2, <1>5, <1>8, <2>2
  <2> QED
    BY <2>1, <2>2, PlaceIs
<1>10. Places(c2) = Places(c) \cup {q}
  <2>1. AllIn(c2.devs) = AllIn(c.devs) \cup {q}
    <3>1. \A e \in DOMAIN c.devs : \A i : i \in DOMAIN c2.devs[e] <=>
            i \in DOMAIN c.devs[e] \/ (e = d /\ i = n + 1)
      <4> TAKE e \in DOMAIN c.devs
      <4>1. CASE e = d
        BY <1>2, <1>4, <1>5, <4>1
      <4>2. CASE e # d
        BY <1>4, <4>2
      <4> QED
        BY <4>1, <4>2
    <3>2. ASSUME NEW x, In(c2.devs, x) PROVE In(c.devs, x) \/ x = q
      <4>1. PICK e \in DOMAIN c.devs : \E i \in DOMAIN c2.devs[e] : x = <<e, i>>
        BY <1>4, <3>2 DEF In
      <4>2. PICK i \in DOMAIN c2.devs[e] : x = <<e, i>>
        BY <4>1
      <4> QED
        BY <1>8, <3>1, <4>2 DEF In
    <3>3. ASSUME NEW x, In(c.devs, x) PROVE In(c2.devs, x)
      BY <1>4, <3>1, <3>3 DEF In
    <3>4. In(c2.devs, q)
      BY <1>4, <1>8, <3>1 DEF In
    <3> QED
      BY <3>2, <3>3, <3>4, InLists, Zenon
  <2> QED
    BY <2>1 DEF Places, AllIn
<1>11. \A p \in Places(c) : Node(c2, p) = Node(c, p)
  <2> TAKE p \in Places(c)
  <2>1. CASE \E i \in DOMAIN c.cmds : p = <<"default", i>>
    BY <2>1 DEF Node
  <2>2. CASE \E e \in DOMAIN c.devs : \E i \in DOMAIN c.devs[e] : p = <<e, i>>
    <3>1. PICK e \in DOMAIN c.devs : \E i \in DOMAIN c.devs[e] : p = <<e, i>>
      BY <2>2
    <3>2. PICK i \in DOMAIN c.devs[e] : p = <<e, i>>
      BY <3>1
    <3>3. e # "default"
      BY <1>1, DeviceAssumption
    <3>4. c2.devs[e][i] = c.devs[e][i]
      BY <1>2, <1>4, <1>5
    <3> QED
      BY <3>2, <3>3, <3>4 DEF Node
  <2> QED
    BY <2>1, <2>2, PlaceIs
<1>12. Node(c2, q) = node
  BY <1>4, <1>5, <1>7, <1>8 DEF Node
<1> QED
  BY <1>6, <1>9, <1>10, <1>11, <1>12

LEMMA ReadCommandKeeps ==
  ASSUME IInv, NEW n \in Name, NEW p \in Pcmd, ReadCommand(n, p)
  PROVE  IInv'
<1> DEFINE F       == {"name", "description", "pcmd"}
           text(f) == CASE f = "name" -> n [] f = "pcmd" -> p [] OTHER -> n
           strings == [f \in F |-> XmlString(f, text(f))]
           node    == [type |-> Default, strings |-> strings]
           new     == Range(strings)
           e       == [is |-> "command", name |-> n, pcmd |-> p]
           q       == <<"default", Len(tcmds) + 1>>
<1>1. /\ Reads(e) /\ tcmds' = Append(tcmds, node) /\ Allocate(new) /\ tdevs' = tdevs
      /\ pc = "reading" /\ conf' = conf /\ overwritten' = overwritten
  BY DEF ReadCommand, Reads
<1>2. /\ Typed /\ Kinds /\ Fresh /\ e \in Element
      /\ Sound(Building, DOMAIN frees, overwritten, load)
  BY <1>1 DEF IInv, SoundLists, Element
<1>3. \A f \in F : /\ strings[f] \in StringSet /\ strings[f].load = load
                   /\ strings[f].at = Len(read) + 1 /\ strings[f].field = f
  <2> TAKE f \in F
  <2>1. text(f) \in TextSet /\ f \in Fields
    BY DEF Fields, TextSet
  <2>2. strings[f] = XmlString(f, text(f))
    OBVIOUS
  <2> HIDE DEF text, strings
  <2> QED
    BY <1>2, <2>1, <2>2, XmlIs
<1>4. DOMAIN strings = F /\ new = {strings[f] : f \in F}
  BY DEF Range
<1> HIDE DEF strings, new
<1>5. node \in NodeSet
  <2>1. strings \in [F -> StringSet] /\ F \in SUBSET Fields
    BY <1>3, <1>4 DEF Fields, strings
  <2> QED
    BY <2>1, NodeMade
<1>6. OwnFields(node) = F
  BY <1>4 DEF OwnFields, Owns, Fields, Default, Override, Copy
<1>7. \A s \in new : /\ s \in StringSet /\ s.load = load /\ s.at = Len(read) + 1
                     /\ s.field # "send" /\ s \notin DOMAIN frees
  <2> TAKE s \in new
  <2>1. PICK f \in F : s = strings[f]
    BY <1>4
  <2>2. s \in StringSet /\ s.load = load /\ s.at = Len(read) + 1 /\ s.field = f
    BY <1>3, <2>1
  <2>3. s \notin DOMAIN frees
    BY <1>1, <1>2, <2>2 DEF Fresh, Typed
  <2> QED
    BY <2>2, <2>3
<1> HIDE DEF node
<1>8. Sound(Building', DOMAIN frees \cup new, overwritten, load)
  <2>1. Building.cmds = tcmds /\ Building.devs = tdevs /\ IsLists(Building)
        /\ Building'.cmds = tcmds' /\ Building'.devs = tdevs'
    BY <1>1, <1>2, BuildingIs, BuildingNext
  <2>2. PICK a, b : a = Building /\ b = Building'
    OBVIOUS
  <2>3. /\ IsLists(a) /\ b.cmds = Append(a.cmds, node) /\ b.devs = a.devs
        /\ q = <<"default", Len(a.cmds) + 1>>
    BY <1>1, <2>1, <2>2
  <2>4. /\ q \notin Places(a) /\ Places(b) = Places(a) \cup {q}
        /\ \A r \in Places(a) : Node(b, r) = Node(a, r)
        /\ Node(b, q) = node
    BY <1>5, <2>3, OneDefaultMore
  <2>5. AddsNode(a, b, DOMAIN frees, load, q, new)
    BY <1>3, <1>4, <1>6, <1>7, <2>4 DEF AddsNode, node
  <2>6. overwritten \subseteq DOMAIN frees
    BY <1>2 DEF Typed
  <2> QED
    BY <1>2, <2>2, <2>5, <2>6, SoundWithNode
<1>9. IsNode(node, {Default}) /\ Unsent(node)
  BY <1>4 DEF IsNode, Unsent, Fields, node
<1>10. Keeps(new, {})
  <2>1. tcmds' \in Seq(NodeSet) /\ tdevs' \in DeviceLists
    BY <1>1, <1>2, <1>5 DEF Typed
  <2>2. \A i \in DOMAIN tcmds' : (i \in DOMAIN tcmds /\ tcmds'[i] = tcmds[i]) \/ tcmds'[i] = node
    BY <1>1, <1>2, <1>5 DEF Typed
  <2> QED
    BY <1>1, <1>2, <1>7, <1>8, <1>9, <2>1, <2>2 DEF Keeps, Kinds
<1>11. overwritten' = overwritten \cup {}
  BY <1>1
<1> QED
  BY <1>1, <1>2, <1>10, <1>11, ElementKeeps

\* Another node in the place of a default.
LEMMA DefaultChanged ==
  ASSUME NEW c, NEW c2, IsLists(c), NEW k \in DOMAIN c.cmds, NEW node,
         c2.cmds = [c.cmds EXCEPT ![k] = node], c2.devs = c.devs, NEW q,
         q = <<"default", k>>
  PROVE  /\ q \in Places(c) /\ Places(c2) = Places(c)
         /\ \A p \in Places(c) \ {q} : Node(c2, p) = Node(c, p)
         /\ Node(c, q) = c.cmds[k] /\ Node(c2, q) = node
<1>1. /\ DOMAIN c2.cmds = DOMAIN c.cmds /\ c2.cmds[k] = node
      /\ \A i \in DOMAIN c.cmds : i # k => c2.cmds[i] = c.cmds[i]
  BY DEF IsLists
<1>2. Places(c2) = Places(c)
  BY <1>1 DEF Places
<1>3. \A p \in Places(c) \ {q} : Node(c2, p) = Node(c, p)
  <2> TAKE p \in Places(c) \ {q}
  <2>1. CASE \E i \in DOMAIN c.cmds : p = <<"default", i>>
    BY <1>1, <2>1 DEF Node
  <2>2. CASE \E d \in DOMAIN c.devs : \E i \in DOMAIN c.devs[d] : p = <<d, i>>
    <3>1. PICK d \in DOMAIN c.devs : \E i \in DOMAIN c.devs[d] : p = <<d, i>>
      BY <2>2
    <3>2. PICK i \in DOMAIN c.devs[d] : p = <<d, i>>
      BY <3>1
    <3>3. d # "default"
      BY DevicePlace
    <3> QED
      BY <3>2, <3>3 DEF Node
  <2> QED
    BY <2>1, <2>2, PlaceIs
<1> QED
  BY <1>1, <1>2, <1>3, DefaultPlace DEF Node

LEMMA ReadFieldKeeps ==
  ASSUME IInv, NEW f \in Given, ReadField(f)
  PROVE  IInv'
<1> DEFINE s    == XmlString(f, "default")
           e    == [is |-> "field", field |-> f]
           k    == Len(tcmds)
           q    == <<"default", k>>
           node == [type |-> tcmds[k].type, strings |-> Put(tcmds[k].strings, f, s)]
           v    == [p \in {q} |-> s]
           gone == {tcmds[k].strings[g] : g \in {f} \cap DOMAIN tcmds[k].strings}
<1>1. /\ tcmds # <<>> /\ Reads(e)
      /\ tcmds' = [tcmds EXCEPT ![k].strings = Put(@, f, s)] /\ Allocate({s})
      /\ tdevs' = tdevs /\ pc = "reading" /\ conf' = conf
      /\ overwritten' = overwritten \cup gone
  BY DEF ReadField, Reads, Last
<1>2. /\ Typed /\ Kinds /\ Fresh /\ e \in Element
      /\ Sound(Building, DOMAIN frees, overwritten, load)
  BY <1>1 DEF IInv, SoundLists, Element
<1>3. f \in Fields /\ f \notin {"name", "pcmd", "send"}
  BY GivenAssumption DEF Fields
<1>4. /\ s \in StringSet /\ s.load = load /\ s.at = Len(read) + 1 /\ s.field = f
      /\ s \notin DOMAIN frees
  <2>1. s \in StringSet /\ s.load = load /\ s.at = Len(read) + 1 /\ s.field = f
    BY <1>2, <1>3, XmlIs DEF TextSet
  <2>2. s \notin DOMAIN frees
    BY <1>1, <1>2, <2>1 DEF Fresh, Typed
  <2> QED
    BY <2>1, <2>2
<1> HIDE DEF s
<1>5. tcmds \in Seq(NodeSet) /\ k \in DOMAIN tcmds /\ tcmds[k] \in NodeSet
  BY <1>1, <1>2, EmptySeq DEF Typed
<1>6. tcmds' = [tcmds EXCEPT ![k] = node]
  <2>1. tcmds[k] = [type |-> tcmds[k].type, strings |-> tcmds[k].strings]
    BY <1>5 DEF NodeSet
  <2>2. PICK g : g = Put(tcmds[k].strings, f, s)
    OBVIOUS
  <2>3. [tcmds[k] EXCEPT !.strings = g] = [type |-> tcmds[k].type, strings |-> g]
    BY <2>1
  <2>4. tcmds' = [tcmds EXCEPT ![k] = [tcmds[k] EXCEPT !.strings = g]]
    BY <1>1, <1>5, <2>2
  <2> QED
    BY <2>2, <2>3, <2>4
<1>7. node \in NodeSet
  <2>1. Put(tcmds[k].strings, f, s) \in [DOMAIN tcmds[k].strings \cup {f} -> StringSet]
    BY <1>4, <1>5, NodeIs DEF Put
  <2>2. DOMAIN tcmds[k].strings \cup {f} \in SUBSET Fields
    BY <1>3, <1>5, NodeIs
  <2> QED
    BY <1>5, <2>1, <2>2, NodeMade, NodeIs
<1>8. tcmds[k].type = Default
  BY <1>2, <1>5 DEF Kinds, IsNode
<1>9. /\ Sound(Building', DOMAIN frees \cup {s}, overwritten \cup gone, load)
      /\ gone \subseteq DOMAIN frees /\ \A x \in gone : x.load = load
  <2>1. Building.cmds = tcmds /\ Building.devs = tdevs /\ IsLists(Building)
        /\ Building'.cmds = tcmds' /\ Building'.devs = tdevs'
    BY <1>1, <1>2, BuildingIs, BuildingNext
  <2>2. PICK a, b : a = Building /\ b = Building'
    OBVIOUS
  <2>3. /\ IsLists(a) /\ b.cmds = [a.cmds EXCEPT ![k] = node] /\ b.devs = a.devs
        /\ a.cmds = tcmds /\ k \in DOMAIN a.cmds /\ q = <<"default", k>>
    BY <1>1, <1>5, <1>6, <2>1, <2>2
  <2> HIDE DEF node, q, k
  <2>4. /\ q \in Places(a) /\ Places(b) = Places(a)
        /\ \A p \in Places(a) \ {q} : Node(b, p) = Node(a, p)
        /\ Node(a, q) = tcmds[k] /\ Node(b, q) = node
    BY <2>3, DefaultChanged
  <2>5. AddsField(a, b, DOMAIN frees, load, f, v)
    <3>1. f \in Owns(Default)
      BY <1>3 DEF Owns, Default, Override, Copy
    <3> QED
      BY <1>1, <1>3, <1>4, <1>8, <2>4, <3>1 DEF AddsField, node, v
  <2>6. {v[p] : p \in DOMAIN v} = {s}
    OBVIOUS
  <2>7. Gone(a, f, v) = gone
    BY <2>4 DEF Gone
  <2>8. overwritten \subseteq DOMAIN frees
    BY <1>2 DEF Typed
  <2>9. \A g \in DOMAIN tcmds[k].strings :
          tcmds[k].strings[g] \in DOMAIN frees /\ tcmds[k].strings[g].load = load
    BY <1>2, <2>2, <2>4 DEF Sound, PointsTo
  <2>10. gone \subseteq DOMAIN frees /\ \A x \in gone : x.load = load
    BY <2>9
  <2> HIDE DEF v, gone
  <2>11. Sound(b, DOMAIN frees \cup {v[p] : p \in DOMAIN v}, overwritten \cup Gone(a, f, v), load)
    BY <1>2, <2>2, <2>5, <2>8, SoundWithField
  <2> QED
    BY <2>2, <2>6, <2>7, <2>10, <2>11
<1> HIDE DEF gone
<1>10. IsNode(node, {Default}) /\ Unsent(node)
  <2>1. IsNode(tcmds[k], {Default}) /\ Unsent(tcmds[k])
    BY <1>2, <1>5 DEF Kinds
  <2> QED
    BY <1>3, <1>8, <2>1 DEF IsNode, Unsent, Put
<1>11. Keeps({s}, gone)
  <2>1. tcmds' \in Seq(NodeSet) /\ tdevs' \in DeviceLists
    <3> HIDE DEF node, k
    <3>1. k \in 1..Len(tcmds)
      BY <1>5
    <3>2. tcmds' \in Seq(NodeSet)
      BY <1>5, <1>6, <1>7, <3>1, ExceptSeq
    <3> QED
      BY <1>1, <1>2, <3>2 DEF Typed
  <2> HIDE DEF node, k
  <2>2. \A i \in DOMAIN tcmds' : i \in DOMAIN tcmds /\ (tcmds'[i] = tcmds[i] \/ tcmds'[i] = node)
    BY <1>5, <1>6
  <2> QED
    BY <1>1, <1>2, <1>3, <1>4, <1>9, <1>10, <2>1, <2>2 DEF Keeps, Kinds
<1> QED
  BY <1>1, <1>2, <1>11, ElementKeeps

LEMMA ReadDeviceKeeps ==
  ASSUME IInv, NEW d \in Device, NEW fields \in SUBSET (Given \ {"description"}),
         NEW lost \in SUBSET (fields \cup (Given \cap {"description"})),
         NEW protocmd \in {{}} \cup {{p} : p \in Pcmd}, ReadDevice(d, fields, lost, protocmd)
  PROVE  IInv'
<1> DEFINE k       == Len(tcmds)
           c       == tcmds[k].strings
           own     == OverrideStrings(c, d, fields, protocmd)
           F       == fields \cup ({"pcmd", "unit"} \cap DOMAIN c)
           G       == F \cup {"name", "description"}
           strings == [f \in G |-> IF f \in F THEN own[f] ELSE c[f]]
           node    == [type |-> Override, strings |-> strings]
           new     == Range(own)
           gone    == {LostString(f) : f \in lost}
           e       == [is |-> "device", dev |-> d, fields |-> fields, protocmd |-> protocmd]
           q       == <<d, Len(tdevs[d]) + 1>>
<1>1. DOMAIN own = F
  BY DEF OverrideStrings
<1>2. /\ tcmds # <<>> /\ d \in DOMAIN tdevs /\ Reads(e) /\ Allocate(new \cup gone)
      /\ tdevs' = [tdevs EXCEPT ![d] = Append(@, node)] /\ tcmds' = tcmds
      /\ pc = "reading" /\ conf' = conf /\ overwritten' = overwritten \cup gone
  <2> HIDE DEF own, F
  <2> QED
    BY <1>1 DEF ReadDevice, Reads, Last, own
<1>3. /\ Typed /\ Kinds /\ Fresh /\ e \in Element
      /\ Sound(Building, DOMAIN frees, overwritten, load)
  BY <1>2 DEF IInv, SoundLists, Element
<1>4. tcmds \in Seq(NodeSet) /\ k \in DOMAIN tcmds /\ tcmds[k] \in NodeSet
  BY <1>2, <1>3, EmptySeq DEF Typed
<1>5. /\ \A f \in DOMAIN c : c[f] \in StringSet
      /\ {"name", "description", "pcmd"} \subseteq DOMAIN c
  <2>1. IsNode(tcmds[k], {Default})
    BY <1>3, <1>4 DEF Kinds
  <2> QED
    BY <1>4, <2>1, NodeIs DEF IsNode
<1>6. F \subseteq Fields /\ F \cap {"name", "description", "send"} = {} /\ "pcmd" \in F
  BY <1>5, GivenAssumption DEF Fields
<1>7. \A f \in F : /\ own[f] \in StringSet /\ own[f].load = load
                   /\ own[f].at = Len(read) + 1 /\ own[f].field = f /\ own[f].of = "xml"
                   /\ own[f] \notin DOMAIN frees
  <2> TAKE f \in F
  <2> DEFINE text == CASE f \in fields                    -> d
                       [] f = "pcmd" /\ protocmd # {} -> CHOOSE p \in protocmd : TRUE
                       [] OTHER                        -> c[f].text
  <2>1. PICK t \in TextSet : own[f] = XmlString(f, t)
    <3>1. own[f] = XmlString(f, text)
      BY DEF OverrideStrings
    <3>2. CASE f \in fields
      <4>1. text = d
        BY <1>6, <3>2, GivenAssumption
      <4> QED
        BY <3>1, <4>1 DEF TextSet
    <3>3. CASE f \notin fields /\ f = "pcmd" /\ protocmd # {}
      <4>1. text = CHOOSE p \in protocmd : TRUE
        BY <3>3
      <4>2. (CHOOSE p \in protocmd : TRUE) \in Pcmd
        BY <3>3
      <4> HIDE DEF text
      <4> QED
        BY <3>1, <4>1, <4>2 DEF TextSet
    <3>4. CASE f \notin fields /\ ~(f = "pcmd" /\ protocmd # {})
      <4>1. text = c[f].text
        BY <3>4
      <4>2. c[f].text \in TextSet
        BY <1>5, <3>4 DEF StringSet
      <4> HIDE DEF text
      <4> QED
        BY <3>1, <4>1, <4>2
    <3> QED
      BY <3>2, <3>3, <3>4
  <2>2. /\ own[f] \in StringSet /\ own[f].load = load
        /\ own[f].at = Len(read) + 1 /\ own[f].field = f /\ own[f].of = "xml"
    BY <1>3, <1>6, <2>1, XmlIs
  <2>3. own[f] \notin DOMAIN frees
    BY <1>2, <1>3, <2>2 DEF Fresh, Typed
  <2> QED
    BY <2>2, <2>3
<1>8. new = {own[f] : f \in F}
  BY <1>1 DEF Range
<1> HIDE DEF own, F, new
<1>9. /\ DOMAIN strings = G /\ \A f \in F : strings[f] = own[f]
      /\ \A f \in G \ F : strings[f] = c[f] /\ f \in {"name", "description"}
  OBVIOUS
<1>10. node \in NodeSet
  <2>1. strings \in [G -> StringSet]
    BY <1>5, <1>7
  <2>2. G \in SUBSET Fields
    BY <1>6 DEF Fields
  <2> QED
    BY <2>1, <2>2, NodeMade
<1>11. OwnFields(node) = F
  <2>1. Owns(Override) = Fields \ {"name", "description"}
    BY DEF Owns, Override, Copy, Default
  <2> QED
    BY <1>6, <1>9, <2>1 DEF OwnFields
<1>12. \A s \in new : /\ s \in StringSet /\ s.load = load /\ s.at = Len(read) + 1
                      /\ s.field # "send" /\ s.of = "xml" /\ s \notin DOMAIN frees
  BY <1>6, <1>7, <1>8
<1>20. \A s \in gone : /\ s \in StringSet /\ s.load = load /\ s.at = Len(read) + 1
                       /\ s.field # "send" /\ s \notin DOMAIN frees /\ s \notin new
  <2> TAKE s \in gone
  <2>1. PICK f \in lost : s = LostString(f)
    OBVIOUS
  <2>2. f \in Fields /\ f # "send"
    BY GivenAssumption DEF Fields
  <2>3. /\ s \in StringSet /\ s.load = load /\ s.at = Len(read) + 1
        /\ s.field = f /\ s.of = "lost"
    BY <1>3, <2>1, <2>2, LostIs
  <2>4. s \notin DOMAIN frees
    BY <1>2, <1>3, <2>3 DEF Fresh, Typed
  <2> QED
    BY <1>12, <2>2, <2>3, <2>4
<1> HIDE DEF gone
<1>13. node.strings = strings /\ node.type = Override
  OBVIOUS
<1> HIDE DEF strings, node
<1>14. Sound(Building', DOMAIN frees \cup (new \cup gone), overwritten \cup gone, load)
  <2>1. Building.cmds = tcmds /\ Building.devs = tdevs /\ IsLists(Building)
        /\ Building'.cmds = tcmds' /\ Building'.devs = tdevs'
    BY <1>2, <1>3, BuildingIs, BuildingNext
  <2>2. PICK a, b : a = Building /\ b = Building'
    OBVIOUS
  <2>3. /\ IsLists(a) /\ b.cmds = a.cmds /\ b.devs = WithNode(a.devs, d, node)
        /\ a.devs = tdevs /\ a.cmds = tcmds
        /\ d \in DOMAIN a.devs /\ q = <<d, Len(a.devs[d]) + 1>>
    BY <1>2, <2>1, <2>2 DEF WithNode
  <2> HIDE DEF q
  <2>4. /\ q \notin Places(a) /\ Places(b) = Places(a) \cup {q}
        /\ \A r \in Places(a) : Node(b, r) = Node(a, r)
        /\ Node(b, q) = node
    BY <1>10, <2>3, OneDeviceMore
  <2>5. \A f \in DOMAIN c : c[f] \in DOMAIN frees /\ c[f].load = load
    <3>1. <<"default", k>> \in Places(a) /\ Node(a, <<"default", k>>) = tcmds[k]
      BY <1>4, <2>3, DefaultPlace
    <3> QED
      BY <1>3, <2>2, <3>1 DEF Sound, PointsTo
  <2>6. AddsNode(a, b, DOMAIN frees, load, q, new)
    BY <1>5, <1>7, <1>8, <1>9, <1>11, <1>12, <1>13, <2>4, <2>5 DEF AddsNode
  <2>7. Sound(b, DOMAIN frees \cup new, overwritten, load)
    <3>1. overwritten \subseteq DOMAIN frees
      BY <1>3 DEF Typed
    <3> QED
      BY <1>3, <2>2, <2>6, <3>1, SoundWithNode
  <2>8. Sound(b, (DOMAIN frees \cup new) \cup gone, overwritten \cup gone, load)
    BY <1>20, <2>7, SoundWithMore
  <2>9. (DOMAIN frees \cup new) \cup gone = DOMAIN frees \cup (new \cup gone)
    OBVIOUS
  <2> QED
    BY <2>2, <2>8, <2>9
<1>15. IsNode(node, {Override}) /\ Unsent(node)
  BY <1>6, <1>9, <1>13, ZenonT(30) DEF IsNode, Unsent, Fields
<1>16. Keeps(new \cup gone, gone)
  <2>1. PICK l \in Seq(NodeSet) : l = tdevs[d]
    BY <1>2, <1>3, DevicesAre DEF Typed
  <2>2. /\ DOMAIN tdevs' = DOMAIN tdevs /\ tdevs'[d] = Append(l, node)
        /\ \A x \in DOMAIN tdevs : x # d => tdevs'[x] = tdevs[x]
    BY <1>2, <2>1
  <2>3. Append(l, node) \in Seq(NodeSet)
        /\ \A i \in DOMAIN Append(l, node) :
             (i \in DOMAIN l /\ Append(l, node)[i] = l[i]) \/ Append(l, node)[i] = node
    BY <1>10
  <2>4. tdevs' \in DeviceLists
    <3>1. /\ DOMAIN tdevs \subseteq Device /\ tdevs \in [DOMAIN tdevs -> Seq(NodeSet)]
      BY <1>3, DevicesAre DEF Typed
    <3>2. tdevs' \in [DOMAIN tdevs -> Seq(NodeSet)]
      BY <1>2, <2>1, <2>3, <3>1
    <3> QED
      BY <3>1, <3>2, DevicesMade
  <2>5. \A x \in DOMAIN tdevs' : \A i \in DOMAIN tdevs'[x] :
          IsNode(tdevs'[x][i], {Override}) /\ Unsent(tdevs'[x][i])
    BY <1>3, <1>15, <2>1, <2>2, <2>3, ZenonT(30) DEF Kinds
  <2> QED
    BY <1>2, <1>3, <1>12, <1>14, <1>20, <2>4, <2>5 DEF Keeps, Kinds, Typed
<1> QED
  BY <1>2, <1>3, <1>16, ElementKeeps

-----------------------------------------------------------------------------
(* The end of a load.                                                      *)

\* What the merge makes of the lists of the devices: copies of defaults at their ends.
CopyOf(node) == [type |-> Copy, strings |-> node.strings]

IsMergedList(m, l, cmds) ==
  /\ m \in Seq(NodeSet) /\ Len(l) <= Len(m)
  /\ \A i \in 1..Len(l) : m[i] = l[i]
  /\ \A i \in 1..Len(m) : i > Len(l) => \E j \in DOMAIN cmds : m[i] = CopyOf(cmds[j])

IsMerged(m, devs, cmds) ==
  /\ m = [d \in DOMAIN devs |-> m[d]]
  /\ \A d \in DOMAIN devs : IsMergedList(m[d], devs[d], cmds)

LEMMA CopyIsNode ==
  ASSUME NEW node \in NodeSet
  PROVE  CopyOf(node) \in NodeSet
<1>1. node.strings \in [DOMAIN node.strings -> StringSet]
      /\ DOMAIN node.strings \in SUBSET Fields
  BY NodeIs
<1> QED
  BY <1>1, NodeMade DEF CopyOf

LEMMA StillMerged ==
  ASSUME NEW devs \in DeviceLists, NEW cmds \in Seq(NodeSet), NEW m,
         IsMerged(m, devs, cmds), NEW j \in DOMAIN cmds
  PROVE  IsMerged(CopyDefault(m, cmds[j]), devs, cmds)
<1> DEFINE node == CopyOf(cmds[j])
           M    == CopyDefault(m, cmds[j])
<1>1. node \in NodeSet
  BY CopyIsNode
<1>2. \A d \in DOMAIN devs : M[d] = m[d] \/ M[d] = Append(m[d], node)
  BY DEF IsMerged, CopyDefault, CopyOf
<1>3. M = [d \in DOMAIN devs |-> M[d]]
  BY DEF IsMerged, CopyDefault
<1> HIDE DEF M
<1>4. ASSUME NEW d \in DOMAIN devs PROVE IsMergedList(M[d], devs[d], cmds)
  <2>1. IsMergedList(m[d], devs[d], cmds)
    BY DEF IsMerged
  <2>2. PICK l \in Seq(NodeSet), k \in Seq(NodeSet) : l = devs[d] /\ k = m[d]
    BY <2>1, DevicesAre DEF IsMergedList
  <2>3. CASE M[d] = Append(m[d], node)
    <3>1. M[d] = Append(k, node) /\ Append(k, node) \in Seq(NodeSet)
          /\ Len(Append(k, node)) = Len(k) + 1 /\ Append(k, node)[Len(k) + 1] = node
          /\ \A i \in 1..Len(k) : Append(k, node)[i] = k[i]
      BY <1>1, <2>2, <2>3
    <3>2. PICK x \in Nat, y \in Nat : x = Len(l) /\ y = Len(k)
      BY <2>2
    <3>3. x <= y /\ (\A i \in 1..x : k[i] = l[i])
          /\ \A i \in 1..y : i > x => \E n \in DOMAIN cmds : k[i] = CopyOf(cmds[n])
      BY <2>1, <2>2, <3>2 DEF IsMergedList
    <3> HIDE DEF node
    <3>4. PICK M2 \in Seq(NodeSet) : M2 = Append(k, node)
      BY <3>1
    <3>5. /\ x <= y + 1
          /\ \A i \in 1..x : M2[i] = l[i]
      BY <3>1, <3>2, <3>3, <3>4
    <3>6. ASSUME NEW i \in 1..(y + 1), i > x PROVE \E n \in DOMAIN cmds : M2[i] = CopyOf(cmds[n])
      <4>1. CASE i = y + 1
        BY <3>1, <3>2, <3>4, <4>1 DEF node
      <4>2. CASE i # y + 1
        BY <3>1, <3>2, <3>3, <3>4, <3>6, <4>2
      <4> QED
        BY <4>1, <4>2
    <3> QED
      BY <2>2, <3>1, <3>2, <3>4, <3>5, <3>6 DEF IsMergedList
  <2> QED
    BY <1>2, <2>1, <2>3
<1> QED
  BY <1>3, <1>4 DEF IsMerged, M

\* The merge, after each of the default commands.
LEMMA LoopMerged ==
  ASSUME NEW devs \in DeviceLists, NEW cmds \in Seq(NodeSet), NEW n \in Nat,
         n = Len(cmds), NEW m, Loop(m, devs, cmds, n), NEW k \in 0..n
  PROVE  IsMerged(m[k], devs, cmds)
<1> DEFINE T == {h \in 0..n : ~IsMerged(m[h], devs, cmds)}
<1> SUFFICES ASSUME T # {} PROVE FALSE
  OBVIOUS
<1>0. T \subseteq Nat
  OBVIOUS
<1> HIDE DEF T
<1>1. PICK h \in T : \A j \in T : h <= j
  BY <1>0, LeastOf
<1>2. h \in 0..n /\ ~IsMerged(m[h], devs, cmds)
  BY <1>1 DEF T
<1>3. h # 0
  <2>1. IsMerged(devs, devs, cmds)
    <3>1. ASSUME NEW d \in DOMAIN devs PROVE IsMergedList(devs[d], devs[d], cmds)
      <4>1. devs[d] \in Seq(NodeSet)
        BY DevicesAre
      <4> QED
        BY <4>1 DEF IsMergedList
    <3>2. devs = [d \in DOMAIN devs |-> devs[d]]
      BY DevicesAre
    <3> QED
      BY <3>1, <3>2 DEF IsMerged
  <2> QED
    BY <1>2, <2>1 DEF Loop
<1>4. h - 1 \in 0..n /\ h - 1 \notin T /\ h \in 1..n
  BY <1>1, <1>2, <1>3
<1>5. IsMerged(m[h - 1], devs, cmds)
  BY <1>4 DEF T
<1>6. IsMerged(m[h], devs, cmds)
  BY <1>4, <1>5, StillMerged DEF Loop
<1> QED
  BY <1>2, <1>6

LEMMA MergedIs ==
  ASSUME Typed
  PROVE  IsMerged(Merged, tdevs, tcmds) /\ Merged \in DeviceLists
<1>1. PICK devs \in DeviceLists, cmds \in Seq(NodeSet) : devs = tdevs /\ cmds = tcmds
  BY DEF Typed
<1>2. PICK n \in Nat : n = Len(cmds) /\ DOMAIN cmds = 1..n
  OBVIOUS
<1>3. PICK m : Loop(m, devs, cmds, n)
  BY <1>2, MergeSteps
<1>4. IsMerged(m[n], devs, cmds)
  BY <1>2, <1>3, LoopMerged
<1>5. Merged = m[n]
  BY <1>1, <1>3 DEF Merged, Loop
<1>6. m[n] \in DeviceLists
  <2>1. \A d \in DOMAIN devs : m[n][d] \in Seq(NodeSet)
    BY <1>4 DEF IsMerged, IsMergedList
  <2>2. m[n] = [d \in DOMAIN devs |-> m[n][d]]
    BY <1>4 DEF IsMerged
  <2>3. m[n] \in [DOMAIN devs -> Seq(NodeSet)]
    BY <2>1, <2>2
  <2> QED
    BY <2>3, DevicesAre, DevicesMade
<1> QED
  BY <1>1, <1>4, <1>5, <1>6

\* A copy owns nothing before it is compiled, so the merge changes no ownership.
LEMMA SoundMerged ==
  ASSUME NEW a, NEW b, IsLists(a), IsLists(b), NEW strings, NEW lost, NEW ld,
         Sound(a, strings, lost, ld),
         b.cmds = a.cmds, IsMerged(b.devs, a.devs, a.cmds),
         \A i \in DOMAIN a.cmds : Unsent(a.cmds[i])
  PROVE  Sound(b, strings, lost, ld)
<1>1. DOMAIN b.devs = DOMAIN a.devs
  BY DEF IsMerged
<1>2. ASSUME NEW d \in DOMAIN a.devs
      PROVE  /\ \A i \in DOMAIN a.devs[d] : i \in DOMAIN b.devs[d] /\ b.devs[d][i] = a.devs[d][i]
             /\ \A i \in DOMAIN b.devs[d] : \/ i \in DOMAIN a.devs[d]
                                            \/ \E j \in DOMAIN a.cmds :
                                                 b.devs[d][i] = CopyOf(a.cmds[j])
  <2>1. IsMergedList(b.devs[d], a.devs[d], a.cmds)
    BY DEF IsMerged
  <2>2. PICK l \in Seq(NodeSet), m \in Seq(NodeSet) : l = a.devs[d] /\ m = b.devs[d]
    BY <1>1, DevicesAre DEF IsLists
  <2>3. PICK x \in Nat, y \in Nat : x = Len(l) /\ y = Len(m)
    BY <2>2
  <2>4. DOMAIN l = 1..x /\ DOMAIN m = 1..y
    BY <2>2, <2>3
  <2>5. /\ x <= y /\ \A i \in 1..x : m[i] = l[i]
        /\ \A i \in 1..y : i > x => \E j \in DOMAIN a.cmds : m[i] = CopyOf(a.cmds[j])
    BY <2>1, <2>2, <2>3 DEF IsMergedList
  <2>6. \A i \in 1..x : i \in 1..y
    BY <2>5
  <2>7. \A i \in 1..y : i \in 1..x \/ i > x
    OBVIOUS
  <2> QED
    BY <2>2, <2>4, <2>5, <2>6, <2>7
<1>3. \A p \in Places(a) : p \in Places(b) /\ Node(b, p) = Node(a, p)
  <2> TAKE p \in Places(a)
  <2>1. CASE \E i \in DOMAIN a.cmds : p = <<"default", i>>
    BY <2>1, DefaultPlace
  <2>2. CASE \E d \in DOMAIN a.devs : \E i \in DOMAIN a.devs[d] : p = <<d, i>>
    <3>1. PICK d \in DOMAIN a.devs : \E i \in DOMAIN a.devs[d] : p = <<d, i>>
      BY <2>2
    <3>2. PICK i \in DOMAIN a.devs[d] : p = <<d, i>>
      BY <3>1
    <3>3. Node(a, p) = a.devs[d][i]
      BY <3>2, DevicePlace
    <3>4. p \in Places(b) /\ Node(b, p) = b.devs[d][i]
      BY <1>1, <1>2, <3>2, DevicePlace
    <3> QED
      BY <1>2, <3>3, <3>4
  <2> QED
    BY <2>1, <2>2, PlaceIs
<1>4. \A p \in Places(b) : p \in Places(a) \/ \E j \in DOMAIN a.cmds : Node(b, p) = CopyOf(a.cmds[j])
  <2> TAKE p \in Places(b)
  <2>1. CASE \E i \in DOMAIN b.cmds : p = <<"default", i>>
    BY <2>1, DefaultPlace
  <2>2. CASE \E d \in DOMAIN b.devs : \E i \in DOMAIN b.devs[d] : p = <<d, i>>
    <3>1. PICK d \in DOMAIN b.devs : \E i \in DOMAIN b.devs[d] : p = <<d, i>>
      BY <2>2
    <3>2. PICK i \in DOMAIN b.devs[d] : p = <<d, i>>
      BY <3>1
    <3>3. Node(b, p) = b.devs[d][i]
      BY <3>2, DevicePlace
    <3>4. CASE i \in DOMAIN a.devs[d]
      BY <1>1, <3>2, <3>4, DevicePlace
    <3>5. CASE i \notin DOMAIN a.devs[d]
      BY <1>1, <1>2, <3>3, <3>5
    <3> QED
      BY <3>4, <3>5
  <2> QED
    BY <2>1, <2>2, PlaceIs
<1>5. \A j \in DOMAIN a.cmds : Owns(CopyOf(a.cmds[j]).type) \cap DOMAIN CopyOf(a.cmds[j]).strings = {}
  BY DEF CopyOf, Owns, Unsent, Copy, Override, Default
<1>6. \A x : x \in Owned(b) <=> x \in Owned(a)
  <2> TAKE x
  <2>1. ASSUME x \in Owned(b) PROVE x \in Owned(a)
    <3>1. /\ x \in Places(b) \X Fields
          /\ x[2] \in Owns(Node(b, x[1]).type) \cap DOMAIN Node(b, x[1]).strings
      BY <2>1 DEF Owned
    <3>2. x[1] \in Places(a)
      BY <1>4, <1>5, <3>1
    <3> QED
      BY <1>3, <3>1, <3>2 DEF Owned
  <2>2. ASSUME x \in Owned(a) PROVE x \in Owned(b)
    BY <1>3, <2>2 DEF Owned
  <2> QED
    BY <2>1, <2>2
<1>7. \A x \in Owned(a) : At(b, x) = At(a, x)
  BY <1>3 DEF Owned, At
<1>8. PointsTo(b, strings, ld)
  <2> SUFFICES ASSUME NEW p \in Places(b), NEW f \in DOMAIN Node(b, p).strings
               PROVE  Node(b, p).strings[f] \in strings /\ Node(b, p).strings[f].load = ld
    BY DEF PointsTo
  <2>1. CASE p \in Places(a)
    BY <1>3, <2>1 DEF Sound, PointsTo
  <2>2. CASE p \notin Places(a)
    <3>1. PICK j \in DOMAIN a.cmds : Node(b, p) = CopyOf(a.cmds[j])
      BY <1>4, <2>2
    <3>2. <<"default", j>> \in Places(a) /\ Node(a, <<"default", j>>) = a.cmds[j]
      BY DefaultPlace
    <3>3. Node(b, p).strings = a.cmds[j].strings
      BY <3>1 DEF CopyOf
    <3> QED
      BY <3>2, <3>3 DEF Sound, PointsTo
  <2> QED
    BY <2>1, <2>2
<1> QED
  BY <1>6, <1>7, <1>8 DEF Sound, OwnsOnce, OwnsAll, OwnsNone

LEMMA SoundEmpty ==
  ASSUME NEW c, Places(c) = {}, NEW strings, NEW lost, NEW ld, \A s \in strings : s.load # ld
  PROVE  Sound(c, strings, lost, ld)
BY DEF Sound, PointsTo, OwnsOnce, OwnsAll, OwnsNone, Owned

LEMMA BeginLoadKeeps ==
  ASSUME IInv, BeginLoad
  PROVE  IInv'
<1>1. /\ pc = "idle" /\ load < Len(MaxElements) /\ pc' = "reading" /\ load' = load + 1
      /\ read' = <<>> /\ tcmds' = <<>> /\ conf' = conf /\ replaced' = replaced
      /\ frees' = frees /\ overwritten' = overwritten /\ devID' \in Device
  BY DEF BeginLoad, parseConfig
<1>2. PICK declared \in SUBSET Device \ {{}} : tdevs' = [d \in declared |-> <<>>]
  BY DEF BeginLoad, parseDevice
<1>3. load \in Nat /\ Len(MaxElements) \in Nat /\ conf.load \in 0..load /\ replaced \subseteq 1..load
  BY ElementsAssumption DEF IInv, Typed, Stages
<1>4. Typed'
  <2>1. tdevs' \in DeviceLists
    <3>1. [d \in declared |-> <<>>] \in [declared -> Seq(NodeSet)]
      OBVIOUS
    <3> QED
      BY <1>2, <3>1, DevicesMade
  <2>2. load' \in 0..Len(MaxElements) /\ replaced' \subseteq 1..load'
    BY <1>1, <1>3
  <2>3. tcmds' \in Seq(NodeSet) /\ read' \in Seq(Element)
    BY <1>1
  <2> QED
    BY <1>1, <2>1, <2>2, <2>3 DEF IInv, Typed
<1>5. Stages'
  BY <1>1, <1>3 DEF IInv, Stages
<1>6. Kinds'
  <2>1. DOMAIN tcmds' = {} /\ \A d \in DOMAIN tdevs' : DOMAIN tdevs'[d] = {}
    BY <1>1, <1>2
  <2> QED
    BY <1>1, <2>1 DEF IInv, Kinds, Unsent
<1>7. \A s \in DOMAIN frees : s.load \in 1..load
  BY DEF IInv, Fresh
<1>8. \A s \in DOMAIN frees : s.load # load + 1
  BY <1>3, <1>7
<1>9. Fresh'
  BY <1>1, <1>3, <1>7, <1>8 DEF Fresh
<1>10. Sound(Building', DOMAIN frees, overwritten, load + 1)
  <2>1. Building'.cmds = <<>> /\ Building'.devs = tdevs'
    BY <1>1, BuildingNext DEF IInv
  <2>2. Places(Building') = {}
    BY <1>2, <2>1 DEF Places
  <2> QED
    BY <1>8, <2>2, SoundEmpty
<1>11. SoundLists'
  BY <1>1, <1>10 DEF IInv, SoundLists
<1> QED
  BY <1>1, <1>4, <1>5, <1>6, <1>9, <1>11 DEF IInv, FreedWithItsConfiguration

LEMMA LoadFailsKeeps ==
  ASSUME IInv, LoadFails
  PROVE  IInv'
<1>1. /\ pc' \in {"idle", "exited"} /\ read' = <<>> /\ tcmds' = <<>> /\ tdevs' = NoConf.devs
      /\ UNCHANGED <<load, devID, conf, replaced, frees, overwritten>>
  BY DEF LoadFails
<1>2. NoConf.devs \in DeviceLists /\ DOMAIN NoConf.devs = {}
  <2>1. NoConf.devs = [d \in {} |-> <<>>]
    BY DEF NoConf
  <2>2. [d \in {} |-> <<>>] \in [{} -> Seq(NodeSet)] /\ {} \in SUBSET Device
    OBVIOUS
  <2> QED
    BY <2>1, <2>2, DevicesMade
<1>3. Typed'
  <2>1. tcmds' \in Seq(NodeSet) /\ read' \in Seq(Element)
    BY <1>1
  <2> QED
    BY <1>1, <1>2, <2>1 DEF IInv, Typed
<1>4. Stages'
  BY <1>1 DEF IInv, Stages
<1>5. Kinds'
  <2>1. DOMAIN tcmds' = {} /\ DOMAIN tdevs' = {}
    BY <1>1, <1>2
  <2> QED
    BY <1>1, <2>1 DEF IInv, Kinds, Unsent
<1>6. Fresh'
  BY <1>1 DEF IInv, Fresh
<1>7. SoundLists'
  BY <1>1 DEF IInv, SoundLists
<1> QED
  BY <1>1, <1>3, <1>4, <1>5, <1>6, <1>7 DEF IInv, FreedWithItsConfiguration

\* The lists in force are freed, each of their strings once, and the new ones take their place.
LEMMA InstallKeeps ==
  ASSUME IInv, Install
  PROVE  IInv'
<1>1. /\ pc = "reading" /\ pc' = "compile" /\ tcmds' = <<>> /\ tdevs' = NoConf.devs
      /\ read' = <<>> /\ load' = load /\ devID' = devID
      /\ conf' = [load |-> load, cmds |-> tcmds, devs |-> Merged, read |-> read]
      /\ replaced' = IF conf = NoConf THEN replaced ELSE replaced \cup {conf.load}
      /\ frees' = [s \in DOMAIN frees |-> frees[s] + FreedWith(conf, s)]
      /\ overwritten' = overwritten
  BY DEF Install, freeAllLists
<1>2. /\ load \in Nat /\ load >= 1 /\ conf.load \in 0..load /\ conf.load # load
      /\ replaced \subseteq 1..load /\ load \notin replaced /\ conf.load \notin replaced
      /\ conf = NoConf <=> conf.load = 0
  BY <1>1, ElementsAssumption DEF IInv, Typed, Stages, NoConf
<1>3. IsMerged(Merged, tdevs, tcmds) /\ Merged \in DeviceLists
  BY MergedIs DEF IInv
<1>4. /\ conf'.load = load /\ conf'.cmds = tcmds /\ conf'.devs = Merged /\ conf'.read = read
  BY <1>1
<1>5. Typed'
  <2>1. conf' \in ConfSet
    BY <1>1, <1>2, <1>3 DEF ConfSet, IInv, Typed
  <2>2. tcmds' \in Seq(NodeSet) /\ read' \in Seq(Element) /\ tdevs' \in DeviceLists
    <3>1. [d \in {} |-> <<>>] \in [{} -> Seq(NodeSet)] /\ {} \in SUBSET Device
      OBVIOUS
    <3>2. NoConf.devs \in DeviceLists
      BY <3>1, DevicesMade DEF NoConf
    <3>3. <<>> \in Seq(NodeSet) /\ <<>> \in Seq(Element)
      OBVIOUS
    <3>4. tcmds' = <<>> /\ read' = <<>> /\ tdevs' = NoConf.devs
      BY <1>1
    <3> QED
      BY <3>2, <3>3, <3>4, Zenon
  <2>3. replaced' \subseteq 1..load
    <3>1. CASE conf = NoConf
      BY <1>1, <1>2, <3>1
    <3>2. CASE conf # NoConf
      <4>1. conf.load \in 1..load
        BY <1>2, <3>2
      <4>2. replaced' = replaced \cup {conf.load}
        BY <1>1, <3>2
      <4> QED
        BY <1>2, <4>1, <4>2
    <3> QED
      BY <3>1, <3>2
  <2>4. DOMAIN frees' = DOMAIN frees
    BY <1>1
  <2>5. ASSUME NEW s \in DOMAIN frees PROVE frees'[s] \in Nat
    <3>1. frees[s] \in Nat
      BY DEF IInv, Typed
    <3>2. FreedWith(conf, s) \in Nat
      BY FreedOnce DEF IInv, SoundLists
    <3> QED
      BY <1>1, <3>1, <3>2
  <2>6. frees' \in [DOMAIN frees' -> Nat]
    BY <1>1, <2>4, <2>5
  <2> QED
    BY <1>1, <2>1, <2>2, <2>3, <2>4, <2>6 DEF IInv, Typed
<1>6. Stages'
  BY <1>1, <1>2, <1>4 DEF Stages
<1>7. Kinds'
  <2>1. DOMAIN tcmds' = {} /\ DOMAIN tdevs' = {}
    BY <1>1 DEF NoConf
  <2>2. \A i \in DOMAIN conf'.cmds : IsNode(conf'.cmds[i], {Default}) /\ Unsent(conf'.cmds[i])
    BY <1>4 DEF IInv, Kinds
  <2>3. DOMAIN conf'.devs = DOMAIN tdevs
    BY <1>3, <1>4 DEF IsMerged
  <2>4. ASSUME NEW d \in DOMAIN tdevs, NEW i \in DOMAIN Merged[d]
        PROVE  IsNode(Merged[d][i], {Override, Copy}) /\ Unsent(Merged[d][i])
    <3>1. IsMergedList(Merged[d], tdevs[d], tcmds)
      BY <1>3 DEF IsMerged
    <3>2. PICK l \in Seq(NodeSet), m \in Seq(NodeSet) : l = tdevs[d] /\ m = Merged[d]
      BY <3>1, DevicesAre DEF IsMergedList, IInv, Typed
    <3>3. PICK x \in Nat, y \in Nat : x = Len(l) /\ y = Len(m)
      BY <3>2
    <3>4. DOMAIN l = 1..x /\ DOMAIN m = 1..y
      BY <3>2, <3>3
    <3>5. /\ x <= y /\ \A j \in 1..x : m[j] = l[j]
          /\ \A j \in 1..y : j > x => \E k \in DOMAIN tcmds : m[j] = CopyOf(tcmds[k])
      BY <3>1, <3>2, <3>3 DEF IsMergedList
    <3>6. CASE i \in 1..x
      <4>1. IsNode(l[i], {Override}) /\ Unsent(l[i])
        BY <3>2, <3>4, <3>6 DEF IInv, Kinds
      <4> QED
        BY <3>2, <3>5, <3>6, <4>1 DEF IsNode
    <3>7. CASE i \notin 1..x
      <4>1. i \in 1..y /\ i > x
        BY <3>2, <3>4, <3>7
      <4>2. PICK k \in DOMAIN tcmds : m[i] = CopyOf(tcmds[k])
        BY <3>5, <4>1
      <4>3. IsNode(tcmds[k], {Default}) /\ Unsent(tcmds[k])
        BY DEF IInv, Kinds
      <4> QED
        BY <3>2, <4>2, <4>3 DEF IsNode, Unsent, CopyOf
    <3> QED
      BY <3>6, <3>7
  <2> QED
    BY <1>4, <2>1, <2>2, <2>3, <2>4 DEF Kinds, Unsent
<1>8. Fresh'
  BY <1>1 DEF IInv, Fresh
<1>9. FreedWithItsConfiguration'
  <2> SUFFICES ASSUME NEW s \in DOMAIN frees
               PROVE  frees'[s] = IF s.load \in replaced' /\ s \notin overwritten THEN 1 ELSE 0
    BY <1>1 DEF FreedWithItsConfiguration
  <2>1. frees[s] = IF s.load \in replaced /\ s \notin overwritten THEN 1 ELSE 0
    BY DEF IInv, FreedWithItsConfiguration
  <2>2. FreedWith(conf, s) = IF s.load = conf.load /\ s \notin overwritten THEN 1 ELSE 0
    BY FreedOnce DEF IInv, SoundLists
  <2>3. s.load \in 1..load
    BY DEF IInv, Fresh
  <2>4. frees'[s] = frees[s] + FreedWith(conf, s)
    BY <1>1
  <2>5. CASE s.load = conf.load
    <3>1. s.load \notin replaced /\ s.load \in replaced'
      BY <1>1, <1>2, <2>3, <2>5
    <3> QED
      BY <2>1, <2>2, <2>4, <2>5, <3>1
  <2>6. CASE s.load # conf.load
    <3>1. s.load \in replaced' <=> s.load \in replaced
      BY <1>1, <2>6
    <3> QED
      BY <2>1, <2>2, <2>4, <2>6, <3>1
  <2> QED
    BY <2>5, <2>6
<1>10. Sound(conf', DOMAIN frees, overwritten, load)
  <2>1. PICK a, b : a = Building /\ b = conf'
    OBVIOUS
  <2>2. a.cmds = tcmds /\ a.devs = tdevs /\ IsLists(a)
    BY <2>1, BuildingIs DEF IInv
  <2>3. IsLists(b) /\ b.cmds = a.cmds /\ IsMerged(b.devs, a.devs, a.cmds)
    BY <1>3, <1>4, <2>1, <2>2 DEF IsLists
  <2>4. \A i \in DOMAIN a.cmds : Unsent(a.cmds[i])
    BY <2>2 DEF IInv, Kinds
  <2>5. Sound(a, DOMAIN frees, overwritten, load)
    BY <1>1, <2>1 DEF IInv, SoundLists
  <2> QED
    BY <2>1, <2>2, <2>3, <2>4, <2>5, SoundMerged
<1>11. SoundLists'
  <2>1. DOMAIN frees' = DOMAIN frees
    BY <1>1
  <2> QED
    BY <1>1, <1>4, <1>10, <2>1 DEF SoundLists
<1> QED
  BY <1>5, <1>6, <1>7, <1>8, <1>9, <1>11 DEF IInv

\* compileCommand() gives a node with an address a string of its own, whatever its type.
SentNode(c, d, i, S) ==
  IF <<d, i>> \in S
    THEN [c.devs[d][i] EXCEPT !.strings = Put(@, "send", SendString(d, i))]
    ELSE c.devs[d][i]

Sends(c, c2, S) ==
  /\ c2.cmds = c.cmds
  /\ c2.devs = [d \in DOMAIN c.devs |-> [i \in DOMAIN c.devs[d] |-> SentNode(c, d, i, S)]]

LEMMA SendStringIs ==
  ASSUME Typed, NEW d \in Device, NEW i \in Nat
  PROVE  /\ SendString(d, i) \in StringSet /\ SendString(d, i).load = load
         /\ SendString(d, i).field = "send"
         /\ SendString(d, i).of = d /\ SendString(d, i).at = i
BY DEF Typed, SendString, StringSet, Fields, TextSet

LEMMA SentNodeIs ==
  ASSUME Typed, NEW c, IsLists(c), NEW S, NEW d \in DOMAIN c.devs, NEW i \in DOMAIN c.devs[d]
  PROVE  /\ SentNode(c, d, i, S) \in NodeSet
         /\ SentNode(c, d, i, S).type = c.devs[d][i].type
         /\ SentNode(c, d, i, S).strings = IF <<d, i>> \in S
              THEN Put(c.devs[d][i].strings, "send", SendString(d, i))
              ELSE c.devs[d][i].strings
<1>1. PICK node \in NodeSet : node = c.devs[d][i]
  <2>1. c.devs[d] \in Seq(NodeSet)
    BY DevicesAre DEF IsLists
  <2> QED
    BY <2>1
<1>2. CASE <<d, i>> \notin S
  BY <1>1, <1>2 DEF SentNode
<1>3. CASE <<d, i>> \in S
  <2>1. PICK g : g = Put(node.strings, "send", SendString(d, i))
    OBVIOUS
  <2>2. SentNode(c, d, i, S) = [node EXCEPT !.strings = g]
    BY <1>1, <1>3, <2>1 DEF SentNode
  <2>3. [node EXCEPT !.strings = g] = [type |-> node.type, strings |-> g]
    BY DEF NodeSet
  <2>4. [type |-> node.type, strings |-> g] \in NodeSet
    <3>1. c.devs[d] \in Seq(NodeSet) /\ d \in Device
      BY DevicesAre DEF IsLists
    <3>2. SendString(d, i) \in StringSet
      BY <3>1, SendStringIs
    <3>3. g \in [DOMAIN node.strings \cup {"send"} -> StringSet]
      BY <2>1, <3>2, NodeIs DEF Put
    <3>4. DOMAIN node.strings \cup {"send"} \in SUBSET Fields
      BY NodeIs DEF Fields
    <3>5. node.type \in {Default, Override, Copy}
      BY NodeIs
    <3> QED
      BY <3>3, <3>4, <3>5, NodeMade
  <2> QED
    BY <1>1, <1>3, <2>1, <2>2, <2>3, <2>4
<1> QED
  BY <1>2, <1>3

LEMMA SendsKeeps ==
  ASSUME Typed, NEW c, IsLists(c), NEW c2, NEW S, Sends(c, c2, S)
  PROVE  /\ IsLists(c2) /\ Places(c2) = Places(c) /\ DOMAIN c2.devs = DOMAIN c.devs
         /\ \A d \in DOMAIN c.devs : /\ DOMAIN c2.devs[d] = DOMAIN c.devs[d]
                                     /\ \A i \in DOMAIN c.devs[d] :
                                          c2.devs[d][i] = SentNode(c, d, i, S)
<1>1. /\ c2.cmds = c.cmds /\ DOMAIN c2.devs = DOMAIN c.devs
      /\ \A d \in DOMAIN c.devs : /\ DOMAIN c2.devs[d] = DOMAIN c.devs[d]
                                  /\ \A i \in DOMAIN c.devs[d] :
                                       c2.devs[d][i] = SentNode(c, d, i, S)
  BY DEF Sends
<1>2. Places(c2) = Places(c)
  BY <1>1 DEF Places
<1>3. ASSUME NEW d \in DOMAIN c.devs PROVE c2.devs[d] \in Seq(NodeSet)
  <2>1. PICK l \in Seq(NodeSet) : l = c.devs[d]
    BY DevicesAre DEF IsLists
  <2>2. PICK n \in Nat : n = Len(l) /\ DOMAIN l = 1..n
    OBVIOUS
  <2>3. c2.devs[d] = [i \in 1..n |-> SentNode(c, d, i, S)]
    BY <2>1, <2>2 DEF Sends
  <2>4. \A i \in 1..n : SentNode(c, d, i, S) \in NodeSet
    BY <2>1, <2>2, SentNodeIs
  <2> HIDE DEF SentNode
  <2>5. [i \in 1..n |-> SentNode(c, d, i, S)] \in [1..n -> NodeSet]
    BY <2>4
  <2> QED
    BY <2>3, <2>5
<1>4. c2.devs \in DeviceLists
  <2>1. c2.devs = [d \in DOMAIN c.devs |-> c2.devs[d]]
    BY <1>1 DEF Sends
  <2>2. c2.devs \in [DOMAIN c.devs -> Seq(NodeSet)]
    BY <1>3, <2>1
  <2> QED
    BY <2>2, DevicesAre, DevicesMade DEF IsLists
<1> QED
  BY <1>1, <1>2, <1>4 DEF IsLists

LEMMA SoundSends ==
  ASSUME Typed, NEW c, IsLists(c), NEW c2, NEW S, Sends(c, c2, S), NEW strings, NEW lost,
         Sound(c, strings, lost, load), lost \subseteq strings, S \subseteq Places(c), \A p \in S : p[1] # "default",
         \A d \in DOMAIN c.devs : \A i \in DOMAIN c.devs[d] :
           Unsent(c.devs[d][i]) /\ c.devs[d][i].type \in {Override, Copy},
         \A s \in strings : s.load = load => s.field # "send"
  PROVE  Sound(c2, strings \cup {SendString(p[1], p[2]) : p \in S}, lost, load)
<1> DEFINE v == [p \in S |-> SendString(p[1], p[2])]
<1>1. /\ Places(c2) = Places(c) /\ DOMAIN c2.devs = DOMAIN c.devs
      /\ \A d \in DOMAIN c.devs : /\ DOMAIN c2.devs[d] = DOMAIN c.devs[d]
                                  /\ \A i \in DOMAIN c.devs[d] :
                                       c2.devs[d][i] = SentNode(c, d, i, S)
      /\ IsLists(c2)
  BY SendsKeeps
<1>2. \A p \in Places(c) \ S : Node(c2, p) = Node(c, p)
  <2> TAKE p \in Places(c) \ S
  <2>1. CASE \E i \in DOMAIN c.cmds : p = <<"default", i>>
    BY <2>1 DEF Node, Sends
  <2>2. CASE \E d \in DOMAIN c.devs : \E i \in DOMAIN c.devs[d] : p = <<d, i>>
    <3>1. PICK d \in DOMAIN c.devs : \E i \in DOMAIN c.devs[d] : p = <<d, i>>
      BY <2>2
    <3>2. PICK i \in DOMAIN c.devs[d] : p = <<d, i>>
      BY <3>1
    <3>3. Node(c, p) = c.devs[d][i] /\ Node(c2, p) = c2.devs[d][i]
      BY <1>1, <3>2, DevicePlace
    <3>4. SentNode(c, d, i, S) = c.devs[d][i]
      BY <3>2 DEF SentNode
    <3> QED
      BY <1>1, <3>3, <3>4
  <2> QED
    BY <2>1, <2>2, PlaceIs
<1>3. ASSUME NEW p \in S
      PROVE  /\ Node(c2, p).type = Node(c, p).type
             /\ Node(c2, p).strings = Put(Node(c, p).strings, "send", v[p])
             /\ "send" \in Owns(Node(c, p).type) \ DOMAIN Node(c, p).strings
             /\ v[p].load = load /\ v[p] \notin strings
             /\ v[p].of = p[1] /\ v[p].at = p[2] /\ p = <<p[1], p[2]>>
  <2>1. \E d \in DOMAIN c.devs : \E i \in DOMAIN c.devs[d] : p = <<d, i>>
    BY PlaceIs
  <2>2. PICK d \in DOMAIN c.devs : \E i \in DOMAIN c.devs[d] : p = <<d, i>>
    BY <2>1
  <2>3. PICK i \in DOMAIN c.devs[d] : p = <<d, i>>
    BY <2>2
  <2>4. Node(c, p) = c.devs[d][i] /\ Node(c2, p) = c2.devs[d][i]
    BY <1>1, <2>3, DevicePlace
  <2>5. v[p] = SendString(d, i)
    BY <2>3
  <2>6. d \in Device /\ i \in Nat
    BY DevicesAre DEF IsLists
  <2>7. /\ v[p].load = load /\ v[p].field = "send" /\ v[p].of = d /\ v[p].at = i
    BY <2>5, <2>6, SendStringIs
  <2>8. "send" \in Owns(c.devs[d][i].type) \ DOMAIN c.devs[d][i].strings
    BY DEF Unsent, Owns, Fields, Override, Copy, Default
  <2> HIDE DEF v
  <2>9. /\ Node(c2, p).type = Node(c, p).type
        /\ Node(c2, p).strings = Put(Node(c, p).strings, "send", v[p])
    BY <1>1, <2>3, <2>4, <2>5, SentNodeIs
  <2> QED
    BY <2>3, <2>4, <2>7, <2>8, <2>9
<1>4. DOMAIN v = S
  OBVIOUS
<1>5. {v[p] : p \in DOMAIN v} = {SendString(p[1], p[2]) : p \in S}
  OBVIOUS
<1> HIDE DEF v
<1>6. \A p, r \in S : v[p] = v[r] => p = r
  BY <1>3
<1>7. AddsField(c, c2, strings, load, "send", v)
  BY <1>1, <1>2, <1>3, <1>4, <1>6 DEF AddsField, Fields
<1>8. lost \cup Gone(c, "send", v) = lost
  BY <1>3, <1>4 DEF Gone
<1>9. Sound(c2, strings \cup {v[p] : p \in DOMAIN v}, lost \cup Gone(c, "send", v), load)
  BY <1>7, SoundWithField
<1> QED
  BY <1>5, <1>8, <1>9

LEMMA CompileKeeps ==
  ASSUME IInv, Compile
  PROVE  IInv'
<1> DEFINE S   == Compiled
           new == {SendString(p[1], p[2]) : p \in S}
<1>1. /\ pc = "compile" /\ pc' = "idle" /\ Allocate(new)
      /\ UNCHANGED <<load, read, tcmds, tdevs, devID, replaced, overwritten>>
      /\ conf' = [conf EXCEPT !.devs = [d \in DOMAIN @ |-> [i \in DOMAIN @[d] |->
                    SentNode(conf, d, i, S)]]]
  <2>1. /\ pc = "compile" /\ pc' = "idle" /\ Allocate(new)
        /\ UNCHANGED <<load, read, tcmds, tdevs, devID, replaced, overwritten>>
    BY DEF Compile
  <2>2. conf' = [conf EXCEPT !.devs = [d \in DOMAIN @ |-> [i \in DOMAIN @[d] |->
                  SentNode(conf, d, i, S)]]]
    BY Zenon DEF Compile, Sent, SentNode
  <2> QED
    BY <2>1, <2>2, Zenon
<1>2. /\ Typed /\ Stages /\ Kinds /\ Fresh /\ conf.load = load
      /\ tcmds = <<>> /\ tdevs = NoConf.devs /\ read = <<>>
  BY <1>1 DEF IInv, Stages
<1>3. PICK c \in ConfSet : c = conf
  BY <1>2 DEF Typed
<1>4. PICK c2 : c2 = conf'
  OBVIOUS
<1>5. IsLists(c)
  BY DEF ConfSet, IsLists
<1>6. /\ c2 = [load |-> c.load, cmds |-> c.cmds, devs |-> c2.devs, read |-> c.read]
      /\ Sends(c, c2, S)
  <2>1. c2 = [c EXCEPT !.devs = [d \in DOMAIN c.devs |-> [i \in DOMAIN c.devs[d] |->
                                   SentNode(c, d, i, S)]]]
    BY <1>1, <1>3, <1>4
  <2> HIDE DEF S
  <2> QED
    BY <2>1 DEF ConfSet, Sends
<1>7. /\ S \subseteq Places(c) /\ \A p \in S : p[1] # "default"
  BY <1>3 DEF Compiled
<1> HIDE DEF S
<1>8. /\ Places(c2) = Places(c) /\ DOMAIN c2.devs = DOMAIN c.devs /\ IsLists(c2)
      /\ \A d \in DOMAIN c.devs : /\ DOMAIN c2.devs[d] = DOMAIN c.devs[d]
                                  /\ \A i \in DOMAIN c.devs[d] :
                                       c2.devs[d][i] = SentNode(c, d, i, S)
  BY <1>2, <1>5, <1>6, SendsKeeps
<1>9. \A s \in new : s \in StringSet /\ s.load = load
  <2> TAKE s \in new
  <2>1. PICK p \in S : s = SendString(p[1], p[2])
    OBVIOUS
  <2>2. \E d \in DOMAIN c.devs : \E i \in DOMAIN c.devs[d] : p = <<d, i>>
    BY <1>5, <1>7, PlaceIs
  <2>3. PICK d \in DOMAIN c.devs : \E i \in DOMAIN c.devs[d] : p = <<d, i>>
    BY <2>2
  <2>4. PICK i \in DOMAIN c.devs[d] : p = <<d, i>>
    BY <2>3
  <2>5. d \in Device /\ i \in Nat
    BY <1>5, DevicesAre DEF IsLists
  <2> QED
    BY <1>2, <2>1, <2>4, <2>5, SendStringIs
<1> HIDE DEF new
<1>10. /\ DOMAIN frees' = DOMAIN frees \cup new
       /\ DOMAIN frees' \subseteq StringSet /\ frees' \in [DOMAIN frees' -> Nat]
       /\ FreedWithItsConfiguration'
  <2>1. PICK none : none = {}
    OBVIOUS
  <2>2. overwritten' = overwritten \cup none /\ \A s \in none : s.load = load
    BY <1>1, <2>1
  <2> QED
    BY <1>1, <1>9, <2>2, Allocates
<1>11. Typed'
  <2>1. c2 \in ConfSet
    BY <1>3, <1>6, <1>8 DEF ConfSet, IsLists
  <2> QED
    BY <1>1, <1>2, <1>4, <1>10, <2>1 DEF Typed
<1>12. Stages'
  <2>1. c.load \in 0..load /\ c.load \notin replaced /\ c.load # 0
    BY <1>1, <1>2, <1>3, <1>7 DEF Stages, NoConf, Typed, IInv
  <2>2. c2.load = c.load
    BY <1>6
  <2> QED
    BY <1>1, <1>2, <1>4, <2>1, <2>2 DEF Stages
<1>13. Kinds'
  <2>1. \A i \in DOMAIN c2.cmds : IsNode(c2.cmds[i], {Default}) /\ Unsent(c2.cmds[i])
    BY <1>2, <1>3, <1>6 DEF Kinds, Sends
  <2>2. ASSUME NEW d \in DOMAIN c.devs, NEW i \in DOMAIN c.devs[d]
        PROVE  IsNode(c2.devs[d][i], {Override, Copy})
    <3>1. IsNode(c.devs[d][i], {Override, Copy})
      BY <1>2, <1>3 DEF Kinds
    <3>2. c2.devs[d][i] = SentNode(c, d, i, S)
      BY <1>8
    <3>3. /\ SentNode(c, d, i, S).type = c.devs[d][i].type
          /\ SentNode(c, d, i, S).strings = IF <<d, i>> \in S
               THEN Put(c.devs[d][i].strings, "send", SendString(d, i))
               ELSE c.devs[d][i].strings
      BY <1>2, <1>5, SentNodeIs
    <3> QED
      BY <3>1, <3>2, <3>3 DEF IsNode, Put, Fields
  <2> QED
    BY <1>1, <1>2, <1>4, <1>8, <2>1, <2>2, ZenonT(30) DEF Kinds, Unsent
<1>14. Fresh'
  <2>1. ASSUME NEW s \in new PROVE s.load \in 1..load
    BY <1>1, <1>2, <1>3, <1>9 DEF Stages, Typed
  <2> QED
    BY <1>1, <1>2, <1>10, <2>1 DEF Fresh
<1>15. Sound(c2, DOMAIN frees \cup new, overwritten, load)
  <2>1. Sound(c, DOMAIN frees, overwritten, load) /\ overwritten \subseteq DOMAIN frees
    BY <1>2, <1>3 DEF IInv, SoundLists, Typed
  <2>2. \A d \in DOMAIN c.devs : \A i \in DOMAIN c.devs[d] :
          Unsent(c.devs[d][i]) /\ c.devs[d][i].type \in {Override, Copy}
    BY <1>1, <1>2, <1>3 DEF Kinds, IsNode
  <2>3. \A s \in DOMAIN frees : s.load = load => s.field # "send"
    BY <1>1, <1>2 DEF Fresh
  <2> QED
    BY <1>2, <1>5, <1>6, <1>7, <2>1, <2>2, <2>3, SoundSends DEF new
<1>16. SoundLists'
  <2>1. c2.load = load
    BY <1>2, <1>3, <1>6
  <2> QED
    BY <1>1, <1>4, <1>10, <1>15, <2>1 DEF SoundLists
<1> QED
  BY <1>10, <1>11, <1>12, <1>13, <1>14, <1>16 DEF IInv

LEMMA CompileExitsKeeps ==
  ASSUME IInv, CompileExits
  PROVE  IInv'
<1>1. /\ pc = "compile" /\ pc' = "exited"
      /\ UNCHANGED <<load, read, tcmds, tdevs, devID, conf, replaced, frees, overwritten>>
  BY DEF CompileExits
<1> QED
  BY <1>1 DEF IInv, Typed, Stages, Kinds, Unsent, Fresh, FreedWithItsConfiguration, SoundLists

LEMMA NothingChanges ==
  ASSUME IInv, UNCHANGED vars
  PROVE  IInv'
<1>1. UNCHANGED <<pc, load, read, tcmds, tdevs, devID, conf, replaced, frees, overwritten>>
  BY DEF vars
<1>2. (Building' = Building)
  BY <1>1 DEF Building
<1> QED
  BY <1>1, <1>2 DEF IInv, Typed, Stages, Kinds, Unsent, Fresh, FreedWithItsConfiguration,
                    SoundLists

-----------------------------------------------------------------------------
(* The theorems.                                                           *)

LEMMA InitInv == Init => IInv
<1> SUFFICES ASSUME Init PROVE IInv
  OBVIOUS
<1>1. /\ pc = "idle" /\ load = 0 /\ read = <<>> /\ tcmds = <<>> /\ tdevs = NoConf.devs
      /\ devID \in Device /\ conf = NoConf /\ replaced = {} /\ frees = [s \in {} |-> 0]
      /\ overwritten = {}
  BY DEF Init
<1>2. /\ NoConf.load = 0 /\ NoConf.cmds = <<>> /\ NoConf.devs = [d \in {} |-> <<>>]
      /\ NoConf \in ConfSet
  <2>1. [d \in {} |-> <<>>] \in [{} -> Seq(NodeSet)] /\ {} \in SUBSET Device
    OBVIOUS
  <2>2. [d \in {} |-> <<>>] \in DeviceLists
    BY <2>1, DevicesMade
  <2>3. <<>> \in Seq(NodeSet) /\ <<>> \in Seq(Element)
    OBVIOUS
  <2> QED
    BY <2>2, <2>3 DEF NoConf, ConfSet
<1>3. Typed
  <2>1. tcmds \in Seq(NodeSet) /\ read \in Seq(Element) /\ tdevs \in DeviceLists
    BY <1>1, <1>2 DEF ConfSet
  <2>2. DOMAIN frees = {} /\ frees \in [{} -> Nat]
    BY <1>1
  <2>3. load \in 0..Len(MaxElements)
    BY <1>1, ElementsAssumption
  <2> QED
    BY <1>1, <1>2, <2>1, <2>2, <2>3 DEF Typed
<1>4. Stages
  BY <1>1, <1>2 DEF Stages
<1>5. Kinds
  <2>1. DOMAIN tcmds = {} /\ DOMAIN tdevs = {} /\ DOMAIN conf.cmds = {} /\ DOMAIN conf.devs = {}
    BY <1>1, <1>2
  <2> QED
    BY <2>1 DEF Kinds
<1>6. Fresh /\ FreedWithItsConfiguration
  <2>1. DOMAIN frees = {}
    BY <1>1
  <2> QED
    BY <2>1 DEF Fresh, FreedWithItsConfiguration
<1>7. SoundLists
  <2>1. Places(conf) = {}
    BY <1>1, <1>2 DEF Places
  <2>2. DOMAIN frees = {}
    BY <1>1
  <2> QED
    BY <1>1, <2>1, <2>2, SoundEmpty DEF SoundLists
<1> QED
  BY <1>3, <1>4, <1>5, <1>6, <1>7 DEF IInv

LEMMA NextKeeps ==
  ASSUME IInv, [Next]_vars
  PROVE  IInv'
<1>1. CASE BeginLoad
  BY <1>1, BeginLoadKeeps
<1>2. CASE ReadElement
  <2>1. CASE \E n \in Name, p \in Pcmd : ReadCommand(n, p)
    BY <2>1, ReadCommandKeeps
  <2>2. CASE \E f \in Given : ReadField(f)
    BY <2>2, ReadFieldKeeps
  <2>3. CASE \E d \in Device, fields \in SUBSET (Given \ {"description"}) :
               \E lost \in SUBSET (fields \cup (Given \cap {"description"})),
                  protocmd \in {{}} \cup {{p} : p \in Pcmd} :
                    ReadDevice(d, fields, lost, protocmd)
    BY <2>3, ReadDeviceKeeps
  <2> QED
    BY <1>2, <2>1, <2>2, <2>3 DEF ReadElement
<1>3. CASE Refused
  BY <1>3, LoadFailsKeeps DEF Refused
<1>4. CASE NoDefaultDevice
  BY <1>4, LoadFailsKeeps DEF NoDefaultDevice
<1>5. CASE Install
  BY <1>5, InstallKeeps
<1>6. CASE Compile
  BY <1>6, CompileKeeps
<1>7. CASE CompileExits
  BY <1>7, CompileExitsKeeps
<1>8. CASE UNCHANGED vars
  BY <1>8, NothingChanges
<1> QED
  BY <1>1, <1>2, <1>3, <1>4, <1>5, <1>6, <1>7, <1>8 DEF Next

\* The strings of every load are owned once, but for those a repeated element overwrites,
\* which nobody owns; whatever is read, refused, installed or compiled.  The invariant that
\* all else here follows from.
THEOREM OwnershipHolds == Spec => []IInv
<1>1. ASSUME IInv, [Next]_vars PROVE IInv'
  BY <1>1, NextKeeps
<1> QED
  BY <1>1, InitInv, PTL DEF Spec

LEMMA IsTypeOK == IInv => TypeOK
<1> SUFFICES ASSUME IInv PROVE TypeOK
  OBVIOUS
<1>1. IsLists(conf)
  BY DEF IInv, Typed, ConfSet, IsLists
<1>2. ASSUME NEW x \in Places(conf)
      PROVE  IsNode(Node(conf, x), IF x[1] = "default" THEN {Default} ELSE {Override, Copy})
  <2>1. CASE \E i \in DOMAIN conf.cmds : x = <<"default", i>>
    <3>1. PICK i \in DOMAIN conf.cmds : x = <<"default", i>>
      BY <2>1
    <3>2. Node(conf, x) = conf.cmds[i] /\ IsNode(conf.cmds[i], {Default})
      BY <3>1, DefaultPlace DEF IInv, Kinds
    <3> QED
      BY <3>1, <3>2
  <2>2. CASE \E d \in DOMAIN conf.devs : \E i \in DOMAIN conf.devs[d] : x = <<d, i>>
    <3>1. PICK d \in DOMAIN conf.devs : \E i \in DOMAIN conf.devs[d] : x = <<d, i>>
      BY <2>2
    <3>2. PICK i \in DOMAIN conf.devs[d] : x = <<d, i>>
      BY <3>1
    <3>3. Node(conf, x) = conf.devs[d][i] /\ IsNode(conf.devs[d][i], {Override, Copy})
          /\ d # "default"
      BY <1>1, <3>2, DevicePlace DEF IInv, Kinds
    <3> QED
      BY <3>2, <3>3
  <2> QED
    BY <1>1, <2>1, <2>2, PlaceIs
<1> QED
  BY <1>2 DEF IInv, Typed, Kinds, TypeOK

\* Every node has the fields that lookup, compiler and byte code follow unasked, and the type
\* its list is made of.
THEOREM TypeCorrect == Spec => []TypeOK
BY OwnershipHolds, IsTypeOK, PTL

\* freeAllLists(): no string is freed twice, none is freed while its configuration is in
\* force, and none is forgotten when the configuration is replaced but those that a repeated
\* element has taken the place of.  Those, and the strings of refused documents, leak.
THEOREM FreedOnlyWithConfiguration == Spec => []FreedWithItsConfiguration
<1>1. IInv => FreedWithItsConfiguration
  BY DEF IInv
<1> QED
  BY <1>1, OwnershipHolds, PTL

LEMMA NothingFreed ==
  ASSUME IInv, NEW c, IsLists(c), NEW ld, ld \notin replaced,
         Sound(c, DOMAIN frees, overwritten, ld),
         NEW x \in Places(c), NEW s \in Range(Node(c, x).strings)
  PROVE  s \in DOMAIN frees /\ frees[s] = 0
<1>1. PICK f \in DOMAIN Node(c, x).strings : s = Node(c, x).strings[f]
  BY DEF Range
<1>2. s \in DOMAIN frees /\ s.load = ld
  BY <1>1 DEF Sound, PointsTo
<1> QED
  BY <1>2 DEF IInv, FreedWithItsConfiguration

LEMMA IsNothingDangles == IInv => NothingDangles
<1> SUFFICES ASSUME IInv PROVE NothingDangles
  OBVIOUS
<1>1. IsLists(conf) /\ IsLists(Building)
  BY BuildingIs DEF IInv, Typed, ConfSet, IsLists
<1>2. ASSUME NEW x \in Places(conf), NEW s \in Range(Node(conf, x).strings)
      PROVE  s \in DOMAIN frees /\ frees[s] = 0
  BY <1>1, NothingFreed DEF IInv, SoundLists, Stages
<1>3. ASSUME NEW x \in Places(Building), NEW s \in Range(Node(Building, x).strings)
      PROVE  s \in DOMAIN frees /\ frees[s] = 0
  <2>1. CASE pc = "reading"
    BY <1>1, <2>1, NothingFreed DEF IInv, SoundLists, Stages
  <2>2. CASE pc # "reading"
    <3>1. Building.cmds = <<>> /\ Building.devs = [d \in {} |-> <<>>]
      BY <2>2, BuildingIs DEF IInv, Stages, NoConf
    <3>2. Places(Building) = {}
      BY <3>1 DEF Places
    <3> QED
      BY <3>2
  <2> QED
    BY <2>1, <2>2
<1> QED
  BY <1>2, <1>3 DEF NothingDangles, Building

\* No list in force or under construction points to a freed string, before, during and after a
\* reload, whether it succeeds or not.
THEOREM NoDanglingStrings == Spec => []NothingDangles
BY OwnershipHolds, IsNothingDangles, PTL

-----------------------------------------------------------------------------
(* What a document says, as it grows by one element after the other.       *)

\* The first element below <commands> is a command.
IsDocument(doc) == doc \in Seq(Element) /\ (doc # <<>> => doc[1].is = "command")

Grows(doc, doc2, e) == IsDocument(doc) /\ e \in Element /\ doc2 = Append(doc, e)

LEMMA DocumentIs ==
  ASSUME NEW doc, IsDocument(doc)
  PROVE  \E n \in Nat : /\ Len(doc) = n /\ DOMAIN doc = 1..n
                        /\ \A i \in 1..n : doc[i] \in Element
                        /\ n = 0 => doc = <<>>
                        /\ n # 0 => doc[1].is = "command" /\ doc # <<>>
<1>1. PICK n \in Nat : n = Len(doc) /\ DOMAIN doc = 1..n /\ \A i \in 1..n : doc[i] \in Element
  BY DEF IsDocument
<1>2. n = 0 <=> doc = <<>>
  BY <1>1, EmptySeq DEF IsDocument
<1> QED
  BY <1>1, <1>2 DEF IsDocument

LEMMA GrownIs ==
  ASSUME NEW doc, NEW doc2, NEW e, Grows(doc, doc2, e)
  PROVE  \E n \in Nat : /\ Len(doc) = n /\ DOMAIN doc = 1..n
                        /\ Len(doc2) = n + 1 /\ DOMAIN doc2 = 1..(n + 1)
                        /\ doc2 \in Seq(Element) /\ doc2[n + 1] = e
                        /\ \A i \in 1..n : doc2[i] = doc[i]
                        /\ n = 0 <=> doc = <<>>
<1>1. PICK n \in Nat : n = Len(doc) /\ DOMAIN doc = 1..n /\ (n = 0 <=> doc = <<>>)
  BY DocumentIs DEF Grows
<1>2. /\ Len(doc2) = n + 1 /\ doc2 \in Seq(Element) /\ doc2[n + 1] = e
      /\ \A i \in 1..n : doc2[i] = doc[i]
  BY <1>1 DEF Grows, IsDocument
<1>3. DOMAIN doc2 = 1..(n + 1)
  BY <1>2
<1> QED
  BY <1>1, <1>2, <1>3

LEMMA CommandOfIs ==
  ASSUME NEW doc, IsDocument(doc), NEW i \in DOMAIN doc
  PROVE  /\ CommandOf(doc, i) \in 1..i /\ CommandOf(doc, i) \in DOMAIN doc
         /\ doc[CommandOf(doc, i)].is = "command"
         /\ \A j \in 1..i : doc[j].is = "command" => j <= CommandOf(doc, i)
<1> DEFINE S == {j \in 1..i : doc[j].is = "command"}
<1>1. PICK n \in Nat : DOMAIN doc = 1..n /\ (n # 0 => doc[1].is = "command")
  BY DocumentIs
<1>2. i \in Nat /\ i >= 1 /\ i <= n
  BY <1>1
<1>3. 1 \in S
  BY <1>1, <1>2
<1>4. S \subseteq 1..i /\ S # {}
  BY <1>3
<1>5. CommandOf(doc, i) = Max(S)
  BY DEF CommandOf
<1> HIDE DEF S
<1>6. CommandOf(doc, i) \in S /\ \A y \in S : y <= CommandOf(doc, i)
  BY <1>2, <1>4, <1>5, MaxOf
<1>7. \A y \in S : y \in 1..n /\ y \in 1..i /\ doc[y].is = "command"
  BY <1>2 DEF S
<1> QED
  BY <1>1, <1>6, <1>7 DEF S

LEMMA CommandOfItself ==
  ASSUME NEW doc, IsDocument(doc), NEW i \in DOMAIN doc, doc[i].is = "command"
  PROVE  CommandOf(doc, i) = i
<1>1. i \in Nat /\ i >= 1
  BY DocumentIs
<1>2. PICK k : k = CommandOf(doc, i)
  OBVIOUS
<1>3. k \in 1..i /\ \A j \in 1..i : doc[j].is = "command" => j <= k
  BY <1>2, CommandOfIs
<1>4. i \in 1..i
  BY <1>1
<1>5. i <= k /\ k <= i /\ k \in Nat
  BY <1>1, <1>3, <1>4
<1> QED
  BY <1>1, <1>2, <1>5

LEMMA CommandOfKept ==
  ASSUME NEW doc, NEW doc2, NEW e, Grows(doc, doc2, e), NEW i \in DOMAIN doc
  PROVE  CommandOf(doc2, i) = CommandOf(doc, i)
<1>1. PICK n \in Nat : DOMAIN doc = 1..n /\ \A j \in 1..n : doc2[j] = doc[j]
  BY GrownIs
<1>2. \A j \in 1..i : doc2[j] = doc[j]
  BY <1>1
<1>3. {j \in 1..i : doc2[j].is = "command"} = {j \in 1..i : doc[j].is = "command"}
  BY <1>2
<1> QED
  BY <1>3 DEF CommandOf

LEMMA GrownIsDocument ==
  ASSUME NEW doc, NEW doc2, NEW e, Grows(doc, doc2, e), doc # <<>> \/ e.is = "command"
  PROVE  IsDocument(doc2)
<1>1. PICK n \in Nat : /\ DOMAIN doc = 1..n /\ doc2 \in Seq(Element) /\ doc2[n + 1] = e
                       /\ \A i \in 1..n : doc2[i] = doc[i]
                       /\ n = 0 <=> doc = <<>>
  BY GrownIs
<1>2. CASE n = 0
  BY <1>1, <1>2 DEF IsDocument
<1>3. CASE n # 0
  <2>1. 1 \in 1..n
    BY <1>3
  <2>2. doc[1].is = "command"
    BY <1>1, <1>3 DEF Grows, IsDocument
  <2> QED
    BY <1>1, <2>1, <2>2 DEF IsDocument
<1> QED
  BY <1>2, <1>3

LEMMA CommandOfNew ==
  ASSUME NEW doc, NEW doc2, NEW e, Grows(doc, doc2, e), doc # <<>>, e.is # "command"
  PROVE  /\ Len(doc) \in DOMAIN doc
         /\ CommandOf(doc2, Len(doc2)) = CommandOf(doc, Len(doc))
<1>1. PICK n \in Nat : /\ Len(doc) = n /\ Len(doc2) = n + 1 /\ DOMAIN doc = 1..n
                       /\ doc2[n + 1] = e /\ \A i \in 1..n : doc2[i] = doc[i]
                       /\ n = 0 <=> doc = <<>>
  BY GrownIs
<1>2. n \in 1..n
  BY <1>1
<1>3. \A j \in 1..(n + 1) : j \in 1..n \/ j = n + 1
  OBVIOUS
<1>4. {j \in 1..(n + 1) : doc2[j].is = "command"} = {j \in 1..n : doc[j].is = "command"}
  BY <1>1, <1>3
<1> QED
  BY <1>1, <1>2, <1>4 DEF CommandOf

\* The elements of a command, up to some place.
LEMMA FieldsKept ==
  ASSUME NEW doc, NEW doc2, NEW e, Grows(doc, doc2, e),
         NEW j \in DOMAIN doc, NEW k \in DOMAIN doc
  PROVE  FieldsUpTo(doc2, j, k) = FieldsUpTo(doc, j, k)
<1>1. PICK n \in Nat : DOMAIN doc = 1..n /\ \A i \in 1..n : doc2[i] = doc[i]
  BY GrownIs
<1>2. \A i \in j..k : i \in DOMAIN doc /\ doc2[i] = doc[i]
  BY <1>1
<1>3. \A i \in j..k : doc2[i] = doc[i] /\ CommandOf(doc2, i) = CommandOf(doc, i)
  BY <1>2, CommandOfKept
<1>4. {i \in j..k : doc2[i].is = "field" /\ CommandOf(doc2, i) = j}
        = {i \in j..k : doc[i].is = "field" /\ CommandOf(doc, i) = j}
  BY <1>3
<1>5. \A i \in {i \in j..k : doc[i].is = "field" /\ CommandOf(doc, i) = j} :
        doc2[i].field = doc[i].field
  BY <1>3
<1> QED
  BY <1>4, <1>5 DEF FieldsUpTo

LEMMA FieldsGrow ==
  ASSUME NEW doc, NEW doc2, NEW e, Grows(doc, doc2, e), NEW j \in DOMAIN doc
  PROVE  /\ e.is = "field" /\ CommandOf(doc, Len(doc)) = j =>
              FieldsUpTo(doc2, j, Len(doc2))
                = FieldsUpTo(doc, j, Len(doc)) \cup ({e.field} \ {"description"})
         /\ ~(e.is = "field" /\ CommandOf(doc, Len(doc)) = j) =>
              FieldsUpTo(doc2, j, Len(doc2)) = FieldsUpTo(doc, j, Len(doc))
<1>1. PICK n \in Nat : /\ Len(doc) = n /\ Len(doc2) = n + 1 /\ DOMAIN doc = 1..n
                       /\ doc2[n + 1] = e /\ (n = 0 <=> doc = <<>>)
  BY GrownIs
<1>2. n \in DOMAIN doc /\ doc # <<>> /\ j \in 1..n
  BY <1>1
<1>3. FieldsUpTo(doc2, j, n) = FieldsUpTo(doc, j, n)
  BY <1>2, FieldsKept
<1>4. e.is = "field" => CommandOf(doc2, n + 1) = CommandOf(doc, n)
  BY <1>1, <1>2, CommandOfNew
<1>5. \A i : i \in j..(n + 1) <=> i \in j..n \/ i = n + 1
  BY <1>2
<1>6. FieldsUpTo(doc2, j, n + 1) = FieldsUpTo(doc2, j, n) \cup
        ({f \in {e.field} : e.is = "field" /\ CommandOf(doc2, n + 1) = j} \ {"description"})
  <2> DEFINE A == {i \in j..(n + 1) : doc2[i].is = "field" /\ CommandOf(doc2, i) = j}
             B == {i \in j..n : doc2[i].is = "field" /\ CommandOf(doc2, i) = j}
  <2>1. \A i : i \in A <=> \/ i \in B
                           \/ i = n + 1 /\ e.is = "field" /\ CommandOf(doc2, n + 1) = j
    BY <1>1, <1>5
  <2>2. FieldsUpTo(doc2, j, n + 1) = {doc2[i].field : i \in A} \ {"description"}
        /\ FieldsUpTo(doc2, j, n) = {doc2[i].field : i \in B} \ {"description"}
    BY DEF FieldsUpTo
  <2> HIDE DEF A, B
  <2> QED
    BY <1>1, <2>1, <2>2
<1>7. ASSUME e.is = "field", CommandOf(doc, n) = j
      PROVE  FieldsUpTo(doc2, j, n + 1)
               = FieldsUpTo(doc, j, n) \cup ({e.field} \ {"description"})
  BY <1>3, <1>4, <1>6, <1>7
<1>8. ASSUME ~(e.is = "field" /\ CommandOf(doc, n) = j)
      PROVE  FieldsUpTo(doc2, j, n + 1) = FieldsUpTo(doc, j, n)
  BY <1>3, <1>4, <1>6, <1>8
<1> QED
  BY <1>1, <1>7, <1>8

LEMMA FieldsOfNew ==
  ASSUME NEW doc, NEW doc2, NEW e, Grows(doc, doc2, e), e.is = "command"
  PROVE  FieldsUpTo(doc2, Len(doc2), Len(doc2)) = {}
<1>1. PICK n \in Nat : n = Len(doc2) /\ doc2[n].is = "command"
  BY GrownIs
<1>2. \A i \in n..n : i = n
  OBVIOUS
<1>3. {i \in n..n : doc2[i].is = "field" /\ CommandOf(doc2, i) = n} = {}
  BY <1>1, <1>2
<1> QED
  BY <1>1, <1>3 DEF FieldsUpTo

-----------------------------------------------------------------------------
(* What a list has of a document, and what is found in it.                 *)

\* The place of the element a node is from, which a copy shares; and its name.
Place(node)  == node.strings["pcmd"].at
NameOf(node) == node.strings["name"].text

\* The nodes of a list are from the elements at these places, one each and in their order.
Covers(list, S) ==
  /\ \A i \in DOMAIN list : Place(list[i]) \in S
  /\ \A s \in S : \E i \in DOMAIN list : Place(list[i]) = s
  /\ \A i, j \in DOMAIN list : i < j => Place(list[i]) < Place(list[j])

CommandsOf(doc)   == {i \in DOMAIN doc : doc[i].is = "command"}
DevicesOf(doc, d) == {i \in DOMAIN doc : doc[i].is = "device" /\ doc[i].dev = d}

\* A node has the name and the texts of its element.
Tells(node, doc, d) ==
  /\ NameOf(node) = doc[CommandOf(doc, Place(node))].name
  /\ Texts(node) = Says(doc, d, Place(node))

Link(doc, cmds, devs) ==
  /\ IsDocument(doc)
  /\ Covers(cmds, CommandsOf(doc))
  /\ \A i \in DOMAIN cmds : \A d \in Device : Tells(cmds[i], doc, d)
  /\ \A d \in DOMAIN devs :
       /\ Covers(devs[d], DevicesOf(doc, d))
       /\ \A i \in DOMAIN devs[d] : Tells(devs[d][i], doc, d)

\* A node at the end, from an element behind the others.
LEMMA CoversMore ==
  ASSUME NEW list \in Seq(NodeSet), NEW S, Covers(list, S), NEW node \in NodeSet,
         \A s \in S : s < Place(node)
  PROVE  Covers(Append(list, node), S \cup {Place(node)})
<1>1. PICK n \in Nat : n = Len(list) /\ DOMAIN list = 1..n
  OBVIOUS
<1>2. PICK l2 : l2 = Append(list, node)
  OBVIOUS
<1>3. DOMAIN l2 = 1..(n + 1) /\ l2[n + 1] = node /\ \A i \in 1..n : l2[i] = list[i]
  BY <1>1, <1>2
<1>4. \A i \in 1..(n + 1) : i \in 1..n \/ i = n + 1
  OBVIOUS
<1>5. /\ \A i \in 1..n : Place(list[i]) \in S
      /\ \A s \in S : \E i \in 1..n : Place(list[i]) = s
      /\ \A i, j \in 1..n : i < j => Place(list[i]) < Place(list[j])
  BY <1>1 DEF Covers
<1>6. \A i \in 1..(n + 1) : Place(l2[i]) \in S \cup {Place(node)}
  BY <1>3, <1>4, <1>5
<1>7. \A s \in S \cup {Place(node)} : \E i \in 1..(n + 1) : Place(l2[i]) = s
  <2>1. n + 1 \in 1..(n + 1) /\ \A i \in 1..n : i \in 1..(n + 1)
    OBVIOUS
  <2> QED
    BY <1>3, <1>5, <2>1
<1>8. ASSUME NEW i \in 1..(n + 1), NEW j \in 1..(n + 1), i < j
      PROVE  Place(l2[i]) < Place(l2[j])
  <2>1. i \in 1..n
    BY <1>8
  <2> QED
    BY <1>3, <1>4, <1>5, <1>8, <2>1
<1> QED
  BY <1>2, <1>3, <1>6, <1>7, <1>8 DEF Covers

LEMMA CoversPlaces ==
  ASSUME NEW list, NEW l2, NEW S, Covers(list, S), DOMAIN l2 = DOMAIN list,
         \A i \in DOMAIN list : Place(l2[i]) = Place(list[i])
  PROVE  Covers(l2, S)
BY DEF Covers

LEMMA PlaceIsNumber ==
  ASSUME NEW node \in NodeSet, "pcmd" \in DOMAIN node.strings
  PROVE  Place(node) \in Nat
<1>1. node.strings["pcmd"] \in StringSet
  BY NodeIs
<1> QED
  BY <1>1 DEF Place, StringSet

\* The last default is the command that the document is at.
LEMMA LastDefault ==
  ASSUME NEW doc, IsDocument(doc), NEW cmds \in Seq(NodeSet), Covers(cmds, CommandsOf(doc)),
         cmds # <<>>
  PROVE  /\ doc # <<>> /\ Len(cmds) \in DOMAIN cmds
         /\ Place(cmds[Len(cmds)]) = CommandOf(doc, Len(doc))
         /\ \A i \in DOMAIN cmds : i # Len(cmds) => Place(cmds[i]) # CommandOf(doc, Len(doc))
<1>1. PICK n \in Nat : /\ Len(doc) = n /\ DOMAIN doc = 1..n /\ (n = 0 => doc = <<>>)
                       /\ n # 0 => doc # <<>>
  BY DocumentIs
<1>2. PICK k \in Nat : k = Len(cmds) /\ DOMAIN cmds = 1..k
  OBVIOUS
<1>3. k # 0
  BY <1>2, EmptySeq
<1>4. PICK p : p = Place(cmds[k])
  OBVIOUS
<1>5. k \in 1..k /\ p \in 1..n /\ doc[p].is = "command"
  BY <1>1, <1>2, <1>3, <1>4 DEF Covers, CommandsOf
<1>6. n \in 1..n
  BY <1>5
<1>7. PICK j : j = CommandOf(doc, n)
  OBVIOUS
<1>8. /\ j \in 1..n /\ doc[j].is = "command"
      /\ \A i \in 1..n : doc[i].is = "command" => i <= j
  BY <1>1, <1>6, <1>7, CommandOfIs
<1>9. PICK i \in 1..k : Place(cmds[i]) = j
  BY <1>1, <1>2, <1>8 DEF Covers, CommandsOf
<1>10. p <= j
  BY <1>5, <1>8
<1>11. i = k
  <2>1. i < k => j < p
    BY <1>2, <1>4, <1>5, <1>9 DEF Covers
  <2>2. ~ (i < k)
    BY <1>5, <1>8, <1>10, <2>1
  <2> QED
    BY <2>2
<1>12. \A x \in 1..k : x # k => Place(cmds[x]) < p
  <2> TAKE x \in 1..k
  <2> HAVE x # k
  <2>1. x < k
    OBVIOUS
  <2> QED
    BY <1>2, <1>4, <1>5, <2>1 DEF Covers
<1>13. p = j
  BY <1>4, <1>9, <1>11
<1>14. \A x \in 1..k : x # k => Place(cmds[x]) # j
  BY <1>5, <1>12, <1>13
<1> QED
  BY <1>1, <1>2, <1>4, <1>5, <1>7, <1>13, <1>14

\* The first node of a name, if there is one, is what getCommandNode() finds.
First(list, n, i) ==
  /\ i \in DOMAIN list /\ NameOf(list[i]) = n
  /\ \A k \in DOMAIN list : NameOf(list[k]) = n => i <= k
None(list, n) == \A k \in DOMAIN list : NameOf(list[k]) # n

LEMMA LookupIs ==
  ASSUME NEW list \in Seq(NodeSet), NEW n
  PROVE  /\ None(list, n) => getCommandNode(list, n) = 0
         /\ \A i : First(list, n, i) => getCommandNode(list, n) = i
         /\ None(list, n) \/ \E i : First(list, n, i)
<1> DEFINE I == {i \in 1..Len(list) : NameOf(list[i]) = n}
<1>1. getCommandNode(list, n) = IF I # {} THEN Min(I) ELSE 0
  BY DEF getCommandNode, SelectInSeq, NameOf
<1>2. DOMAIN list = 1..Len(list) /\ Len(list) \in Nat
  OBVIOUS
<1>3. I \subseteq Nat /\ \A i : i \in I <=> i \in DOMAIN list /\ NameOf(list[i]) = n
  BY <1>2
<1> HIDE DEF I
<1>4. CASE I = {}
  BY <1>1, <1>3, <1>4 DEF None, First
<1>5. CASE I # {}
  <2>1. PICK x \in I : \A y \in I : x <= y
    BY <1>3, <1>5, LeastOf
  <2>2. First(list, n, x) /\ ~None(list, n)
    BY <1>3, <2>1 DEF First, None
  <2>3. \A i : First(list, n, i) => Min(I) = i
    <3> SUFFICES ASSUME NEW i, First(list, n, i) PROVE Min(I) = i
      OBVIOUS
    <3>1. i \in I /\ \A y \in I : i <= y
      BY <1>3 DEF First
    <3>2. \A z \in I : (\A y \in I : z <= y) => z = i
      BY <1>3, <3>1
    <3> QED
      BY <3>1, <3>2 DEF Min
  <2> QED
    BY <1>1, <1>5, <2>2, <2>3
<1> QED
  BY <1>4, <1>5

\* The places among these whose elements belong to a command of that name.
OfName(doc, S, n) == {s \in S : doc[CommandOf(doc, s)].name = n}

\* The first node of a name is from the first element of that name.
LEMMA FirstIsLeast ==
  ASSUME NEW doc, NEW list \in Seq(NodeSet), NEW S, S \subseteq Nat, Covers(list, S), NEW n,
         \A i \in DOMAIN list : NameOf(list[i]) = doc[CommandOf(doc, Place(list[i]))].name
  PROVE  /\ None(list, n) => OfName(doc, S, n) = {}
         /\ \A i \in DOMAIN list : First(list, n, i) =>
                    OfName(doc, S, n) # {} /\ Min(OfName(doc, S, n)) = Place(list[i])
<1> DEFINE T == OfName(doc, S, n)
<1>0. T = {s \in S : doc[CommandOf(doc, s)].name = n}
  BY DEF OfName
<1> HIDE DEF T
<1>1. ASSUME NEW s \in T PROVE \E k \in DOMAIN list : Place(list[k]) = s /\ NameOf(list[k]) = n
  <2>1. PICK k \in DOMAIN list : Place(list[k]) = s
    BY <1>0 DEF Covers
  <2> QED
    BY <1>0, <2>1
<1>2. None(list, n) => T = {}
  BY <1>1 DEF None
<1>3. ASSUME NEW i \in DOMAIN list, First(list, n, i) PROVE T # {} /\ Min(T) = Place(list[i])
  <2>1. PICK m \in Nat : DOMAIN list = 1..m
    OBVIOUS
  <2>2. i \in 1..m /\ NameOf(list[i]) = n /\ \A k \in 1..m : NameOf(list[k]) = n => i <= k
    BY <1>3, <2>1 DEF First
  <2>3. PICK p : p = Place(list[i])
    OBVIOUS
  <2>4. p \in T /\ T \subseteq Nat
    BY <1>0, <2>1, <2>2, <2>3 DEF Covers
  <2>5. ASSUME NEW s \in T PROVE p <= s
    <3>1. PICK k \in 1..m : Place(list[k]) = s /\ NameOf(list[k]) = n
      BY <1>1, <2>1
    <3>2. i = k \/ i < k
      BY <2>2, <3>1
    <3>3. i < k => p < s
      BY <2>1, <2>2, <2>3, <3>1 DEF Covers
    <3>4. i = k => p = s
      BY <2>3, <3>1
    <3>5. p \in Nat /\ s \in Nat
      BY <2>4
    <3> QED
      BY <3>2, <3>3, <3>4, <3>5
  <2>6. \A z \in T : (\A y \in T : z <= y) => z = p
    BY <2>4, <2>5
  <2> QED
    BY <2>3, <2>4, <2>5, <2>6 DEF Min
<1> QED
  BY <1>2, <1>3 DEF T

\* The definition that a document has is the first node's of the device, or else of all.
DefinedBy(l, cmds, doc, d, n) ==
  /\ \A i \in DOMAIN l : First(l, n, i) => Definition(doc, d, n) = Place(l[i])
  /\ \A j \in DOMAIN cmds : None(l, n) /\ First(cmds, n, j) =>
                               Definition(doc, d, n) = Place(cmds[j])
  /\ None(l, n) /\ None(cmds, n) => Definition(doc, d, n) = 0

LEMMA DefinitionIs ==
  ASSUME NEW doc, NEW cmds \in Seq(NodeSet), NEW devs \in DeviceLists, Link(doc, cmds, devs),
         NEW d \in DOMAIN devs, NEW n
  PROVE  DefinedBy(devs[d], cmds, doc, d, n)
<1> DEFINE name(i)  == doc[CommandOf(doc, i)].name
           own      == OfName(doc, DevicesOf(doc, d), n)
           defaults == OfName(doc, CommandsOf(doc), n)
<1>1. Definition(doc, d, n) = CASE own # {}                   -> Min(own)
                                [] own = {} /\ defaults # {} -> Min(defaults)
                                [] OTHER                      -> 0
  <2> DEFINE ofName == {i \in DOMAIN doc : doc[CommandOf(doc, i)].name = n}
  <2>1. own = {i \in ofName : doc[i].is = "device" /\ doc[i].dev = d}
    BY DEF DevicesOf, OfName
  <2>2. defaults = {i \in ofName : doc[i].is = "command"}
    BY DEF CommandsOf, OfName
  <2> HIDE DEF own, defaults
  <2> QED
    BY <2>1, <2>2 DEF Definition
<1>2. d \in Device /\ devs[d] \in Seq(NodeSet)
  BY DevicesAre
<1>3. DevicesOf(doc, d) \subseteq Nat /\ CommandsOf(doc) \subseteq Nat
  <2>1. PICK k \in Nat : DOMAIN doc = 1..k
    BY DocumentIs DEF Link
  <2> QED
    BY <2>1 DEF DevicesOf, CommandsOf
<1>4. /\ None(devs[d], n) => own = {}
      /\ \A i \in DOMAIN devs[d] : First(devs[d], n, i) =>
           own # {} /\ Min(own) = Place(devs[d][i])
  <2>1. \A i \in DOMAIN devs[d] : NameOf(devs[d][i]) = name(Place(devs[d][i]))
    BY DEF Link, Tells
  <2>2. Covers(devs[d], DevicesOf(doc, d))
    BY DEF Link
  <2> QED
    BY <1>2, <1>3, <2>1, <2>2, FirstIsLeast
<1>5. /\ None(cmds, n) => defaults = {}
      /\ \A i \in DOMAIN cmds : First(cmds, n, i) =>
           defaults # {} /\ Min(defaults) = Place(cmds[i])
  <2>1. \A i \in DOMAIN cmds : NameOf(cmds[i]) = name(Place(cmds[i]))
    BY <1>2 DEF Link, Tells
  <2>2. Covers(cmds, CommandsOf(doc))
    BY DEF Link
  <2> QED
    BY <1>3, <2>1, <2>2, FirstIsLeast
<1> HIDE DEF own, defaults
<1> QED
  BY <1>1, <1>4, <1>5 DEF DefinedBy

-----------------------------------------------------------------------------
(* What is found in the merged lists.                                      *)

\* A node at the end of a list changes what is found only if nothing was.
Prolongs(m, l, node, x) ==
  /\ \A i \in DOMAIN l : First(l, x, i) => First(m, x, i) /\ m[i] = l[i]
  /\ None(l, x) /\ NameOf(node) # x => None(m, x)
  /\ None(l, x) /\ NameOf(node) = x => \E i \in DOMAIN m : First(m, x, i) /\ m[i] = node

LEMMA AppendedList ==
  ASSUME NEW l \in Seq(NodeSet), NEW node \in NodeSet, NEW x
  PROVE  Prolongs(Append(l, node), l, node, x)
<1>0. PICK m : m = Append(l, node)
  OBVIOUS
<1>1. PICK n \in Nat : n = Len(l) /\ DOMAIN l = 1..n
  OBVIOUS
<1>2. DOMAIN m = 1..(n + 1) /\ m[n + 1] = node /\ \A i \in 1..n : m[i] = l[i]
  BY <1>0, <1>1
<1>3. \A i \in 1..(n + 1) : i \in 1..n \/ (i = n + 1 /\ i \notin 1..n)
  OBVIOUS
<1>4. \A i \in 1..n : i \in 1..(n + 1) /\ i <= n + 1
  OBVIOUS
<1>5. \A i \in DOMAIN l : First(l, x, i) => First(m, x, i) /\ m[i] = l[i]
  BY <1>1, <1>2, <1>3, <1>4 DEF First
<1>6. None(l, x) /\ NameOf(node) # x => None(m, x)
  BY <1>1, <1>2, <1>3 DEF None
<1>7. None(l, x) /\ NameOf(node) = x => First(m, x, n + 1)
  <2>1. n + 1 \in 1..(n + 1) /\ n + 1 <= n + 1
    OBVIOUS
  <2> QED
    BY <1>1, <1>2, <1>3, <2>1 DEF None, First
<1> QED
  BY <1>0, <1>2, <1>5, <1>6, <1>7 DEF Prolongs

\* The default of a name that a device has no definition for, when the first k are copied.
Copied(m, cmds, x, j, k) ==
  IF k < j THEN None(m, x) ELSE \E i \in DOMAIN m : First(m, x, i) /\ m[i] = CopyOf(cmds[j])

LEMMA OneCopied ==
  ASSUME NEW cmds \in Seq(NodeSet), NEW x, NEW j \in DOMAIN cmds, First(cmds, x, j),
         NEW m, NEW d \in DOMAIN m, m[d] \in Seq(NodeSet),
         NEW k \in DOMAIN cmds, Copied(m[d], cmds, x, j, k - 1)
  PROVE  Copied(CopyDefault(m, cmds[k])[d], cmds, x, j, k)
<1>1. PICK l \in Seq(NodeSet), node \in NodeSet : l = m[d] /\ node = CopyOf(cmds[k])
  BY CopyIsNode
<1>2. PICK l2 : l2 = CopyDefault(m, cmds[k])[d]
  OBVIOUS
<1>3. l2 = IF getCommandNode(l, NameOf(cmds[k])) # 0 THEN l ELSE Append(l, node)
  BY <1>1, <1>2 DEF CopyDefault, CopyOf, NameOf
<1>4. NameOf(node) = NameOf(cmds[k])
  BY <1>1 DEF NameOf, CopyOf
<1>5. PICK n \in Nat : DOMAIN cmds = 1..n
  OBVIOUS
<1>6. k \in Nat /\ j \in Nat /\ NameOf(cmds[j]) = x /\ (NameOf(cmds[k]) = x => j <= k)
  BY <1>5 DEF First
<1>7. PICK l3 : l3 = Append(l, node)
  OBVIOUS
<1>8. Prolongs(l3, l, node, x)
  BY <1>7, AppendedList
<1>9. CASE k < j
  <2>1. None(l, x) /\ NameOf(node) # x
    BY <1>1, <1>4, <1>6, <1>9 DEF Copied
  <2>2. None(l2, x)
    BY <1>3, <1>7, <1>8, <2>1 DEF Prolongs
  <2> QED
    BY <1>2, <1>9, <2>2 DEF Copied
<1>10. CASE k = j
  <2>1. None(l, x) /\ NameOf(node) = x /\ node = CopyOf(cmds[j])
    BY <1>1, <1>4, <1>6, <1>10 DEF Copied
  <2>2. l2 = l3
    <3>1. getCommandNode(l, x) = 0
      BY <2>1, LookupIs
    <3> QED
      BY <1>3, <1>4, <1>7, <2>1, <3>1
  <2>3. \E i \in DOMAIN l2 : First(l2, x, i) /\ l2[i] = CopyOf(cmds[j])
    BY <1>8, <2>1, <2>2 DEF Prolongs
  <2> QED
    BY <1>2, <1>6, <1>10, <2>3 DEF Copied
<1>11. CASE j < k
  <2>1. PICK i \in DOMAIN l : First(l, x, i) /\ l[i] = CopyOf(cmds[j])
    BY <1>1, <1>6, <1>11 DEF Copied
  <2>2. l2 = l \/ l2 = l3
    BY <1>3, <1>7
  <2>3. i \in DOMAIN l2 /\ First(l2, x, i) /\ l2[i] = CopyOf(cmds[j])
    <3>1. First(l2, x, i) /\ l2[i] = CopyOf(cmds[j])
      BY <1>8, <2>1, <2>2 DEF Prolongs
    <3> QED
      BY <3>1 DEF First
  <2> QED
    BY <1>2, <1>6, <1>11, <2>3 DEF Copied
<1> QED
  BY <1>6, <1>9, <1>10, <1>11

\* Every step of the loop leaves the lists with copies of defaults at their ends.
LEMMA LoopCopies ==
  ASSUME NEW devs \in DeviceLists, NEW cmds \in Seq(NodeSet), NEW n \in Nat,
         n = Len(cmds), NEW m, Loop(m, devs, cmds, n), NEW d \in DOMAIN devs, NEW x,
         None(devs[d], x), NEW j \in DOMAIN cmds, First(cmds, x, j), NEW k \in 0..n
  PROVE  Copied(m[k][d], cmds, x, j, k)
<1> DEFINE T == {h \in 0..n : ~Copied(m[h][d], cmds, x, j, h)}
<1> SUFFICES ASSUME T # {} PROVE FALSE
  OBVIOUS
<1>0. T \subseteq Nat
  OBVIOUS
<1> HIDE DEF T
<1>1. PICK h \in T : \A i \in T : h <= i
  BY <1>0, LeastOf
<1>2. h \in 0..n /\ ~Copied(m[h][d], cmds, x, j, h)
  BY <1>1 DEF T
<1>3. DOMAIN cmds = 1..n /\ j \in 1..n
  OBVIOUS
<1>4. h # 0
  <2>1. m[0] = devs
    BY DEF Loop
  <2> QED
    BY <1>2, <1>3, <2>1 DEF Copied
<1>5. h - 1 \in 0..n /\ h - 1 \notin T /\ h \in 1..n
  BY <1>1, <1>2, <1>4
<1>6. PICK a : a = m[h - 1]
  OBVIOUS
<1>7. Copied(a[d], cmds, x, j, h - 1)
  BY <1>5, <1>6 DEF T
<1>8. d \in DOMAIN a /\ a[d] \in Seq(NodeSet)
  <2>1. IsMerged(a, devs, cmds)
    BY <1>5, <1>6, LoopMerged
  <2> QED
    BY <2>1 DEF IsMerged, IsMergedList
<1>9. m[h] = CopyDefault(a, cmds[h])
  BY <1>5, <1>6 DEF Loop
<1>10. Copied(CopyDefault(a, cmds[h])[d], cmds, x, j, h)
  BY <1>3, <1>5, <1>7, <1>8, OneCopied
<1> QED
  BY <1>2, <1>9, <1>10

\* In a merged list, a definition of the device's own is found, or else the default.
Finds(m, l, cmds, x) ==
  /\ \A i \in DOMAIN l : First(l, x, i) => First(m, x, i) /\ m[i] = l[i]
  /\ \A j \in DOMAIN cmds : None(l, x) /\ First(cmds, x, j) =>
       \E i \in DOMAIN m : First(m, x, i) /\ m[i] = CopyOf(cmds[j])
  /\ None(l, x) /\ None(cmds, x) => None(m, x)

LEMMA MergedFinds ==
  ASSUME Typed, NEW d \in DOMAIN tdevs, NEW x
  PROVE  Finds(Merged[d], tdevs[d], tcmds, x)
<1>1. PICK devs \in DeviceLists, cmds \in Seq(NodeSet) : devs = tdevs /\ cmds = tcmds
  BY DEF Typed
<1>2. PICK n \in Nat : n = Len(cmds) /\ DOMAIN cmds = 1..n
  OBVIOUS
<1>3. PICK m : Loop(m, devs, cmds, n)
  BY <1>2, MergeSteps
<1>4. PICK l \in Seq(NodeSet), k \in Seq(NodeSet) :
        l = devs[d] /\ k = m[n][d] /\ IsMergedList(k, l, cmds)
  <2>1. IsMerged(m[n], devs, cmds)
    BY <1>2, <1>3, LoopMerged
  <2>2. IsMergedList(m[n][d], devs[d], cmds)
    BY <1>1, <2>1 DEF IsMerged
  <2>3. devs[d] \in Seq(NodeSet) /\ m[n][d] \in Seq(NodeSet)
    BY <1>1, <2>2, DevicesAre DEF IsMergedList
  <2> QED
    BY <2>2, <2>3
<1>5. Merged[d] = k
  BY <1>1, <1>3, <1>4 DEF Merged, Loop
<1>6. PICK a \in Nat, b \in Nat : /\ a = Len(l) /\ DOMAIN l = 1..a
                                 /\ b = Len(k) /\ DOMAIN k = 1..b
  OBVIOUS
<1>7. /\ a <= b /\ \A i \in 1..a : k[i] = l[i]
      /\ \A i \in 1..b : i > a => \E j \in 1..n : k[i] = CopyOf(cmds[j])
  BY <1>2, <1>4, <1>6 DEF IsMergedList
<1>8. ASSUME NEW i \in DOMAIN l, First(l, x, i) PROVE First(k, x, i) /\ k[i] = l[i]
  <2>1. i \in 1..a /\ NameOf(l[i]) = x /\ \A h \in 1..a : NameOf(l[h]) = x => i <= h
    BY <1>6, <1>8 DEF First
  <2>2. i \in 1..b /\ k[i] = l[i]
    BY <1>7, <2>1
  <2>3. \A h \in 1..b : NameOf(k[h]) = x => i <= h
    <3> TAKE h \in 1..b
    <3>1. CASE h \in 1..a
      BY <1>7, <2>1, <3>1
    <3>2. CASE h \notin 1..a
      BY <2>1, <3>2
    <3> QED
      BY <3>1, <3>2
  <2> QED
    BY <1>6, <2>1, <2>2, <2>3 DEF First
<1>9. ASSUME NEW j \in DOMAIN cmds, None(l, x), First(cmds, x, j)
      PROVE  \E i \in DOMAIN k : First(k, x, i) /\ k[i] = CopyOf(cmds[j])
  <2>1. Copied(m[n][d], cmds, x, j, n)
    <3>1. n \in 0..n
      OBVIOUS
    <3> QED
      BY <1>1, <1>2, <1>3, <1>4, <1>9, <3>1, LoopCopies
  <2>2. PICK i : First(k, x, i) /\ k[i] = CopyOf(cmds[j])
    <3>1. ~(n < j)
      BY <1>2
    <3> QED
      BY <1>4, <2>1, <3>1 DEF Copied
  <2>3. i \in DOMAIN k
    BY <2>2 DEF First
  <2> QED
    BY <2>2, <2>3
<1>10. ASSUME None(l, x), None(cmds, x) PROVE None(k, x)
  <2> SUFFICES ASSUME NEW i \in 1..b PROVE NameOf(k[i]) # x
    BY <1>6 DEF None
  <2>1. CASE i \in 1..a
    BY <1>6, <1>7, <1>10, <2>1 DEF None
  <2>2. CASE i \notin 1..a
    <3>1. PICK j \in 1..n : k[i] = CopyOf(cmds[j])
      BY <1>7, <2>2
    <3>2. NameOf(k[i]) = NameOf(cmds[j])
      BY <3>1 DEF NameOf, CopyOf
    <3> QED
      BY <1>2, <1>10, <3>2 DEF None
  <2> QED
    BY <2>1, <2>2
<1>11. Finds(k, l, cmds, x)
  BY <1>8, <1>9, <1>10 DEF Finds
<1> QED
  BY <1>1, <1>4, <1>5, <1>11

\* Looking a name up in a list finds what the document says of it on that device.
LooksUp(list, doc, d, n) ==
  LET i == getCommandNode(list, n)
      j == Definition(doc, d, n)
  IN (i = 0 <=> j = 0) /\ (i # 0 => Texts(list[i]) = Says(doc, d, j))

LEMMA MergedLooksUp ==
  ASSUME Typed, Link(read, tcmds, tdevs), NEW d \in DOMAIN tdevs, NEW n
  PROVE  LooksUp(Merged[d], read, d, n)
<1>1. PICK doc : doc = read
  OBVIOUS
<1>2. PICK cmds \in Seq(NodeSet), devs \in DeviceLists : cmds = tcmds /\ devs = tdevs
  BY DEF Typed
<1>3. PICK l \in Seq(NodeSet), m \in Seq(NodeSet) : l = devs[d] /\ m = Merged[d]
  BY <1>2, MergedIs, DevicesAre DEF IsMerged, IsMergedList
<1>4. Finds(m, l, cmds, n)
  BY <1>2, <1>3, MergedFinds
<1>5. DefinedBy(l, cmds, doc, d, n)
  BY <1>1, <1>2, <1>3, DefinitionIs
<1>6. PICK k \in Nat : DOMAIN doc = 1..k
  BY <1>1, DocumentIs DEF Link
<1>7. /\ \A i \in DOMAIN l : Place(l[i]) \in 1..k /\ Texts(l[i]) = Says(doc, d, Place(l[i]))
      /\ \A j \in DOMAIN cmds : Place(cmds[j]) \in 1..k
                                /\ Texts(cmds[j]) = Says(doc, d, Place(cmds[j]))
  <2>1. d \in Device
    BY <1>2, DevicesAre
  <2> QED
    BY <1>1, <1>2, <1>3, <1>6, <2>1 DEF Link, Covers, Tells, CommandsOf, DevicesOf
<1>8. CASE \E i \in DOMAIN l : First(l, n, i)
  <2>1. PICK i \in DOMAIN l : First(l, n, i)
    BY <1>8
  <2>2. First(m, n, i) /\ m[i] = l[i]
    BY <1>4, <2>1 DEF Finds
  <2>3. getCommandNode(m, n) = i /\ i # 0
    BY <2>2, LookupIs DEF First
  <2>4. Definition(doc, d, n) = Place(l[i]) /\ Place(l[i]) # 0
    BY <1>5, <1>7, <2>1 DEF DefinedBy
  <2> QED
    BY <1>1, <1>3, <1>7, <2>2, <2>3, <2>4 DEF LooksUp
<1>9. CASE None(l, n) /\ \E j \in DOMAIN cmds : First(cmds, n, j)
  <2>1. PICK j \in DOMAIN cmds : First(cmds, n, j)
    BY <1>9
  <2>2. PICK i \in DOMAIN m : First(m, n, i) /\ m[i] = CopyOf(cmds[j])
    BY <1>4, <1>9, <2>1 DEF Finds
  <2>3. getCommandNode(m, n) = i /\ i # 0
    BY <2>2, LookupIs
  <2>4. Definition(doc, d, n) = Place(cmds[j]) /\ Place(cmds[j]) # 0
    BY <1>5, <1>7, <1>9, <2>1 DEF DefinedBy
  <2>5. Texts(m[i]) = Texts(cmds[j])
    BY <2>2 DEF Texts, CopyOf
  <2> QED
    BY <1>1, <1>3, <1>7, <2>3, <2>4, <2>5 DEF LooksUp
<1>10. CASE None(l, n) /\ None(cmds, n)
  <2>1. None(m, n)
    BY <1>4, <1>10 DEF Finds
  <2>2. getCommandNode(m, n) = 0 /\ Definition(doc, d, n) = 0
    BY <1>5, <1>10, <2>1, LookupIs DEF DefinedBy
  <2> QED
    BY <1>1, <1>3, <2>2 DEF LooksUp
<1>11. /\ None(l, n) \/ \E i \in DOMAIN l : First(l, n, i)
       /\ None(cmds, n) \/ \E j \in DOMAIN cmds : First(cmds, n, j)
  BY LookupIs DEF First
<1> QED
  BY <1>8, <1>9, <1>10, <1>11

-----------------------------------------------------------------------------
(* Lists and document as an element is read.                               *)

LEMMA SaysKept ==
  ASSUME NEW doc, NEW doc2, NEW e, Grows(doc, doc2, e), NEW d, NEW i \in DOMAIN doc,
         doc[i].is \in {"command", "device"},
         doc[i].is = "command" /\ e.is = "field" => i # CommandOf(doc, Len(doc))
  PROVE  Says(doc2, d, i) = Says(doc, d, i)
<1>1. doc2[i] = doc[i] /\ IsDocument(doc)
  <2>1. PICK n \in Nat : DOMAIN doc = 1..n /\ \A j \in 1..n : doc2[j] = doc[j]
    BY GrownIs
  <2> QED
    BY <2>1 DEF Grows
<1>2. PICK j : j = CommandOf(doc, i)
  OBVIOUS
<1>3. CommandOf(doc2, i) = j /\ j \in DOMAIN doc /\ doc2[j] = doc[j]
  <2>1. PICK n \in Nat : DOMAIN doc = 1..n /\ \A k \in 1..n : doc2[k] = doc[k]
    BY GrownIs
  <2> QED
    BY <1>1, <1>2, <2>1, CommandOfKept, CommandOfIs
<1>4. CASE doc[i].is = "command"
  <2>1. j = i
    BY <1>1, <1>2, <1>4, CommandOfItself
  <2>2. ~(e.is = "field" /\ CommandOf(doc, Len(doc)) = j)
    BY <1>4, <2>1
  <2>3. FieldsUpTo(doc2, j, Len(doc2)) = FieldsUpTo(doc, j, Len(doc))
    BY <1>3, <2>2, FieldsGrow
  <2> QED
    BY <1>1, <1>2, <1>3, <1>4, <2>3 DEF Says
<1>5. CASE doc[i].is # "command"
  <2>1. FieldsUpTo(doc2, j, i) = FieldsUpTo(doc, j, i)
    BY <1>3, FieldsKept
  <2> QED
    BY <1>1, <1>2, <1>3, <1>5, <2>1 DEF Says
<1> QED
  BY <1>4, <1>5

LEMMA TellsKept ==
  ASSUME NEW doc, NEW doc2, NEW e, Grows(doc, doc2, e), NEW d, NEW node, Tells(node, doc, d),
         Place(node) \in DOMAIN doc, doc[Place(node)].is \in {"command", "device"},
         doc[Place(node)].is = "command" /\ e.is = "field" =>
           Place(node) # CommandOf(doc, Len(doc))
  PROVE  Tells(node, doc2, d)
<1>1. PICK i \in DOMAIN doc : i = Place(node)
  OBVIOUS
<1>2. PICK n \in Nat : DOMAIN doc = 1..n /\ \A k \in 1..n : doc2[k] = doc[k]
  BY GrownIs
<1>3. CommandOf(doc2, i) = CommandOf(doc, i) /\ CommandOf(doc, i) \in 1..n
  <2>1. CommandOf(doc2, i) = CommandOf(doc, i)
    BY CommandOfKept
  <2>2. CommandOf(doc, i) \in DOMAIN doc
    BY CommandOfIs DEF Grows
  <2> QED
    BY <1>2, <2>1, <2>2
<1>4. Says(doc2, d, i) = Says(doc, d, i)
  BY <1>1, SaysKept
<1> QED
  BY <1>1, <1>2, <1>3, <1>4 DEF Tells

\* The places of commands and of the elements of a device.
LEMMA PlacesGrow ==
  ASSUME NEW doc, NEW doc2, NEW e, Grows(doc, doc2, e)
  PROVE  /\ e.is = "command"  => CommandsOf(doc2) = CommandsOf(doc) \cup {Len(doc2)}
         /\ e.is # "command"  => CommandsOf(doc2) = CommandsOf(doc)
         /\ \A i \in CommandsOf(doc) : i < Len(doc2)
<1>1. PICK n \in Nat : /\ DOMAIN doc = 1..n /\ Len(doc2) = n + 1 /\ DOMAIN doc2 = 1..(n + 1)
                       /\ doc2[n + 1] = e /\ \A k \in 1..n : doc2[k] = doc[k]
  BY GrownIs
<1>2. \A i : i \in 1..(n + 1) <=> i \in 1..n \/ i = n + 1
  OBVIOUS
<1>3. \A i \in 1..n : i < n + 1
  OBVIOUS
<1>4. \A i : i \in CommandsOf(doc2) <=>
               i \in CommandsOf(doc) \/ (i = n + 1 /\ e.is = "command")
  BY <1>1, <1>2, <1>3 DEF CommandsOf
<1>5. \A i \in CommandsOf(doc) : i < n + 1
  BY <1>1, <1>3 DEF CommandsOf
<1> QED
  BY <1>1, <1>4, <1>5

LEMMA DevicePlacesGrow ==
  ASSUME NEW doc, NEW doc2, NEW e, Grows(doc, doc2, e), NEW d
  PROVE  /\ e.is = "device" /\ e.dev = d =>
              DevicesOf(doc2, d) = DevicesOf(doc, d) \cup {Len(doc2)}
         /\ ~(e.is = "device" /\ e.dev = d) => DevicesOf(doc2, d) = DevicesOf(doc, d)
         /\ \A i \in DevicesOf(doc, d) : i < Len(doc2)
<1>1. PICK n \in Nat : /\ DOMAIN doc = 1..n /\ Len(doc2) = n + 1 /\ DOMAIN doc2 = 1..(n + 1)
                       /\ doc2[n + 1] = e /\ \A k \in 1..n : doc2[k] = doc[k]
  BY GrownIs
<1>2. \A i : i \in 1..(n + 1) <=> i \in 1..n \/ i = n + 1
  OBVIOUS
<1>3. \A i \in 1..n : i < n + 1
  OBVIOUS
<1>4. \A i : i \in DevicesOf(doc2, d) <=>
               i \in DevicesOf(doc, d) \/ (i = n + 1 /\ e.is = "device" /\ e.dev = d)
  BY <1>1, <1>2, <1>3 DEF DevicesOf
<1>5. \A i \in DevicesOf(doc, d) : i < n + 1
  BY <1>1, <1>3 DEF DevicesOf
<1> QED
  BY <1>1, <1>4, <1>5

\* What the nodes of an element's list and of the other lists tell stays true.
LEMMA OthersTell ==
  ASSUME NEW doc, NEW doc2, NEW e, Grows(doc, doc2, e), NEW cmds, NEW devs,
         Link(doc, cmds, devs)
  PROVE  /\ \A d \in DOMAIN devs : \A i \in DOMAIN devs[d] : Tells(devs[d][i], doc2, d)
         /\ \A i \in DOMAIN cmds :
              (e.is = "field" => Place(cmds[i]) # CommandOf(doc, Len(doc))) =>
                \A d \in Device : Tells(cmds[i], doc2, d)
<1>1. ASSUME NEW d \in DOMAIN devs, NEW i \in DOMAIN devs[d] PROVE Tells(devs[d][i], doc2, d)
  <2>1. Place(devs[d][i]) \in DOMAIN doc /\ doc[Place(devs[d][i])].is = "device"
    BY DEF Link, Covers, DevicesOf
  <2>2. Tells(devs[d][i], doc, d)
    BY DEF Link
  <2> QED
    BY <2>1, <2>2, TellsKept
<1>2. ASSUME NEW i \in DOMAIN cmds, NEW d \in Device,
             e.is = "field" => Place(cmds[i]) # CommandOf(doc, Len(doc))
      PROVE  Tells(cmds[i], doc2, d)
  <2>1. Place(cmds[i]) \in DOMAIN doc /\ doc[Place(cmds[i])].is = "command"
    BY DEF Link, Covers, CommandsOf
  <2>2. Tells(cmds[i], doc, d)
    BY DEF Link
  <2> QED
    BY <1>2, <2>1, <2>2, TellsKept
<1> QED
  BY <1>1, <1>2

LEMMA LinkWithCommand ==
  ASSUME NEW doc, NEW doc2, NEW e, Grows(doc, doc2, e), NEW cmds \in Seq(NodeSet), NEW devs,
         Link(doc, cmds, devs), e.is = "command", NEW node \in NodeSet,
         Place(node) = Len(doc2), NameOf(node) = e.name,
         Texts(node) = [f \in {"pcmd"} |-> e.pcmd]
  PROVE  Link(doc2, Append(cmds, node), devs)
<1>1. IsDocument(doc2)
  BY GrownIsDocument
<1>2. PICK m \in Nat : m = Len(doc2) /\ m \in DOMAIN doc2 /\ doc2[m] = e
  BY GrownIs
<1>3. CommandsOf(doc2) = CommandsOf(doc) \cup {m} /\ \A i \in CommandsOf(doc) : i < m
  BY <1>2, PlacesGrow
<1>4. \A d : DevicesOf(doc2, d) = DevicesOf(doc, d)
  BY DevicePlacesGrow
<1>5. Covers(Append(cmds, node), CommandsOf(doc2))
  BY <1>2, <1>3, CoversMore DEF Link
<1>6. ASSUME NEW d PROVE Tells(node, doc2, d)
  <2>1. CommandOf(doc2, m) = m
    BY <1>1, <1>2, CommandOfItself
  <2>2. FieldsUpTo(doc2, m, m) = {}
    BY <1>2, FieldsOfNew
  <2>3. Says(doc2, d, m) = [f \in {"pcmd"} |-> IF f = "pcmd" THEN e.pcmd ELSE "default"]
    BY <1>2, <2>1, <2>2 DEF Says
  <2> QED
    BY <1>2, <2>1, <2>3 DEF Tells
<1>7. PICK l : l = Append(cmds, node)
  OBVIOUS
<1>8. \A i \in DOMAIN l : (i \in DOMAIN cmds /\ l[i] = cmds[i]) \/ l[i] = node
  BY <1>7
<1>9. \A i \in DOMAIN l : \A d \in Device : Tells(l[i], doc2, d)
  BY <1>6, <1>8, OthersTell
<1>10. \A d \in DOMAIN devs : /\ Covers(devs[d], DevicesOf(doc2, d))
                              /\ \A i \in DOMAIN devs[d] : Tells(devs[d][i], doc2, d)
  BY <1>4, OthersTell DEF Link
<1> QED
  BY <1>1, <1>5, <1>7, <1>9, <1>10 DEF Link

\* What a <device> says, with the texts of its command.
TextsFrom(texts, d, fields, protocmd) ==
  [f \in {"pcmd"} \cup fields \cup ({"unit"} \cap DOMAIN texts) |->
     CASE f = "pcmd" /\ protocmd = {} -> texts["pcmd"]
       [] f = "pcmd" /\ protocmd # {} -> CHOOSE p \in protocmd : TRUE
       [] f \in fields                -> d
       [] OTHER                       -> "default"]

WithDefault(cmds, k, node) == [cmds EXCEPT ![k] = node]

LEMMA LinkWithField ==
  ASSUME NEW doc, NEW doc2, NEW e, Grows(doc, doc2, e), NEW cmds \in Seq(NodeSet), NEW devs,
         Link(doc, cmds, devs), e.is = "field", e.field # "pcmd", cmds # <<>>,
         NEW k, k = Len(cmds), NEW node,
         Place(node) = Place(cmds[k]), NameOf(node) = NameOf(cmds[k]),
         Texts(node) = IF e.field = "description" THEN Texts(cmds[k])
                       ELSE Put(Texts(cmds[k]), e.field, "default")
  PROVE  Link(doc2, WithDefault(cmds, k, node), devs)
<1>1. /\ doc # <<>> /\ k \in DOMAIN cmds /\ Place(cmds[k]) = CommandOf(doc, Len(doc))
      /\ \A i \in DOMAIN cmds : i # k => Place(cmds[i]) # CommandOf(doc, Len(doc))
  BY LastDefault DEF Link
<1>2. IsDocument(doc2)
  BY <1>1, GrownIsDocument
<1>3. CommandsOf(doc2) = CommandsOf(doc) /\ \A d : DevicesOf(doc2, d) = DevicesOf(doc, d)
  BY PlacesGrow, DevicePlacesGrow
<1>4. PICK l : l = WithDefault(cmds, k, node)
  OBVIOUS
<1>5. /\ DOMAIN l = DOMAIN cmds /\ l[k] = node
      /\ \A i \in DOMAIN cmds : i # k => l[i] = cmds[i]
  BY <1>1, <1>4 DEF WithDefault
<1>6. Covers(l, CommandsOf(doc2))
  <2>1. \A i \in DOMAIN cmds : Place(l[i]) = Place(cmds[i])
    BY <1>5
  <2> QED
    BY <1>3, <1>5, <2>1, CoversPlaces DEF Link
<1>7. ASSUME NEW d \in Device PROVE Tells(node, doc2, d)
  <2>1. PICK j : j = Place(node) /\ j = CommandOf(doc, Len(doc))
    BY <1>1
  <2>2. j \in DOMAIN doc /\ doc[j].is = "command"
    BY <1>1, <2>1 DEF Link, Covers, CommandsOf
  <2>3. PICK n \in Nat : DOMAIN doc = 1..n /\ \A i \in 1..n : doc2[i] = doc[i]
    BY GrownIs
  <2>4. doc2[j] = doc[j] /\ CommandOf(doc, j) = j /\ CommandOf(doc2, j) = j
    <3>1. doc2[j] = doc[j]
      BY ONLY <2>2, <2>3
    <3>2. CommandOf(doc, j) = j
      BY <2>2, CommandOfItself DEF Grows
    <3>3. CommandOf(doc2, j) = CommandOf(doc, j)
      BY <2>2, CommandOfKept
    <3> QED
      BY <3>1, <3>2, <3>3
  <2>5. FieldsUpTo(doc2, j, Len(doc2))
          = FieldsUpTo(doc, j, Len(doc)) \cup ({e.field} \ {"description"})
    BY <2>1, <2>2, FieldsGrow
  <2>6. Tells(cmds[k], doc, d)
    BY <1>1 DEF Link
  <2>7. NameOf(node) = doc2[CommandOf(doc2, j)].name
    BY <2>1, <2>4, <2>6 DEF Tells
  <2>8. PICK F : F = FieldsUpTo(doc, j, Len(doc))
    OBVIOUS
  <2>9. Texts(cmds[k]) = [f \in {"pcmd"} \cup F |->
                            IF f = "pcmd" THEN doc[j].pcmd ELSE "default"]
    <3>1. Texts(cmds[k]) = Says(doc, d, j)
      BY <2>1, <2>6 DEF Tells
    <3>2. Says(doc, d, j) = [f \in {"pcmd"} \cup F |->
                               IF f = "pcmd" THEN doc[j].pcmd ELSE "default"]
      BY ONLY <2>2, <2>4, <2>8 DEF Says
    <3> QED
      BY <3>1, <3>2
  <2>10. Says(doc2, d, j) = [f \in {"pcmd"} \cup (F \cup ({e.field} \ {"description"})) |->
                               IF f = "pcmd" THEN doc[j].pcmd ELSE "default"]
    BY <2>2, <2>4, <2>5, <2>8 DEF Says
  <2>11. Texts(node) = Says(doc2, d, j)
    <3>1. CASE e.field = "description"
      BY <2>9, <2>10, <3>1
    <3>2. CASE e.field # "description"
      BY <2>9, <2>10, <3>2 DEF Put
    <3> QED
      BY <3>1, <3>2
  <2> QED
    BY <2>1, <2>7, <2>11 DEF Tells
<1>8. \A i \in DOMAIN l : \A d \in Device : Tells(l[i], doc2, d)
  BY <1>1, <1>5, <1>7, OthersTell
<1>9. \A d \in DOMAIN devs : /\ Covers(devs[d], DevicesOf(doc2, d))
                             /\ \A i \in DOMAIN devs[d] : Tells(devs[d][i], doc2, d)
  BY <1>3, OthersTell DEF Link
<1> QED
  BY <1>2, <1>4, <1>6, <1>8, <1>9 DEF Link

LEMMA LinkWithDevice ==
  ASSUME NEW doc, NEW doc2, NEW e, Grows(doc, doc2, e), NEW cmds \in Seq(NodeSet),
         NEW devs \in DeviceLists, Link(doc, cmds, devs), e.is = "device", cmds # <<>>,
         e.dev \in DOMAIN devs, NEW k, k = Len(cmds), NEW node \in NodeSet,
         Place(node) = Len(doc2), NameOf(node) = NameOf(cmds[k]),
         Texts(node) = TextsFrom(Texts(cmds[k]), e.dev, e.fields, e.protocmd)
  PROVE  Link(doc2, cmds, WithNode(devs, e.dev, node))
<1>1. /\ doc # <<>> /\ k \in DOMAIN cmds /\ Place(cmds[k]) = CommandOf(doc, Len(doc))
  BY LastDefault DEF Link
<1>2. IsDocument(doc2)
  BY <1>1, GrownIsDocument
<1>3. PICK n \in Nat : /\ Len(doc) = n /\ DOMAIN doc = 1..n
                       /\ Len(doc2) = n + 1 /\ doc2[n + 1] = e
                       /\ \A i \in 1..n : doc2[i] = doc[i]
  <2>1. Grows(doc, doc2, e)
    OBVIOUS
  <2> QED
    BY ONLY <2>1, GrownIs
<1>4. PICK d \in Device : d = e.dev /\ devs[d] \in Seq(NodeSet)
  BY DevicesAre
<1>5. /\ CommandsOf(doc2) = CommandsOf(doc)
      /\ DevicesOf(doc2, d) = DevicesOf(doc, d) \cup {n + 1}
      /\ \A x : x # d => DevicesOf(doc2, x) = DevicesOf(doc, x)
      /\ \A i \in DevicesOf(doc, d) : i < n + 1
  <2>1. CommandsOf(doc2) = CommandsOf(doc)
    BY PlacesGrow
  <2>2. /\ DevicesOf(doc2, d) = DevicesOf(doc, d) \cup {n + 1}
        /\ \A i \in DevicesOf(doc, d) : i < n + 1
    <3>1. /\ DevicesOf(doc2, d) = DevicesOf(doc, d) \cup {Len(doc2)}
          /\ \A i \in DevicesOf(doc, d) : i < Len(doc2)
      BY <1>4, DevicePlacesGrow
    <3> QED
      BY <1>3, <3>1
  <2>3. ASSUME NEW x, x # d PROVE DevicesOf(doc2, x) = DevicesOf(doc, x)
    BY <1>4, <2>3, DevicePlacesGrow
  <2> QED
    BY <2>1, <2>2, <2>3
<1>6. Tells(node, doc2, d)
  <2>1. PICK j : j = CommandOf(doc, n)
    OBVIOUS
  <2>2. CommandOf(doc2, n + 1) = j /\ Place(cmds[k]) = j
    BY <1>1, <1>3, <2>1, CommandOfNew
  <2>3. j \in DOMAIN doc /\ doc[j].is = "command"
    BY <1>1, <2>2 DEF Link, Covers, CommandsOf
  <2>4. doc2[j] = doc[j] /\ CommandOf(doc, j) = j
    BY <1>3, <2>3, CommandOfItself DEF Grows
  <2>5. FieldsUpTo(doc2, j, n + 1) = FieldsUpTo(doc, j, n)
    BY <1>3, <2>3, FieldsGrow
  <2>6. Tells(cmds[k], doc, d)
    BY <1>1 DEF Link
  <2>7. PICK F, T : F = FieldsUpTo(doc, j, n) /\ T = Texts(cmds[k])
    OBVIOUS
  <2>8. T = [f \in {"pcmd"} \cup F |-> IF f = "pcmd" THEN doc[j].pcmd ELSE "default"]
    BY <1>3, <2>2, <2>3, <2>4, <2>6, <2>7 DEF Tells, Says
  <2>9. {"unit"} \cap DOMAIN T = {"unit"} \cap F /\ T["pcmd"] = doc[j].pcmd
    BY <2>8
  <2>10. Says(doc2, d, n + 1) = TextsFrom(T, d, e.fields, e.protocmd)
    <3>1. {"unit"} \cap FieldsUpTo(doc2, j, n + 1) = {"unit"} \cap DOMAIN T
          /\ doc2[j].pcmd = T["pcmd"]
      BY <2>4, <2>5, <2>7, <2>9
    <3>2. PICK G, t : G = {"unit"} \cap DOMAIN T /\ t = T["pcmd"]
      OBVIOUS
    <3>3. doc2[n + 1] = e /\ doc2[n + 1].is # "command" /\ CommandOf(doc2, n + 1) = j
      BY <1>3, <2>2
    <3>4. Says(doc2, d, n + 1) = TextsFrom(T, d, doc2[n + 1].fields, doc2[n + 1].protocmd)
      BY <3>1, <3>2, <3>3 DEF Says, TextsFrom
    <3> QED
      BY <3>3, <3>4
  <2>11. NameOf(node) = doc2[CommandOf(doc2, n + 1)].name
    BY <2>2, <2>4, <2>6 DEF Tells
  <2> QED
    BY <1>3, <1>4, <2>7, <2>10, <2>11 DEF Tells
<1>7. PICK l2 : l2 = WithNode(devs, d, node)
  OBVIOUS
<1>8. PICK l \in Seq(NodeSet) : l = devs[d]
  BY <1>4
<1>9. /\ DOMAIN l2 = DOMAIN devs /\ l2[d] = Append(l, node)
      /\ \A x \in DOMAIN devs : x # d => l2[x] = devs[x]
  BY <1>4, <1>7, <1>8 DEF WithNode
<1>10. Covers(l2[d], DevicesOf(doc2, d))
  <2>1. Covers(l, DevicesOf(doc, d))
    BY <1>4, <1>8 DEF Link
  <2> QED
    BY <1>3, <1>5, <1>9, <2>1, CoversMore
<1>11. \A i \in DOMAIN l2[d] : Tells(l2[d][i], doc2, d)
  <2>1. PICK m : m = Append(l, node)
    OBVIOUS
  <2>2. \A i \in DOMAIN m : (i \in DOMAIN l /\ m[i] = l[i]) \/ m[i] = node
    BY <2>1
  <2>3. \A i \in DOMAIN l : Tells(l[i], doc2, d)
    BY <1>4, <1>8, OthersTell
  <2> QED
    BY <1>6, <1>9, <2>1, <2>2, <2>3
<1>12. \A x \in DOMAIN l2 : /\ Covers(l2[x], DevicesOf(doc2, x))
                            /\ \A i \in DOMAIN l2[x] : Tells(l2[x][i], doc2, x)
  <2> TAKE x \in DOMAIN l2
  <2>1. CASE x = d
    BY <1>10, <1>11, <2>1
  <2>2. CASE x # d
    BY <1>5, <1>9, <2>2, OthersTell DEF Link
  <2> QED
    BY <2>1, <2>2
<1>13. \A i \in DOMAIN cmds : \A x \in Device : Tells(cmds[i], doc2, x)
  BY OthersTell
<1>14. Covers(cmds, CommandsOf(doc2))
  BY <1>5 DEF Link
<1> QED
  BY <1>2, <1>4, <1>7, <1>12, <1>13, <1>14 DEF Link

LEMMA LastAppended ==
  ASSUME NEW l \in Seq(NodeSet), NEW node, Append(l, node) \in Seq(NodeSet)
  PROVE  node \in NodeSet
<1>1. PICK n \in Nat : n = Len(l)
  OBVIOUS
<1>2. n + 1 \in DOMAIN Append(l, node) /\ Append(l, node)[n + 1] = node
  BY <1>1
<1> QED
  BY <1>2

LEMMA ReadCommandLinks ==
  ASSUME IInv, Link(read, tcmds, tdevs), NEW n \in Name, NEW p \in Pcmd, ReadCommand(n, p)
  PROVE  Link(read', tcmds', tdevs')
<1> DEFINE F       == {"name", "description", "pcmd"}
           strings == [f \in F |-> XmlString(f, CASE f = "name" -> n [] f = "pcmd" -> p
                                                  [] OTHER -> n)]
           node    == [type |-> Default, strings |-> strings]
<1>1. PICK e, doc2, cmds2, devs2 :
        /\ e = [is |-> "command", name |-> n, pcmd |-> p]
        /\ doc2 = read' /\ cmds2 = tcmds' /\ devs2 = tdevs'
  OBVIOUS
<1>2. doc2 = Append(read, e) /\ cmds2 = Append(tcmds, node) /\ devs2 = tdevs
  BY <1>1 DEF ReadCommand, Reads
<1>3. Grows(read, doc2, e)
  BY <1>1, <1>2 DEF Grows, Link, Element
<1>4. Len(doc2) = Len(read) + 1
  BY <1>3, GrownIs
<1>5. tcmds \in Seq(NodeSet) /\ node \in NodeSet
  <2>1. tcmds \in Seq(NodeSet) /\ cmds2 \in Seq(NodeSet)
    BY <1>1, ReadCommandKeeps DEF IInv, Typed
  <2> HIDE DEF node
  <2> QED
    BY <1>2, <2>1, LastAppended
<1>6. /\ strings["name"].text = n /\ strings["pcmd"].text = p
      /\ strings["pcmd"].at = Len(read) + 1
  BY DEF XmlString
<1>7. Place(node) = Len(doc2) /\ NameOf(node) = e.name
  BY <1>1, <1>4, <1>6 DEF Place, NameOf
<1>8. Texts(node) = [f \in {"pcmd"} |-> e.pcmd]
  <2>1. DOMAIN strings \ {"name", "description", "send"} = {"pcmd"}
    OBVIOUS
  <2> HIDE DEF strings
  <2> QED
    BY <1>1, <1>6, <2>1 DEF Texts
<1> HIDE DEF node
<1>9. e.is = "command"
  BY <1>1
<1>10. Link(doc2, Append(tcmds, node), tdevs)
  BY <1>3, <1>5, <1>7, <1>8, <1>9, LinkWithCommand
<1> QED
  BY <1>1, <1>2, <1>10

LEMMA ReadFieldLinks ==
  ASSUME IInv, Link(read, tcmds, tdevs), NEW f \in Given, ReadField(f)
  PROVE  Link(read', tcmds', tdevs')
<1>1. PICK e, doc2, cmds2, devs2, k, s :
        /\ e = [is |-> "field", field |-> f] /\ k = Len(tcmds) /\ s = XmlString(f, "default")
        /\ doc2 = read' /\ cmds2 = tcmds' /\ devs2 = tdevs'
  OBVIOUS
<1> DEFINE node == [type |-> tcmds[k].type, strings |-> Put(tcmds[k].strings, f, s)]
<1>2. /\ tcmds # <<>> /\ doc2 = Append(read, e)
      /\ cmds2 = [tcmds EXCEPT ![k].strings = Put(@, f, s)] /\ devs2 = tdevs
  BY <1>1 DEF ReadField, Reads, Last
<1>3. Grows(read, doc2, e)
  BY <1>1, <1>2 DEF Grows, Link, Element
<1>4. f \notin {"name", "pcmd", "send"}
  BY GivenAssumption
<1>5. tcmds \in Seq(NodeSet) /\ k \in DOMAIN tcmds /\ tcmds[k] \in NodeSet
  BY <1>1, <1>2, EmptySeq DEF IInv, Typed
<1>6. cmds2 = [tcmds EXCEPT ![k] = node]
  <2>1. tcmds[k] = [type |-> tcmds[k].type, strings |-> tcmds[k].strings]
    BY <1>5 DEF NodeSet
  <2>2. PICK g : g = Put(tcmds[k].strings, f, s)
    OBVIOUS
  <2>3. [tcmds[k] EXCEPT !.strings = g] = [type |-> tcmds[k].type, strings |-> g]
    BY <2>1
  <2>4. cmds2 = [tcmds EXCEPT ![k] = [tcmds[k] EXCEPT !.strings = g]]
    BY <1>2, <1>5, <2>2
  <2> QED
    BY <2>2, <2>3, <2>4
<1>7. {"name", "pcmd"} \subseteq DOMAIN tcmds[k].strings
  BY <1>5 DEF IInv, Kinds, IsNode
<1>8. Place(node) = Place(tcmds[k]) /\ NameOf(node) = NameOf(tcmds[k])
  BY <1>4, <1>7 DEF Place, NameOf, Put
<1>9. Texts(node) = IF e.field = "description" THEN Texts(tcmds[k])
                    ELSE Put(Texts(tcmds[k]), e.field, "default")
  <2>1. s.text = "default" /\ e.field = f
    BY <1>1 DEF XmlString
  <2>2. CASE f = "description"
    BY <2>1, <2>2 DEF Texts, Put
  <2>3. CASE f # "description"
    BY <1>4, <2>1, <2>3 DEF Texts, Put
  <2> QED
    BY <2>1, <2>2, <2>3
<1> HIDE DEF node
<1>10. e.is = "field" /\ e.field # "pcmd"
  BY <1>1, <1>4
<1>11. Link(doc2, WithDefault(tcmds, k, node), tdevs)
  BY ZenonT(30), <1>1, <1>2, <1>3, <1>5, <1>8, <1>9, <1>10, LinkWithField
<1> QED
  BY <1>1, <1>2, <1>6, <1>11 DEF WithDefault

LEMMA ReadDeviceLinks ==
  ASSUME IInv, Link(read, tcmds, tdevs), NEW d \in Device,
         NEW fields \in SUBSET (Given \ {"description"}),
         NEW lost \in SUBSET (fields \cup (Given \cap {"description"})),
         NEW protocmd \in {{}} \cup {{p} : p \in Pcmd}, ReadDevice(d, fields, lost, protocmd)
  PROVE  Link(read', tcmds', tdevs')
<1>1. PICK e, doc2, cmds2, devs2, k :
        /\ e = [is |-> "device", dev |-> d, fields |-> fields, protocmd |-> protocmd]
        /\ k = Len(tcmds) /\ doc2 = read' /\ cmds2 = tcmds' /\ devs2 = tdevs'
  OBVIOUS
<1> DEFINE c       == tcmds[k].strings
           own     == OverrideStrings(c, d, fields, protocmd)
           F       == fields \cup ({"pcmd", "unit"} \cap DOMAIN c)
           G       == F \cup {"name", "description"}
           strings == [f \in G |-> IF f \in F THEN own[f] ELSE c[f]]
           node    == [type |-> Override, strings |-> strings]
<1>2. DOMAIN own = F
  BY DEF OverrideStrings
<1>3. /\ tcmds # <<>> /\ d \in DOMAIN tdevs /\ doc2 = Append(read, e) /\ cmds2 = tcmds
      /\ devs2 = WithNode(tdevs, d, node)
  <2> HIDE DEF own, F
  <2> QED
    BY <1>1, <1>2 DEF ReadDevice, Reads, Last, own, WithNode
<1>4. /\ e \in Element /\ e.is = "device" /\ e.dev = d
      /\ e.fields = fields /\ e.protocmd = protocmd
  BY <1>1 DEF Element
<1>5. Grows(read, doc2, e)
  BY <1>3, <1>4 DEF Grows, Link
<1>6. tcmds \in Seq(NodeSet) /\ k \in DOMAIN tcmds /\ tdevs \in DeviceLists
  BY <1>1, <1>3, EmptySeq DEF IInv, Typed
<1>7. {"name", "description", "pcmd"} \subseteq DOMAIN c
  BY <1>6 DEF IInv, Kinds, IsNode
<1>8. F \cap {"name", "description", "send"} = {} /\ "pcmd" \in F
  BY <1>7, GivenAssumption
<1>9. DOMAIN Texts(tcmds[k]) = DOMAIN c \ {"name", "description", "send"}
      /\ \A f \in DOMAIN Texts(tcmds[k]) : Texts(tcmds[k])[f] = c[f].text
  BY DEF Texts
<1>10. "unit" \in DOMAIN c => c["unit"].text = "default"
  <2> SUFFICES ASSUME "unit" \in DOMAIN c PROVE Texts(tcmds[k])["unit"] = "default"
    BY <1>9
  <2>1. Tells(tcmds[k], read, d) /\ Place(tcmds[k]) \in DOMAIN read
        /\ read[Place(tcmds[k])].is = "command"
    BY <1>6 DEF Link, Covers, CommandsOf
  <2>2. PICK j, H : /\ j = CommandOf(read, Place(tcmds[k]))
                    /\ H = FieldsUpTo(read, j, Len(read))
    OBVIOUS
  <2>3. Texts(tcmds[k]) = [f \in {"pcmd"} \cup H |->
                             IF f = "pcmd" THEN read[Place(tcmds[k])].pcmd ELSE "default"]
    BY <2>1, <2>2 DEF Tells, Says
  <2>4. "unit" \in DOMAIN Texts(tcmds[k])
    BY <1>9
  <2> QED
    BY <2>3, <2>4
<1>11. \A f \in F : /\ own[f].at = Len(read) + 1
                    /\ own[f].text =
                         CASE f \in fields                 -> d
                           [] f = "pcmd" /\ protocmd # {} -> CHOOSE p \in protocmd : TRUE
                           [] OTHER                        -> c[f].text
  BY DEF OverrideStrings, XmlString
<1>12. \A f \in F : strings[f] = own[f]
  OBVIOUS
<1>13. strings["name"] = c["name"] /\ DOMAIN strings = G
  BY <1>7, <1>8
<1>14. \A f \in DOMAIN strings \ {"name", "description", "send"} : f \in F
  OBVIOUS
<1> HIDE DEF own, strings
<1>15. node.strings = strings
  OBVIOUS
<1> HIDE DEF node
<1>16. Place(node) = Len(doc2) /\ NameOf(node) = NameOf(tcmds[k])
  <2>1. Len(doc2) = Len(read) + 1
    BY <1>5, GrownIs
  <2> QED
    BY <1>8, <1>11, <1>12, <1>13, <1>15, <2>1 DEF Place, NameOf
<1>17. Texts(node) = TextsFrom(Texts(tcmds[k]), d, fields, protocmd)
  <2>1. DOMAIN Texts(node) = F /\ \A f \in F : Texts(node)[f] = own[f].text
    BY <1>8, <1>12, <1>13, <1>15 DEF Texts
  <2>2. F = {"pcmd"} \cup fields \cup ({"unit"} \cap DOMAIN Texts(tcmds[k]))
    BY <1>7, <1>9
  <2>3. "pcmd" \notin fields
    BY GivenAssumption
  <2>4. Texts(tcmds[k])["pcmd"] = c["pcmd"].text
    BY <1>7, <1>9
  <2>5. \A f \in F : own[f].text =
          CASE f = "pcmd" /\ protocmd = {} -> Texts(tcmds[k])["pcmd"]
            [] f = "pcmd" /\ protocmd # {} -> CHOOSE p \in protocmd : TRUE
            [] f \in fields                -> d
            [] OTHER                       -> "default"
    <3> TAKE f \in F
    <3>1. CASE f \in fields
      BY <1>11, <2>3, <3>1
    <3>2. CASE f = "pcmd"
      BY <1>11, <2>3, <2>4, <3>2
    <3>3. CASE f = "unit" /\ f \notin fields
      BY <1>10, <1>11, <3>3
    <3> QED
      BY <2>2, <3>1, <3>2, <3>3
  <2>6. Texts(node) = [f \in F |-> Texts(node)[f]]
    BY <2>1 DEF Texts
  <2> HIDE DEF F
  <2>7. Texts(node) = [f \in F |->
          CASE f = "pcmd" /\ protocmd = {} -> Texts(tcmds[k])["pcmd"]
            [] f = "pcmd" /\ protocmd # {} -> CHOOSE p \in protocmd : TRUE
            [] f \in fields                -> d
            [] OTHER                       -> "default"]
    BY <2>1, <2>5, <2>6
  <2> QED
    BY <2>2, <2>7 DEF TextsFrom
<1>18. node \in NodeSet
  <2>1. devs2 \in DeviceLists
    BY <1>1, ReadDeviceKeeps DEF IInv, Typed
  <2>2. devs2[d] = Append(tdevs[d], node)
    BY <1>3, <1>6, DevicesAre DEF WithNode
  <2>3. tdevs[d] \in Seq(NodeSet) /\ devs2[d] \in Seq(NodeSet)
    BY <1>3, <1>6, <2>1, DevicesAre DEF WithNode
  <2> QED
    BY <2>2, <2>3, LastAppended
<1>19. Link(doc2, tcmds, WithNode(tdevs, d, node))
  BY <1>1, <1>3, <1>4, <1>5, <1>6, <1>16, <1>17, <1>18, LinkWithDevice
<1> QED
  BY <1>1, <1>3, <1>19

-----------------------------------------------------------------------------
(* The invariant behind the lookup, and its theorem.                       *)

Linked == pc = "reading" => Link(read, tcmds, tdevs)

Found == pc # "exited" =>
           \A d \in DOMAIN conf.devs : \A n : LooksUp(conf.devs[d], conf.read, d, n)

HasBoth(node) == "send" \in DOMAIN node.strings <=> "addr" \in DOMAIN node.strings

Addressed == pc \in {"idle", "reading"} =>
               \A d \in DOMAIN conf.devs : \A i \in DOMAIN conf.devs[d] :
                 HasBoth(conf.devs[d][i])

LookInv == IInv /\ Linked /\ Found /\ Addressed

\* Compiling a list changes neither what is found in it nor the texts of that.
LEMMA SameLookup ==
  ASSUME NEW l \in Seq(NodeSet), NEW l2 \in Seq(NodeSet), DOMAIN l2 = DOMAIN l,
         \A i \in DOMAIN l : NameOf(l2[i]) = NameOf(l[i]) /\ Texts(l2[i]) = Texts(l[i]),
         NEW doc, NEW d, NEW n, LooksUp(l, doc, d, n)
  PROVE  LooksUp(l2, doc, d, n)
<1>1. None(l, n) <=> None(l2, n)
  BY DEF None
<1>2. \A i : First(l, n, i) <=> First(l2, n, i)
  BY DEF First
<1>3. getCommandNode(l2, n) = getCommandNode(l, n)
  BY <1>1, <1>2, LookupIs
<1>4. getCommandNode(l, n) # 0 => getCommandNode(l, n) \in DOMAIN l
  <2>1. CASE None(l, n)
    BY <2>1, LookupIs
  <2>2. CASE \E i : First(l, n, i)
    BY <2>2, LookupIs DEF First
  <2> QED
    BY <2>1, <2>2, LookupIs
<1> QED
  BY <1>3, <1>4 DEF LooksUp

LEMMA SentNodeTells ==
  ASSUME Typed, NEW c, IsLists(c), NEW S, NEW d \in DOMAIN c.devs, NEW i \in DOMAIN c.devs[d],
         Unsent(c.devs[d][i]), {"name"} \subseteq DOMAIN c.devs[d][i].strings
  PROVE  /\ NameOf(SentNode(c, d, i, S)) = NameOf(c.devs[d][i])
         /\ Texts(SentNode(c, d, i, S)) = Texts(c.devs[d][i])
         /\ "send" \in DOMAIN SentNode(c, d, i, S).strings <=> <<d, i>> \in S
         /\ "addr" \in DOMAIN SentNode(c, d, i, S).strings <=>
              "addr" \in DOMAIN c.devs[d][i].strings
<1>1. PICK node, sent : node = c.devs[d][i] /\ sent = SentNode(c, d, i, S)
  OBVIOUS
<1>2. PICK s : s = SendString(d, i)
  OBVIOUS
<1>3. sent.strings = IF <<d, i>> \in S THEN Put(node.strings, "send", s) ELSE node.strings
  BY <1>1, <1>2, SentNodeIs
<1>4. CASE <<d, i>> \in S
  <2>1. /\ DOMAIN sent.strings = DOMAIN node.strings \cup {"send"}
        /\ \A f \in DOMAIN node.strings : f # "send" => sent.strings[f] = node.strings[f]
    BY <1>3, <1>4 DEF Put
  <2>2. Texts(sent) = Texts(node)
    BY <2>1 DEF Texts
  <2> QED
    BY <1>1, <1>4, <2>1, <2>2 DEF NameOf
<1>5. CASE <<d, i>> \notin S
  BY <1>1, <1>3, <1>5 DEF NameOf, Texts, Unsent
<1> QED
  BY <1>4, <1>5

LEMMA BeginLoadLinks ==
  ASSUME IInv, Found, Addressed, BeginLoad
  PROVE  Linked' /\ Found' /\ Addressed'
<1>1. /\ pc = "idle" /\ pc' = "reading" /\ conf' = conf /\ read' = <<>> /\ tcmds' = <<>>
  BY DEF BeginLoad
<1>2. PICK declared \in SUBSET Device \ {{}} : tdevs' = [d \in declared |-> <<>>]
  BY DEF BeginLoad, parseDevice
<1>3. Link(<<>>, <<>>, [d \in declared |-> <<>>])
  <2>1. IsDocument(<<>>)
    BY DEF IsDocument
  <2>2. CommandsOf(<<>>) = {} /\ \A d : DevicesOf(<<>>, d) = {}
    BY DEF CommandsOf, DevicesOf
  <2>3. Covers(<<>>, {})
    BY DEF Covers
  <2>4. DOMAIN <<>> = {}
    OBVIOUS
  <2>5. PICK l : l = [d \in declared |-> <<>>]
    OBVIOUS
  <2>6. \A d \in DOMAIN l : l[d] = <<>>
    BY <2>5
  <2>7. \A d \in DOMAIN l : Covers(l[d], DevicesOf(<<>>, d))
    <3> TAKE d \in DOMAIN l
    <3> QED
      BY <2>2, <2>3, <2>6, Zenon
  <2>8. \A d \in DOMAIN l : \A i \in DOMAIN l[d] : Tells(l[d][i], <<>>, d)
    <3> TAKE d \in DOMAIN l
    <3>1. DOMAIN l[d] = {}
      BY <2>4, <2>6
    <3> QED
      BY <3>1
  <2>9. Covers(<<>>, CommandsOf(<<>>))
    BY <2>2, <2>3
  <2>10. \A i \in DOMAIN <<>> : \A d \in Device : Tells(<<>>[i], <<>>, d)
    BY <2>4
  <2>11. Link(<<>>, <<>>, l)
    BY <2>1, <2>7, <2>8, <2>9, <2>10, Zenon DEF Link
  <2> QED
    BY <2>5, <2>11
<1> QED
  BY <1>1, <1>2, <1>3 DEF Linked, Found, Addressed

LEMMA InstallLinks ==
  ASSUME IInv, Linked, Install
  PROVE  Linked' /\ Found' /\ Addressed'
<1>1. /\ pc = "reading" /\ pc' = "compile"
      /\ conf' = [load |-> load, cmds |-> tcmds, devs |-> Merged, read |-> read]
  BY DEF Install
<1>2. conf'.devs = Merged /\ conf'.read = read
  BY <1>1
<1>3. Typed /\ Link(read, tcmds, tdevs)
  BY <1>1 DEF IInv, Linked
<1>4. DOMAIN Merged = DOMAIN tdevs
  BY <1>3, MergedIs DEF IsMerged
<1>5. \A d \in DOMAIN Merged : \A n : LooksUp(Merged[d], read, d, n)
  BY <1>3, <1>4, MergedLooksUp
<1> QED
  BY <1>1, <1>2, <1>5 DEF Linked, Found, Addressed

LEMMA CompileLinks ==
  ASSUME IInv, Found, Compile
  PROVE  Linked' /\ Found' /\ Addressed'
<1> DEFINE S == Compiled
<1>1. /\ pc = "compile" /\ pc' = "idle"
      /\ conf' = [conf EXCEPT !.devs = [d \in DOMAIN @ |-> [i \in DOMAIN @[d] |->
                    SentNode(conf, d, i, S)]]]
  <2>1. pc = "compile" /\ pc' = "idle"
    BY DEF Compile
  <2>2. conf' = [conf EXCEPT !.devs = [d \in DOMAIN @ |-> [i \in DOMAIN @[d] |->
                  SentNode(conf, d, i, S)]]]
    BY Zenon DEF Compile, Sent, SentNode
  <2> QED
    BY <2>1, <2>2, Zenon
<1>2. Typed /\ Kinds
  BY DEF IInv
<1>3. PICK c \in ConfSet : c = conf
  BY <1>2 DEF Typed
<1>4. PICK c2 : c2 = conf'
  OBVIOUS
<1>5. IsLists(c)
  BY DEF ConfSet, IsLists
<1>6. c2.read = c.read /\ Sends(c, c2, S)
  <2>1. c2 = [c EXCEPT !.devs = [d \in DOMAIN c.devs |-> [i \in DOMAIN c.devs[d] |->
                                   SentNode(c, d, i, S)]]]
    BY <1>1, <1>3, <1>4
  <2> HIDE DEF S
  <2> QED
    BY <2>1 DEF ConfSet, Sends
<1>7. ASSUME NEW d \in DOMAIN c.devs, NEW i \in DOMAIN c.devs[d]
      PROVE  <<d, i>> \in S <=> "addr" \in DOMAIN c.devs[d][i].strings
  BY <1>3, <1>5, DevicePlace DEF Compiled
<1> HIDE DEF S
<1>8. /\ DOMAIN c2.devs = DOMAIN c.devs /\ IsLists(c2)
      /\ \A d \in DOMAIN c.devs : /\ DOMAIN c2.devs[d] = DOMAIN c.devs[d]
                                  /\ \A i \in DOMAIN c.devs[d] :
                                       c2.devs[d][i] = SentNode(c, d, i, S)
  BY <1>2, <1>5, <1>6, SendsKeeps
<1>9. ASSUME NEW d \in DOMAIN c.devs, NEW i \in DOMAIN c.devs[d]
      PROVE  /\ NameOf(c2.devs[d][i]) = NameOf(c.devs[d][i])
             /\ Texts(c2.devs[d][i]) = Texts(c.devs[d][i])
             /\ HasBoth(c2.devs[d][i])
  <2>1. Unsent(c.devs[d][i]) /\ {"name"} \subseteq DOMAIN c.devs[d][i].strings
    BY <1>1, <1>2, <1>3 DEF Kinds, IsNode
  <2>2. c2.devs[d][i] = SentNode(c, d, i, S)
    BY <1>8
  <2>3. /\ NameOf(SentNode(c, d, i, S)) = NameOf(c.devs[d][i])
        /\ Texts(SentNode(c, d, i, S)) = Texts(c.devs[d][i])
        /\ "send" \in DOMAIN SentNode(c, d, i, S).strings <=> <<d, i>> \in S
        /\ "addr" \in DOMAIN SentNode(c, d, i, S).strings <=>
             "addr" \in DOMAIN c.devs[d][i].strings
    BY <1>2, <1>5, <2>1, SentNodeTells
  <2> QED
    BY <1>7, <2>2, <2>3 DEF HasBoth
<1>10. ASSUME NEW d \in DOMAIN c2.devs, NEW n PROVE LooksUp(c2.devs[d], c2.read, d, n)
  <2>1. PICK l \in Seq(NodeSet), l2 \in Seq(NodeSet) : l = c.devs[d] /\ l2 = c2.devs[d]
    BY <1>5, <1>8, DevicesAre DEF IsLists
  <2>2. LooksUp(l, c.read, d, n)
    BY <1>1, <1>3, <1>8, <2>1 DEF Found
  <2>3. /\ DOMAIN l2 = DOMAIN l
        /\ \A i \in DOMAIN l : NameOf(l2[i]) = NameOf(l[i]) /\ Texts(l2[i]) = Texts(l[i])
    BY <1>8, <1>9, <2>1
  <2> QED
    BY <1>6, <2>1, <2>2, <2>3, SameLookup
<1>11. \A d \in DOMAIN c2.devs : \A i \in DOMAIN c2.devs[d] : HasBoth(c2.devs[d][i])
  BY <1>8, <1>9
<1> QED
  BY <1>1, <1>4, <1>10, <1>11 DEF Linked, Found, Addressed

LEMMA IsFound == LookInv => LookupFindsDefinition
<1> SUFFICES ASSUME LookInv, pc = "idle", NEW d \in DOMAIN conf.devs, NEW n \in Name
             PROVE  LET i == getCommandNode(conf.devs[d], n)
                        j == Definition(conf.read, d, n)
                    IN /\ i = 0 <=> j = 0
                       /\ i # 0 => /\ Texts(conf.devs[d][i]) = Says(conf.read, d, j)
                                   /\ "send" \in DOMAIN conf.devs[d][i].strings
                                        <=> "addr" \in DOMAIN Texts(conf.devs[d][i])
  BY DEF LookupFindsDefinition
<1>1. LooksUp(conf.devs[d], conf.read, d, n)
  BY DEF LookInv, Found
<1>2. PICK l \in Seq(NodeSet) : l = conf.devs[d]
  BY DevicesAre DEF LookInv, IInv, Typed, ConfSet
<1>3. PICK i : i = getCommandNode(l, n)
  OBVIOUS
<1>4. i # 0 => i \in DOMAIN l
  <2>1. CASE None(l, n)
    BY <1>3, <2>1, LookupIs
  <2>2. CASE \E x : First(l, n, x)
    BY <1>3, <2>2, LookupIs DEF First
  <2> QED
    BY <2>1, <2>2, LookupIs
<1>5. i # 0 => HasBoth(l[i])
  BY <1>2, <1>4 DEF LookInv, Addressed
<1>6. "addr" \in DOMAIN l[i].strings <=> "addr" \in DOMAIN Texts(l[i])
  BY DEF Texts
<1> QED
  BY <1>1, <1>2, <1>3, <1>5, <1>6 DEF LooksUp, HasBoth

\* parseXMLFile(), compileCommand() and getCommandNode() together: after every load, however
\* the definitions of a command and of the devices are ordered and repeated in the document,
\* a device's command is the one the document has for it, and compiled if it has an address.
THEOREM LookupIsRight == Spec => []LookupFindsDefinition
<1>1. Init => LookInv
  <2> SUFFICES ASSUME Init PROVE LookInv
    OBVIOUS
  <2>1. IInv
    BY InitInv
  <2>2. pc = "idle" /\ DOMAIN conf.devs = {}
    BY DEF Init, NoConf
  <2> QED
    BY <2>1, <2>2 DEF LookInv, Linked, Found, Addressed
<1>2. ASSUME LookInv, [Next]_vars PROVE LookInv'
  <2>0. IInv'
    BY <1>2, NextKeeps DEF LookInv
  <2>1. CASE BeginLoad
    BY <1>2, <2>0, <2>1, BeginLoadLinks DEF LookInv
  <2>2. CASE ReadElement
    <3>1. pc = "reading" /\ pc' = "reading" /\ conf' = conf
      BY <2>2 DEF ReadElement, ReadCommand, ReadField, ReadDevice, Reads
    <3>2. IInv /\ Link(read, tcmds, tdevs)
      BY <1>2, <3>1 DEF LookInv, Linked
    <3>3. Link(read', tcmds', tdevs')
      <4>1. CASE \E n \in Name, p \in Pcmd : ReadCommand(n, p)
        BY <3>2, <4>1, ReadCommandLinks
      <4>2. CASE \E f \in Given : ReadField(f)
        BY <3>2, <4>2, ReadFieldLinks
      <4>3. CASE \E d \in Device, fields \in SUBSET (Given \ {"description"}) :
                   \E lost \in SUBSET (fields \cup (Given \cap {"description"})),
                      protocmd \in {{}} \cup {{p} : p \in Pcmd} :
                        ReadDevice(d, fields, lost, protocmd)
        BY <3>2, <4>3, ReadDeviceLinks
      <4> QED
        BY <2>2, <4>1, <4>2, <4>3 DEF ReadElement
    <3>4. Linked' /\ Found' /\ Addressed'
      BY <1>2, <3>1, <3>3 DEF LookInv, Linked, Found, Addressed
    <3> QED
      BY <2>0, <3>4 DEF LookInv
  <2>3. CASE Refused \/ NoDefaultDevice
    <3>1. pc = "reading" /\ pc' \in {"idle", "exited"} /\ conf' = conf
      BY <2>3 DEF Refused, NoDefaultDevice, LoadFails
    <3> QED
      BY <1>2, <2>0, <3>1 DEF LookInv, Linked, Found, Addressed
  <2>4. CASE Install
    BY <1>2, <2>0, <2>4, InstallLinks DEF LookInv
  <2>5. CASE Compile
    BY <1>2, <2>0, <2>5, CompileLinks DEF LookInv
  <2>6. CASE CompileExits
    BY <2>0, <2>6 DEF CompileExits, LookInv, Linked, Found, Addressed
  <2>7. CASE UNCHANGED vars
    BY <1>2, <2>0, <2>7 DEF vars, LookInv, Linked, Found, Addressed
  <2> QED
    BY <1>2, <2>1, <2>2, <2>3, <2>4, <2>5, <2>6, <2>7 DEF Next
<1> QED
  BY <1>1, <1>2, IsFound, PTL DEF Spec
=============================================================================
