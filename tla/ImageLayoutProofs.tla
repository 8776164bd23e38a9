-------------------------- MODULE ImageLayoutProofs --------------------------
(***************************************************************************)
(* What LoadFakeImageFromEmbedFs does to any object file that satisfies    *)
(* ObjectAssumption: every variable has room of its own behind the text,   *)
(* and every relocated load finds its variable there.                      *)
(***************************************************************************)
EXTENDS ImageLayout, FiniteSetTheorems, SequenceTheorems, TLAPS

\* The variables that the first entries of .rela.text refer to.
Referred(n) == {object.relocs[k].sym : k \in 1..n} \ {NoSymbol}

WordFor(target) == IF object.arch = "arm64" THEN (target \div 4) % 2 ^ 19 ELSE target

\* Room for each variable behind the text, one after the other.
RoomInv ==
  /\ IsFiniteSet(DOMAIN offset) /\ DOMAIN offset = Referred(entry)
  /\ Cardinality(DOMAIN offset) <= entry
  /\ content.len = object.size + varLength * Cardinality(DOMAIN offset)
  /\ \A v \in DOMAIN offset :
       /\ offset[v] \in object.size..content.len - varLength
       /\ object.arch = "arm64" => offset[v] % 4 = 0
       /\ {offset[v], offset[v] + varLength - 8} \subseteq DOMAIN content.word
       /\ \A w \in DOMAIN offset \ {v} :
            \/ offset[v] + varLength <= offset[w]
            \/ offset[w] + varLength <= offset[v]

\* The loads that have been relocated lead to that room.
WordInv ==
  /\ Relocated \subseteq DOMAIN content.word
  /\ \A k \in 1..entry :
       LET rela == object.relocs[k]
       IN rela.sym # NoSymbol =>
            content.word[rela.off] = WordFor(offset[rela.sym] - rela.off + rela.addend)

LayoutInv ==
  /\ object \in Objects /\ loading \in {"text", "rela", "done"}
  /\ entry \in 0..Len(object.relocs)
  /\ content.len \in Nat /\ DOMAIN content.word \subseteq 0..content.len - 4
  /\ loading = "text" => entry = 0 /\ DOMAIN offset = {}
  /\ loading = "done" => entry = Len(object.relocs)
  /\ loading # "text" => RoomInv /\ WordInv

\* What the assumption says of one entry.
LEMMA Entries ==
  ASSUME object \in Objects, NEW k \in 1..Len(object.relocs)
  PROVE  /\ Len(object.relocs) \in Nat /\ DOMAIN object.relocs = 1..Len(object.relocs)
         /\ object.arch \in {"amd64", "arm64"} /\ object.size \in Nat
         /\ object.relocs[k].off \in 0..object.size - 4 /\ object.relocs[k].off \in Nat
         /\ object.relocs[k].addend \in Int
         /\ object.arch = "arm64" =>
              /\ object.relocs[k].off % 4 = 0 /\ object.relocs[k].addend = 0
              /\ object.size % 4 = 0 /\ object.size + 16 * Len(object.relocs) < 2 ^ 20
         /\ \A l \in 1..Len(object.relocs) : l # k =>
              /\ object.relocs[l].off # object.relocs[k].off
              /\ object.relocs[l].sym = object.relocs[k].sym =>
                   object.relocs[k].sym = NoSymbol
  <1>1. /\ object.relocs \in Seq([off : Nat, sym : STRING, addend : Int])
        /\ DOMAIN object.relocs = 1..Len(object.relocs) /\ Len(object.relocs) \in Nat
    BY ObjectAssumption
  <1>2. object.relocs[k] \in [off : Nat, sym : STRING, addend : Int]
    BY <1>1, ElementOfSeq
  <1>3. ASSUME NEW l \in 1..Len(object.relocs), l # k
        PROVE  /\ object.relocs[l].off # object.relocs[k].off
               /\ object.relocs[l].sym = object.relocs[k].sym =>
                    object.relocs[k].sym = NoSymbol
    <2>1. CASE l < k
      <3>1. l \in 1..k - 1
        BY <1>1, <2>1
      <3>. QED
        BY <1>1, <3>1, ObjectAssumption
    <2>2. CASE k < l
      <3>1. k \in 1..l - 1
        BY <1>1, <2>2
      <3>. QED
        BY <1>1, <3>1, <1>3, ObjectAssumption
    <2>. QED
      BY <1>1, <1>3, <2>1, <2>2
  <1>. QED
    BY <1>1, <1>2, <1>3, ObjectAssumption

\* Before any step of loading the invariant holds.
LEMMA LayoutInit == ImageInit => LayoutInv
  BY ObjectAssumption DEF ImageInit, LayoutInv

\* A variable gets room that is its own, and the load that refers to it leads there.
LEMMA LayoutAssetLD == LayoutInv /\ AssetLD => LayoutInv'
<1> SUFFICES ASSUME LayoutInv, AssetLD PROVE LayoutInv'
  OBVIOUS
<1> DEFINE k == entry + 1
           rela == object.relocs[k]
           room == {content.len + 8 * i : i \in 0..varLength \div 8 - 1}
<1>1. /\ loading = "rela" /\ k \in 1..Len(object.relocs) /\ rela.sym # NoSymbol
      /\ Len(object.relocs) \in Nat /\ entry \in Nat
      /\ object \in Objects /\ object' = object /\ loading' = loading /\ entry' = k
      /\ content.len \in Nat
  BY ObjectAssumption DEF AssetLD, LayoutInv
<1>2. /\ object.arch \in {"amd64", "arm64"} /\ object.size \in Nat
      /\ rela.off \in 0..object.size - 4 /\ rela.off \in Nat /\ rela.addend \in Int
  BY <1>1, Entries
<1>3. varLength \in {8, 16} /\ varLength' = varLength
      /\ (varLength = 16 <=> object.arch = "arm64")
  BY <1>1 DEF varLength
<1>4. /\ RoomInv /\ WordInv /\ DOMAIN content.word \subseteq 0..content.len - 4
  BY <1>1 DEF LayoutInv
<1>. DEFINE other(l) ==
           /\ object.relocs[l].off # rela.off /\ object.relocs[l].sym # rela.sym
           /\ object.relocs[l].off \in 0..object.size - 4
<1>0. ASSUME NEW l \in 1..entry, object.relocs[l].sym # NoSymbol PROVE other(l)
  <2>1. l \in 1..Len(object.relocs) /\ k \in 1..Len(object.relocs) /\ l # k
    BY <1>1
  <2>2. object.relocs[l].off # rela.off
        /\ (object.relocs[l].sym = rela.sym => rela.sym = NoSymbol)
    BY <1>1, <2>1, Entries
  <2>3. object.relocs[l].off \in 0..object.size - 4
    BY <1>1, <2>1, Entries
  <2>. QED
    BY <1>1, <2>2, <2>3
<1>5. rela.sym \notin DOMAIN offset
  <2>1. ASSUME NEW l \in 1..entry, object.relocs[l].sym = rela.sym PROVE FALSE
    BY <1>0, <1>1, <2>1
  <2>. QED
    BY <1>4, <2>1 DEF RoomInv, Referred
<1>6. /\ DOMAIN offset' = DOMAIN offset \cup {rela.sym} /\ offset'[rela.sym] = content.len
      /\ \A v \in DOMAIN offset : offset'[v] = offset[v]
  BY <1>5 DEF AssetLD
<1>7. /\ content'.len = content.len + varLength
      /\ DOMAIN content'.word = DOMAIN content.word \cup room
      /\ rela.off \in DOMAIN content'.word => content'.word[rela.off] = Displacement(rela)
      /\ \A i \in DOMAIN content.word \ (room \cup {rela.off}) :
           content'.word[i] = content.word[i]
  <2> DEFINE word(i) == IF i = rela.off THEN Displacement(rela)
                          ELSE IF i \in room THEN 0 ELSE content.word[i]
  <2>1. content' = [len  |-> content.len + varLength,
                    word |-> [i \in DOMAIN content.word \cup room |-> word(i)]]
    BY DEF AssetLD
  <2>2. word(rela.off) = Displacement(rela)
    OBVIOUS
  <2>3. \A i : i \notin room \cup {rela.off} => word(i) = content.word[i]
    OBVIOUS
  <2> HIDE DEF word, room, rela
  <2>. QED
    BY <2>1, <2>2, <2>3
<1>8. /\ content.len >= object.size
      /\ \A i \in room : i \in Nat /\ i >= content.len /\ i <= content.len + varLength - 8
      /\ {content.len, content.len + varLength - 8} \subseteq room
  <2>1. Cardinality(DOMAIN offset) \in Nat
    BY <1>4, FS_CardinalityType DEF RoomInv
  <2>2. content.len >= object.size
    BY <1>1, <1>2, <1>3, <1>4, <2>1 DEF RoomInv
  <2>3. varLength \div 8 - 1 = IF varLength = 8 THEN 0 ELSE 1
    BY <1>3
  <2>4. \A i \in 0..varLength \div 8 - 1 : i \in Nat /\ 8 * i <= varLength - 8
    BY <1>3, <2>3
  <2>5. \A i \in room : i \in Nat /\ i >= content.len /\ i <= content.len + varLength - 8
    BY <1>1, <1>3, <2>4
  <2>6. content.len = content.len + 8 * 0
        /\ content.len + varLength - 8 = content.len + 8 * (varLength \div 8 - 1)
    BY <1>1, <1>3, <2>3
  <2>7. {content.len, content.len + varLength - 8} \subseteq room
    BY <1>3, <2>3, <2>6
  <2>. QED
    BY <2>2, <2>5, <2>7
<1> HIDE DEF room
<1>9. RoomInv'
  <2> DEFINE old == DOMAIN offset
  <2>1. IsFiniteSet(old \cup {rela.sym})
        /\ Cardinality(old \cup {rela.sym}) = Cardinality(old) + 1
    BY <1>4, <1>5, FS_AddElement DEF RoomInv
  <2>2. Cardinality(old) \in Nat /\ Cardinality(old) <= entry
    BY <1>4, FS_CardinalityType DEF RoomInv
  <2>3. Referred(entry)' = Referred(entry) \cup {rela.sym}
    BY <1>1 DEF Referred
  <2>4. content'.len = object.size + varLength * (Cardinality(old) + 1)
    <3> DEFINE c == Cardinality(old)
    <3>1. c \in Nat /\ content.len = object.size + varLength * c
      BY <1>4, <2>2 DEF RoomInv
    <3>2. content'.len = content.len + varLength
      BY <1>7
    <3> HIDE DEF c
    <3>3. content'.len = object.size + varLength * (c + 1)
      BY <1>2, <1>3, <3>1, <3>2
    <3>. QED
      BY <3>3 DEF c
  <2>5. object.arch = "arm64" => content.len % 4 = 0
    <3>1. object.arch = "arm64" => object.size % 4 = 0
      BY <1>1, Entries
    <3>. QED
      BY <1>2, <1>3, <1>4, <2>2, <3>1 DEF RoomInv
  <2>6. ASSUME NEW v \in old
        PROVE  /\ offset'[v] \in object.size..content'.len - varLength
               /\ offset'[v] + varLength <= content.len
               /\ object.arch = "arm64" => offset'[v] % 4 = 0
               /\ {offset'[v], offset'[v] + varLength - 8} \subseteq DOMAIN content'.word
               /\ \A w \in old \ {v} :
                    \/ offset'[v] + varLength <= offset'[w]
                    \/ offset'[w] + varLength <= offset'[v]
    <3>1. /\ offset'[v] = offset[v] /\ content'.len = content.len + varLength
          /\ DOMAIN content.word \subseteq DOMAIN content'.word
          /\ \A w \in old : offset'[w] = offset[w]
      BY <1>6, <1>7
    <3>2. /\ offset[v] \in object.size..content.len - varLength
          /\ object.arch = "arm64" => offset[v] % 4 = 0
          /\ {offset[v], offset[v] + varLength - 8} \subseteq DOMAIN content.word
          /\ \A w \in old \ {v} :
               \/ offset[v] + varLength <= offset[w]
               \/ offset[w] + varLength <= offset[v]
      BY <1>4 DEF RoomInv
    <3>3. /\ offset'[v] \in object.size..content'.len - varLength
          /\ offset'[v] + varLength <= content.len
      BY <1>1, <1>2, <1>3, <3>1, <3>2
    <3>. QED
      BY <3>1, <3>2, <3>3
  <2>7. /\ offset'[rela.sym] \in object.size..content'.len - varLength
        /\ object.arch = "arm64" => offset'[rela.sym] % 4 = 0
        /\ {offset'[rela.sym], offset'[rela.sym] + varLength - 8} \subseteq DOMAIN content'.word
    BY <1>1, <1>2, <1>3, <1>6, <1>7, <1>8, <2>5
  <2>8. ASSUME NEW v \in old
        PROVE  offset'[v] + varLength <= offset'[rela.sym]
    BY <1>6, <2>6
  <2>9. DOMAIN offset' = old \cup {rela.sym} /\ rela.sym \notin old
    BY <1>5, <1>6
  <2>10. /\ IsFiniteSet(DOMAIN offset)' /\ DOMAIN offset' = Referred(entry)'
         /\ Cardinality(DOMAIN offset)' <= entry'
         /\ content'.len = object.size + varLength * Cardinality(DOMAIN offset')
    BY <1>1, <1>4, <2>1, <2>2, <2>3, <2>4, <2>9 DEF RoomInv
  <2> HIDE DEF old, rela, k
  <2>11. ASSUME NEW v \in DOMAIN offset'
         PROVE  /\ offset'[v] \in object.size..content'.len - varLength
                /\ object.arch = "arm64" => offset'[v] % 4 = 0
                /\ {offset'[v], offset'[v] + varLength - 8} \subseteq DOMAIN content'.word
                /\ \A w \in DOMAIN offset' \ {v} :
                     \/ offset'[v] + varLength <= offset'[w]
                     \/ offset'[w] + varLength <= offset'[v]
    <3>1. CASE v = rela.sym
      BY <2>7, <2>8, <2>9, <3>1
    <3>2. CASE v # rela.sym
      BY <2>6, <2>8, <2>9, <3>2
    <3>. QED
      BY <3>1, <3>2
  <2>. QED
    BY <1>1, <1>3, <2>10, <2>11 DEF RoomInv
<1>10. WordInv'
  <2>1. Relocated' \subseteq DOMAIN content'.word
    BY <1>1, <1>4, <1>7 DEF WordInv, Relocated
  <2>2. rela.off \in Relocated
    BY <1>1, Entries DEF Relocated
  <2>3. content'.word[rela.off] = WordFor(offset'[rela.sym] - rela.off + rela.addend)
    BY <1>1, <1>4, <1>6, <1>7, <2>2 DEF WordInv, Displacement, WordFor
  <2>4. ASSUME NEW l \in 1..entry, object.relocs[l].sym # NoSymbol
        PROVE  /\ content'.word[object.relocs[l].off] = content.word[object.relocs[l].off]
               /\ offset'[object.relocs[l].sym] = offset[object.relocs[l].sym]
    <3>1. l \in DOMAIN object.relocs
      BY <1>1, ObjectAssumption
    <3>2. object.relocs[l].off < content.len /\ object.relocs[l].off # rela.off
      <4>1. object.relocs[l].off # rela.off /\ object.relocs[l].off \in 0..object.size - 4
        BY <1>0, <2>4
      <4>2. content.len >= object.size
        BY <1>8
      <4>. QED
        BY <1>1, <1>2, <4>1, <4>2
    <3>3. object.relocs[l].off \notin room \cup {rela.off}
      BY <1>1, <1>8, <3>2
    <3>4. object.relocs[l].off \in Relocated
      BY <3>1 DEF Relocated
    <3>5. object.relocs[l].sym \in DOMAIN offset
      BY <1>4, <2>4 DEF RoomInv, Referred
    <3>. QED
      BY <1>4, <1>6, <1>7, <3>3, <3>4, <3>5 DEF WordInv
  <2>5. ASSUME NEW l \in 1..k, object.relocs[l].sym # NoSymbol
        PROVE  content'.word[object.relocs[l].off]
                 = WordFor(offset'[object.relocs[l].sym] - object.relocs[l].off
                             + object.relocs[l].addend)
    <3>1. CASE l = k
      BY <2>3, <3>1
    <3>2. CASE l # k
      <4>1. l \in 1..entry
        BY <1>1, <3>2
      <4>. QED
        BY <1>4, <2>4, <2>5, <4>1 DEF WordInv
    <3>. QED
      BY <3>1, <3>2
  <2>. QED
    BY <1>1, <2>1, <2>5 DEF WordInv, WordFor
<1>11. DOMAIN content'.word \subseteq 0..content'.len - 4 /\ content'.len \in Nat
  BY <1>1, <1>3, <1>4, <1>7, <1>8
<1>. QED
  BY <1>1, <1>3, <1>7, <1>9, <1>10, <1>11 DEF LayoutInv

\* Every step of LoadFakeImageFromEmbedFs keeps the invariant.
LEMMA LayoutNext == LayoutInv /\ LoadFakeImageFromEmbedFs => LayoutInv'
<1> SUFFICES ASSUME LayoutInv, LoadFakeImageFromEmbedFs PROVE LayoutInv'
  OBVIOUS
<1>1. object \in Objects /\ object.size \in Nat /\ Len(object.relocs) \in Nat
      /\ DOMAIN object.relocs = 1..Len(object.relocs)
  BY ObjectAssumption DEF LayoutInv
<1>2. CASE ReadText
  <2>1. Relocated \subseteq 0..object.size - 4
    BY <1>1, Entries DEF Relocated
  <2>2. /\ object' = object /\ entry' = 0 /\ loading' = "rela"
        /\ content'.len = object.size /\ DOMAIN content'.word = Relocated
        /\ DOMAIN offset' = {} /\ offset' = offset
    BY <1>2 DEF ReadText, LayoutInv
  <2>3. IsFiniteSet({}) /\ Cardinality({}) = 0
    BY FS_EmptySet
  <2>4. Referred(0) = {} /\ Referred(entry)' = Referred(0)
    BY <2>2 DEF Referred
  <2>5. varLength' \in Nat
    BY DEF varLength
  <2>6. content'.len = object.size + varLength' * Cardinality({})
    BY <1>1, <2>2, <2>3, <2>5
  <2>7. RoomInv' /\ WordInv'
    BY <1>1, <2>2, <2>3, <2>4, <2>6 DEF RoomInv, WordInv, Relocated
  <2>. QED
    BY <1>1, <2>1, <2>2, <2>7 DEF LayoutInv
<1>3. CASE AssetLD
  BY <1>3, LayoutAssetLD
<1>4. CASE SkipEntry
  <2>1. /\ entry' = entry + 1 /\ entry + 1 \in 1..Len(object.relocs)
        /\ object.relocs[entry + 1].sym = NoSymbol /\ loading = "rela"
        /\ UNCHANGED <<object, loading, content, offset>>
    BY <1>1, <1>4 DEF SkipEntry, LayoutInv
  <2>2. RoomInv /\ WordInv /\ entry \in Nat
    BY <2>1 DEF LayoutInv
  <2>3. Referred(entry)' = Referred(entry)
    BY <2>1, <2>2 DEF Referred
  <2>4. Cardinality(DOMAIN offset) <= entry + 1
    BY <2>2, FS_CardinalityType DEF RoomInv
  <2>5. RoomInv'
    BY <2>1, <2>2, <2>3, <2>4 DEF RoomInv, varLength
  <2>6. WordInv'
    BY <2>1, <2>2 DEF WordInv, WordFor, Relocated
  <2>. QED
    BY <2>1, <2>5, <2>6 DEF LayoutInv
<1>5. CASE LoadDone
  BY <1>5 DEF LoadDone, LayoutInv, RoomInv, WordInv, WordFor, Relocated, Referred, varLength
<1>. QED
  BY <1>2, <1>3, <1>4, <1>5 DEF LoadFakeImageFromEmbedFs

\* A step of something else does, too.
LEMMA LayoutUnchanged == LayoutInv /\ UNCHANGED imageVars => LayoutInv'
<1> SUFFICES ASSUME LayoutInv, UNCHANGED <<object, loading, entry, content, offset>>
             PROVE  LayoutInv'
  BY DEF imageVars
<1>1. UNCHANGED <<varLength, Relocated>> /\ Referred(entry)' = Referred(entry)
  BY DEF varLength, Relocated, Referred
<1>2. RoomInv' <=> RoomInv
  BY <1>1 DEF RoomInv
<1>3. WordInv' <=> WordInv
  BY <1>1 DEF WordInv, WordFor
<1>. QED
  BY <1>1, <1>2, <1>3 DEF LayoutInv

(***************************************************************************)
(* The image in the target                                                 *)
(***************************************************************************)

TextAt(memory, StartAddress) ==
  /\ DOMAIN memory = {StartAddress + k : k \in DOMAIN content.word}
  /\ \A k \in DOMAIN content.word :
       k < object.size => memory[StartAddress + k] = content.word[k]

\* memory holds the image with the values of its variables.
ImageAt(memory, StartAddress, value) ==
  /\ TextAt(memory, StartAddress)
  /\ \A v \in DOMAIN offset :
       /\ memory[Place(StartAddress, v)] = value[v]
       /\ object.arch = "arm64" =>
            memory[Pointer(StartAddress, v)] = Place(StartAddress, v)

\* The copy of the image has its text.
LEMMA MappedText ==
  ASSUME LayoutInv, NEW StartAddress \in Nat
  PROVE  TextAt(Mapped(StartAddress), StartAddress)
<1>1. DOMAIN content.word \subseteq Int
  BY DEF LayoutInv
<1>. QED
  BY <1>1 DEF TextAt, Mapped

\* SetVarUint64 of all variables sets each of them, whatever the order, and leaves the
\* text alone.
LEMMA SetVarsSets ==
  ASSUME LayoutInv, loading = "done", NEW StartAddress \in Nat,
         NEW memory, TextAt(memory, StartAddress),
         NEW value, DOMAIN value = DOMAIN offset
  PROVE  ImageAt(SetVars(memory, StartAddress, value), StartAddress, value)
<1> DEFINE new == SetVars(memory, StartAddress, value)
<1>1. /\ RoomInv /\ WordInv /\ content.len \in Nat /\ object.size \in Nat
      /\ DOMAIN content.word \subseteq 0..content.len - 4
      /\ varLength \in {8, 16} /\ (varLength = 16 <=> object.arch = "arm64")
  BY ObjectAssumption DEF LayoutInv, varLength
<1>2. ASSUME NEW v \in DOMAIN offset
      PROVE  /\ Place(StartAddress, v) \in Nat /\ Pointer(StartAddress, v) \in Nat
             /\ Place(StartAddress, v) >= StartAddress + object.size
             /\ Pointer(StartAddress, v) >= StartAddress + object.size
             /\ Place(StartAddress, v) \in DOMAIN memory
             /\ Pointer(StartAddress, v) \in DOMAIN memory
             /\ object.arch = "arm64" => Place(StartAddress, v) = Pointer(StartAddress, v) + 8
             /\ object.arch # "arm64" => Place(StartAddress, v) = Pointer(StartAddress, v)
  <2>1. /\ offset[v] \in Nat /\ offset[v] >= object.size
        /\ offset[v] \in DOMAIN content.word
        /\ offset[v] + varLength - 8 \in DOMAIN content.word
    BY <1>1 DEF RoomInv
  <2>2. Place(StartAddress, v) = StartAddress + (offset[v] + varLength - 8)
    BY <1>1, <2>1 DEF Place
  <2>. QED
    BY <1>1, <2>1, <2>2 DEF TextAt, Pointer
<1>3. ASSUME NEW v \in DOMAIN offset, NEW w \in DOMAIN offset \ {v}
      PROVE  /\ Place(StartAddress, v) # Place(StartAddress, w)
             /\ Pointer(StartAddress, v) # Pointer(StartAddress, w)
             /\ object.arch = "arm64" => Pointer(StartAddress, v) # Place(StartAddress, w)
  <2>1. /\ offset[v] \in Nat /\ offset[w] \in Nat
        /\ offset[v] + varLength <= offset[w] \/ offset[w] + varLength <= offset[v]
    BY <1>1 DEF RoomInv
  <2>. QED
    BY <1>1, <2>1 DEF Place, Pointer
<1>4. ASSUME NEW v \in DOMAIN offset PROVE new[Place(StartAddress, v)] = value[v]
  <2> DEFINE w == CHOOSE u \in DOMAIN value : Place(StartAddress, v) = Place(StartAddress, u)
  <2>1. w \in DOMAIN value /\ Place(StartAddress, v) = Place(StartAddress, w)
    OBVIOUS
  <2>2. w = v
    BY <1>3, <2>1
  <2>3. new[Place(StartAddress, v)] = value[w]
    BY <1>2 DEF SetVars
  <2>. QED
    BY <2>2, <2>3
<1>5. ASSUME NEW v \in DOMAIN offset, object.arch = "arm64"
      PROVE  new[Pointer(StartAddress, v)] = Place(StartAddress, v)
  <2> DEFINE w == CHOOSE u \in DOMAIN value : Pointer(StartAddress, v) = Pointer(StartAddress, u)
  <2>1. w \in DOMAIN value /\ Pointer(StartAddress, v) = Pointer(StartAddress, w)
    OBVIOUS
  <2>2. w = v
    BY <1>3, <2>1
  <2>3. \A u \in DOMAIN value : Pointer(StartAddress, v) # Place(StartAddress, u)
    BY <1>2, <1>3, <1>5
  <2>4. new[Pointer(StartAddress, v)] = Place(StartAddress, w)
    BY <1>2, <1>5, <2>3 DEF SetVars
  <2>. QED
    BY <2>2, <2>4
<1>6. DOMAIN new = DOMAIN memory
  BY DEF SetVars
<1>7. ASSUME NEW k \in DOMAIN content.word, k < object.size
      PROVE  new[StartAddress + k] = content.word[k]
  <2>1. \A v \in DOMAIN value : StartAddress + k # Place(StartAddress, v)
                                /\ StartAddress + k # Pointer(StartAddress, v)
    BY <1>1, <1>2, <1>7
  <2>2. StartAddress + k \in DOMAIN memory
    BY DEF TextAt
  <2>3. new[StartAddress + k] = memory[StartAddress + k]
    BY <2>1, <2>2 DEF SetVars
  <2>. QED
    BY <1>7, <2>3 DEF TextAt
<1>. QED
  BY <1>4, <1>5, <1>6, <1>7 DEF ImageAt, TextAt

\* Every load of a variable through its relocated word reads its value.
LEMMA LoadsReach ==
  ASSUME LayoutInv, loading = "done", NEW StartAddress \in Nat,
         NEW memory, NEW value, ImageAt(memory, StartAddress, value),
         NEW k \in DOMAIN object.relocs, object.relocs[k].sym # NoSymbol
  PROVE  /\ object.relocs[k].sym \in DOMAIN offset
         /\ Loaded(memory, StartAddress, object.relocs[k]) = value[object.relocs[k].sym]
<1> DEFINE rela == object.relocs[k]
           v == rela.sym
<1>1. /\ RoomInv /\ WordInv /\ content.len \in Nat /\ object \in Objects
      /\ varLength \in {8, 16} /\ (varLength = 16 <=> object.arch = "arm64")
      /\ Len(object.relocs) \in Nat /\ k \in 1..Len(object.relocs) /\ entry = Len(object.relocs)
  BY ObjectAssumption DEF LayoutInv, varLength
<1>2. /\ rela.off \in Nat /\ rela.off \in 0..object.size - 4 /\ rela.addend \in Int
      /\ object.size \in Nat
      /\ object.arch = "arm64" =>
           /\ rela.off % 4 = 0 /\ rela.addend = 0
           /\ object.size + 16 * Len(object.relocs) < 2 ^ 20
  BY <1>1, Entries
<1>3. v \in DOMAIN offset
  BY <1>1 DEF RoomInv, Referred
<1>4. WordFor(offset[v] - rela.off + rela.addend) = content.word[rela.off]
      /\ rela.off \in DOMAIN content.word
  BY <1>1 DEF WordInv, Relocated
<1> HIDE DEF rela, v
<1>5. /\ offset[v] \in Nat /\ offset[v] >= object.size /\ offset[v] + varLength <= content.len
      /\ {offset[v], offset[v] + varLength - 8} \subseteq DOMAIN content.word
      /\ object.arch = "arm64" => offset[v] % 4 = 0
  BY <1>1, <1>2, <1>3 DEF RoomInv
<1>6. memory[StartAddress + rela.off] = WordFor(offset[v] - rela.off + rela.addend)
  <2>1. rela.off < object.size
    BY <1>2
  <2>. QED
    BY <1>4, <2>1 DEF ImageAt, TextAt
<1>7. /\ Pointer(StartAddress, v) \in DOMAIN memory /\ Place(StartAddress, v) \in DOMAIN memory
  <2>1. Place(StartAddress, v) = StartAddress + (offset[v] + varLength - 8)
    BY <1>1, <1>5 DEF Place
  <2>. QED
    BY <1>5, <2>1 DEF ImageAt, TextAt, Pointer
<1>8. memory[Place(StartAddress, v)] = value[v]
  BY <1>3 DEF ImageAt
<1>9. CASE object.arch # "arm64"
  <2>1. StartAddress + rela.off - rela.addend + (offset[v] - rela.off + rela.addend)
          = Place(StartAddress, v)
    <3>1. varLength = 8
      BY <1>1, <1>9
    <3>2. rela.off \in Int /\ rela.addend \in Int
      BY <1>2
    <3>3. offset[v] \in Int
      BY <1>5
    <3>. QED
      BY <3>1, <3>2, <3>3 DEF Place
  <2>2. memory[StartAddress + rela.off] = offset[v] - rela.off + rela.addend
    BY <1>6, <1>9 DEF WordFor
  <2>3. Loaded(memory, StartAddress, rela) = memory[Place(StartAddress, v)]
    BY <1>7, <1>9, <2>1, <2>2 DEF Loaded, At
  <2>. QED
    BY <1>3, <1>8, <2>3 DEF rela, v
<1>10. CASE object.arch = "arm64"
  <2> DEFINE target == offset[v] - rela.off
             word == memory[StartAddress + rela.off]
  <2>1. target \in Nat /\ target < 2 ^ 20 /\ target % 4 = 0
    <3>1. Cardinality(DOMAIN offset) \in Nat /\ Cardinality(DOMAIN offset) <= Len(object.relocs)
      BY <1>1, FS_CardinalityType DEF RoomInv
    <3>2. content.len <= object.size + 16 * Len(object.relocs)
      <4>1. content.len = object.size + varLength * Cardinality(DOMAIN offset)
        BY <1>1 DEF RoomInv
      <4>2. varLength = 16
        BY <1>1, <1>10
      <4>. QED
        BY <1>1, <1>2, <3>1, <4>1, <4>2
    <3>3. offset[v] < 2 ^ 20
      <4>1. object.size + 16 * Len(object.relocs) < 2 ^ 20 /\ 2 ^ 20 \in Nat
        BY <1>2, <1>10
      <4>2. offset[v] < content.len /\ offset[v] \in Nat
        BY <1>1, <1>5
      <4>3. content.len < 2 ^ 20
        BY <1>1, <1>2, <3>2, <4>1
      <4> HIDE DEF v
      <4>. QED
        BY <1>1, <4>1, <4>2, <4>3
    <3>4. /\ offset[v] \in Nat /\ rela.off \in Nat /\ rela.off < offset[v]
          /\ offset[v] % 4 = 0 /\ rela.off % 4 = 0
      BY <1>2, <1>5, <1>10
    <3>5. target \in Nat /\ target < 2 ^ 20
      BY <3>3, <3>4
    <3>6. target % 4 = 0
      BY <3>4
    <3>. QED
      BY <3>5, <3>6
  <2>2. word = (target \div 4) % 2 ^ 19
    BY <1>2, <1>5, <1>6, <1>10 DEF WordFor
  <2>3. word < 2 ^ 18 /\ 4 * word = target
    <3> HIDE DEF target, word
    <3>. QED
      BY <2>1, <2>2
  <2>4. StartAddress + rela.off + 4 * word = Pointer(StartAddress, v)
    BY <1>2, <1>5, <2>3 DEF Pointer
  <2>5. memory[Pointer(StartAddress, v)] = Place(StartAddress, v)
    BY <1>3, <1>10 DEF ImageAt
  <2>6. Loaded(memory, StartAddress, rela) = memory[Place(StartAddress, v)]
    BY <1>7, <1>10, <2>3, <2>4, <2>5 DEF Loaded, At
  <2>. QED
    BY <1>3, <1>8, <2>6 DEF rela, v
<1>. QED
  BY <1>3, <1>9, <1>10 DEF rela, v

\* The image is found again, whatever the values of its variables.
LEMMA FoundAgain ==
  ASSUME LayoutInv, loading = "done", NEW StartAddress \in Nat,
         NEW memory, TextAt(memory, StartAddress)
  PROVE  FindInjectedImage(memory, StartAddress, Cardinality(DOMAIN offset))
<1>1. /\ RoomInv /\ object.size \in Nat /\ varLength \in {8, 16}
      /\ DOMAIN content.word \subseteq 0..content.len - 4 /\ content.len \in Nat
  BY ObjectAssumption DEF LayoutInv, varLength
<1>2. Cardinality(DOMAIN offset) \in Nat
  BY <1>1, FS_CardinalityType DEF RoomInv
<1>3. content.len - VariablePart(Cardinality(DOMAIN offset)) = object.size
  BY <1>1, <1>2 DEF VariablePart, RoomInv
<1>. QED
  BY <1>3 DEF FindInjectedImage, TextAt
=============================================================================
