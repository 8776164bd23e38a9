------------------------------ MODULE ImageLayout ------------------------------
(***************************************************************************)
(* LoadFakeImageFromEmbedFs and AssetLD, which make an image from an       *)
(* object file of the C compiler: room for every variable is appended to   *)
(* the text, and the load that refers to it is changed to find it there.   *)
(* On arm64 the load finds a pointer, which has to be set together with    *)
(* the variable.                                                           *)
(*                                                                         *)
(* Of the text only the words that are relocated are kept, of an           *)
(* instruction only its offset.                                            *)
(***************************************************************************)
EXTENDS Integers, Sequences

CONSTANT Objects  \* object files: the architecture, the function and its variables,
                  \* the bytes of the text and the entries of .rela.text, in their order

NoSymbol == "none"   \* symNo = 0

\* The compiler loads a variable once (asset_linux_amd64.go and asset_linux_arm64.go
\* show such files); the literal of a load is a word of the text on arm64, at most 1 MB
\* away, and ends 4 to 8 bytes before the next instruction on amd64.
ASSUME ObjectAssumption ==
  \A o \in Objects :
    /\ o.arch \in {"amd64", "arm64"} /\ o.size \in Nat
    /\ o.relocs \in Seq([off : Nat, sym : STRING, addend : Int])
    /\ \A k \in DOMAIN o.relocs :
         LET rela == o.relocs[k] IN
         /\ rela.off \in 0..o.size - 4
         /\ o.arch = "amd64" => rela.addend \in -8..-4
         /\ o.arch = "arm64" => rela.off % 4 = 0 /\ rela.addend = 0
         /\ \A l \in 1..k - 1 :
              /\ o.relocs[l].off # rela.off
              /\ o.relocs[l].sym = rela.sym => rela.sym = NoSymbol
    /\ o.arch = "arm64" => o.size % 4 = 0 /\ o.size + 16 * Len(o.relocs) < 2 ^ 20

VARIABLES
  object,    \* the file that is loaded
  loading,   \* control of LoadFakeImageFromEmbedFs
  entry,     \* entries of .rela.text that have been read
  content,   \* imageContent: its length, and its words by their place
  offset     \* imageOffset: the place of every variable

imageVars == <<object, loading, entry, content, offset>>

ImageInit ==
  /\ object \in Objects
  /\ loading = "text" /\ entry = 0
  /\ content = [len |-> 0, word |-> <<>>] /\ offset = <<>>

\* A variable, on arm64 behind a pointer to it.
varLength == IF object.arch = "arm64" THEN 16 ELSE 8

Relocated == {object.relocs[k].off : k \in DOMAIN object.relocs}

ReadText ==
  /\ loading = "text"
  /\ content' = [len |-> object.size, word |-> [k \in Relocated |-> 0]]
  /\ loading' = "rela"
  /\ UNCHANGED <<object, entry, offset>>

\* What is put into the instruction: the distance to the end of the image, or 19 bits of
\* it in words.
Displacement(rela) ==
  LET target == content.len - rela.off + rela.addend
  IN IF object.arch = "arm64" THEN (target \div 4) % 2 ^ 19 ELSE target

AssetLD ==
  LET rela == object.relocs[entry + 1]
      room == {content.len + 8 * k : k \in 0..varLength \div 8 - 1}
  IN /\ loading = "rela" /\ entry < Len(object.relocs) /\ rela.sym # NoSymbol
     /\ offset' = [v \in DOMAIN offset \cup {rela.sym} |->
                     IF v = rela.sym THEN content.len ELSE offset[v]]
     /\ content' = [len  |-> content.len + varLength,
                    word |-> [k \in DOMAIN content.word \cup room |->
                                IF k = rela.off THEN Displacement(rela)
                                ELSE IF k \in room THEN 0 ELSE content.word[k]]]
     /\ entry' = entry + 1
     /\ UNCHANGED <<object, loading>>

SkipEntry ==
  /\ loading = "rela" /\ entry < Len(object.relocs)
  /\ object.relocs[entry + 1].sym = NoSymbol
  /\ entry' = entry + 1
  /\ UNCHANGED <<object, loading, content, offset>>

LoadDone ==
  /\ loading = "rela" /\ entry = Len(object.relocs)
  /\ loading' = "done"
  /\ UNCHANGED <<object, entry, content, offset>>

LoadFakeImageFromEmbedFs == ReadText \/ AssetLD \/ SkipEntry \/ LoadDone

(***************************************************************************)
(* The image in the target, at StartAddress: memory by address             *)
(***************************************************************************)

Mapped(StartAddress) ==
  [a \in {StartAddress + k : k \in DOMAIN content.word} |-> content.word[a - StartAddress]]

\* Where a variable is, and on arm64 the pointer to it.
Place(StartAddress, v) == StartAddress + offset[v] + varLength - 8
Pointer(StartAddress, v) == StartAddress + offset[v]

\* SetVarUint64 of every variable.
SetVars(memory, StartAddress, value) ==
  LET at(v) == Place(StartAddress, v)
      pointing(v) == Pointer(StartAddress, v)
  IN [a \in DOMAIN memory |->
        IF \E v \in DOMAIN value : a = at(v)
          THEN value[CHOOSE v \in DOMAIN value : a = at(v)]
        ELSE IF object.arch = "arm64" /\ \E v \in DOMAIN value : a = pointing(v)
          THEN at(CHOOSE v \in DOMAIN value : a = pointing(v))
        ELSE memory[a]]

\* Mutant of VariablePart: a pointer is not counted.
VariablePartInWords(varNum) == 8 * varNum

VariablePart(varNum) == varLength * varNum

\* FindInjectedImage compares the mapping with the image, but for the variables.
FindInjectedImage(memory, StartAddress, varNum) ==
  \A k \in DOMAIN content.word :
    k < content.len - VariablePart(varNum) => memory[StartAddress + k] = content.word[k]

\* Memory other than the words that are kept is the text, shown as 0.
At(memory, address) == IF address \in DOMAIN memory THEN memory[address] ELSE 0

\* What the processor loads.  The word on amd64 counts from the next instruction, the
\* one on arm64 from itself, with a sign, to a pointer.
Loaded(memory, StartAddress, rela) ==
  LET word == memory[StartAddress + rela.off]
      literal == StartAddress + rela.off
                   + 4 * (IF word < 2 ^ 18 THEN word ELSE word - 2 ^ 19)
  IN IF object.arch = "arm64" THEN At(memory, At(memory, literal))
     ELSE At(memory, StartAddress + rela.off - rela.addend + word)

(***************************************************************************)
(* Properties                                                              *)
(***************************************************************************)

\* Words of the content lie inside it, and so does every variable.
ImageTypeOK ==
  /\ object \in Objects /\ loading \in {"text", "rela", "done"}
  /\ entry \in 0..Len(object.relocs)
  /\ DOMAIN content.word \subseteq 0..content.len - 4
  /\ \A v \in DOMAIN offset : offset[v] \in object.size..content.len - varLength
=============================================================================
