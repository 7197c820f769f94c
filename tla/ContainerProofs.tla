--------------------------- MODULE ContainerProofs ---------------------------
(***************************************************************************)
(* The three memories that the interpreter manages by hand, for every      *)
(* capacity and size.  An array stays within its list and implements the   *)
(* sequence of what was added to it; so does the string buffer, but for    *)
(* long texts and numbers at its end, the only ones that overrun it; how   *)
(* far the value stack is overrun is limited, and direct recursion caught. *)
(***************************************************************************)
EXTENDS Arrays, Buffers, Stack, SequenceTheorems, TLAPS

-----------------------------------------------------------------------------
(* Arrays                                                                  *)

ArrayInv == ArrayTypeOK /\ NoOverrun

USE CapacityAssumption, MaxSizeAssumption

\* The longer list has room for one more and holds what the old one did.
LEMMA GrownList ==
    ASSUME ArrayInv
    PROVE  /\ Grown \in [0..2 * capacity - 1 -> Values \cup {Garbage}]
           /\ \A i \in 0..capacity - 1 : Grown[i] = block[i]
           /\ size \in 0..2 * capacity - 1 /\ 2 * capacity \in Nat \ {0}
  BY DEF ArrayInv, ArrayTypeOK, NoOverrun, Grown

\* To add keeps the list sound whenever the room considered is in the list.
LEMMA AddKeeps ==
    ASSUME ArrayInv, NEW room \in Int, room <= capacity, NEW v \in Values, AddWithin(room, v)
    PROVE  /\ ArrayInv'
           /\ \A i \in 0..size - 1 : block'[i] = block[i]
           /\ block'[size] = v /\ size' = size + 1 /\ answer' = None /\ UNCHANGED <<overrun, fixed>>
<1>1. CASE size < room
  <2>1. /\ size \in DOMAIN block /\ block' = [block EXCEPT ![size] = v]
        /\ UNCHANGED <<overrun, capacity, fixed>> /\ size' = size + 1 /\ answer' = None /\ size < MaxSize
    BY <1>1 DEF AddWithin, Store, ArrayInv, ArrayTypeOK, NoOverrun
  <2> QED BY <2>1 DEF ArrayInv, ArrayTypeOK, NoOverrun
<1>2. CASE ~(size < room)
  <2>1. /\ size \in DOMAIN Grown /\ block' = [Grown EXCEPT ![size] = v]
        /\ UNCHANGED <<overrun, fixed>> /\ size' = size + 1 /\ answer' = None /\ size < MaxSize
        /\ capacity' = 2 * capacity
    BY <1>2, GrownList DEF AddWithin, Store
  <2>2. \A i \in 0..size - 1 : block'[i] = block[i]
    BY <2>1, GrownList DEF ArrayInv, ArrayTypeOK, NoOverrun
  <2> QED BY <2>1, <2>2, GrownList DEF ArrayInv, ArrayTypeOK, NoOverrun
<1> QED BY <1>1, <1>2

\* Add and AddVal store the value behind the others and nothing else.
LEMMA EveryAddKeeps ==
    ASSUME ArrayInv, NEW v \in Values, Add(v) \/ AddVal(v)
    PROVE  /\ ArrayInv'
           /\ \A i \in 0..size - 1 : block'[i] = block[i]
           /\ block'[size] = v /\ size' = size + 1 /\ answer' = None /\ UNCHANGED <<overrun, fixed>>
<1>1. capacity \in Int BY DEF ArrayInv, ArrayTypeOK
<1>2. CASE Add(v)
  BY <1>1, <1>2, AddKeeps DEF Add, RoomOfAdd
<1>3. CASE AddVal(v)
  BY <1>1, <1>3, AddKeeps DEF AddVal, RoomOfAddVal
<1> QED BY <1>2, <1>3

\* To set stores within the list.
LEMMA ArraySetKeeps ==
    ASSUME ArrayInv, NEW n \in Indices, NEW v \in Values, Set(n, v)
    PROVE  ArrayInv' /\ (InBounds(n) => block' = [block EXCEPT ![n] = v])
<1>1. CASE InBounds(n)
  <2>1. n \in 0..size - 1 /\ n \in DOMAIN block
    BY <1>1 DEF InBounds, ArrayInv, ArrayTypeOK, NoOverrun, Indices
  <2>2. block' = [block EXCEPT ![n] = v] /\ UNCHANGED <<size, capacity, overrun, fixed>>
    BY <1>1, <2>1 DEF Set, Store
  <2> QED BY <2>1, <2>2 DEF ArrayInv, ArrayTypeOK, NoOverrun
<1>2. CASE ~InBounds(n)
  BY <1>2 DEF Set, ArrayInv, ArrayTypeOK, NoOverrun
<1> QED BY <1>1, <1>2

LEMMA ArrayInitInv == ArrayInit => ArrayInv
<1> SUFFICES ASSUME ArrayInit PROVE ArrayInv
  OBVIOUS
<1>1. block \in [0..capacity - 1 -> Values \cup {Garbage}] BY DEF ArrayInit
<1>2. size \in 0..MaxSize /\ capacity \in Nat \ {0} /\ size = 0 /\ size <= capacity BY DEF ArrayInit
<1>3. \A i \in 0..size - 1 : block[i] \in Values BY <1>2
<1>4. overrun = FALSE /\ fixed = FALSE BY DEF ArrayInit
<1> QED BY <1>1, <1>2, <1>3, <1>4 DEF ArrayInv, ArrayTypeOK, NoOverrun

LEMMA ArrayNextInv == ArrayInv /\ [ArrayNext]_arrayVars => ArrayInv'
<1> SUFFICES ASSUME ArrayInv, [ArrayNext]_arrayVars PROVE ArrayInv'
  OBVIOUS
<1>1. ASSUME NEW v \in Values, Add(v) \/ AddVal(v) PROVE ArrayInv'
  BY <1>1, EveryAddKeeps
<1>2. CASE Pop
  BY <1>2 DEF Pop, ArrayInv, ArrayTypeOK, NoOverrun
<1>3. ASSUME NEW n \in Indices, Get(n) PROVE ArrayInv'
  BY <1>3 DEF Get, ArrayInv, ArrayTypeOK, NoOverrun
<1>4. ASSUME NEW n \in Indices, NEW v \in Values, Set(n, v) PROVE ArrayInv'
  BY <1>4, ArraySetKeeps
<1>5. CASE MakeVector
  BY <1>5 DEF MakeVector, ArrayInv, ArrayTypeOK, NoOverrun
<1>6. CASE UNCHANGED arrayVars
  BY <1>6 DEF arrayVars, ArrayInv, ArrayTypeOK, NoOverrun
<1> QED BY <1>1, <1>2, <1>3, <1>4, <1>5, <1>6 DEF ArrayNext

\* The list keeps its kind: below size it holds what was stored.
THEOREM ArraysTyped == ArraySpec => []ArrayTypeOK
<1>1. ArrayInv => ArrayTypeOK BY DEF ArrayInv
<1> QED BY ArrayInitInv, ArrayNextInv, <1>1, PTL DEF ArraySpec

\* No operation stores outside the list, whatever the capacity is at first.
THEOREM ArraysNeverOverrun == ArraySpec => []NoOverrun
<1>1. ArrayInv => NoOverrun BY DEF ArrayInv
<1> QED BY ArrayInitInv, ArrayNextInv, <1>1, PTL DEF ArraySpec

-----------------------------------------------------------------------------
(* The refinement.                                                         *)

LEMMA ArrayInitRefined == ArrayInit => AC!Init
<1> SUFFICES ASSUME ArrayInit PROVE AC!Init
  OBVIOUS
<1>1. contents = <<>> BY DEF ArrayInit, contents
<1> QED BY <1>1 DEF ArrayInit, AC!Init, None, AC!None

\* The elements are the stored values in their order.
LEMMA ArrayContentsType ==
    ASSUME ArrayInv
    PROVE  /\ contents \in Seq(Values) /\ Len(contents) = size
           /\ \A i \in 1..size : contents[i] = block[i - 1]
  BY DEF ArrayInv, ArrayTypeOK, contents

LEMMA AddRefined ==
    ASSUME ArrayInv, NEW v \in Values, Add(v) \/ AddVal(v)
    PROVE  AC!Extend(<<v>>)
<1>1. ~fixed BY DEF Add, AddVal
<1>2. ArrayInv' /\ ArrayInv BY EveryAddKeeps
<1>3. contents' = contents \o <<v>>
  <2>1. /\ Len(contents') = size + 1 /\ contents' \in Seq(Values)
        /\ \A i \in 1..size + 1 : contents'[i] = block'[i - 1]
    <3>1. /\ contents' \in Seq(Values) /\ Len(contents') = size'
          /\ \A i \in 1..size' : contents'[i] = block'[i - 1]
      BY <1>2 DEF ArrayInv, ArrayTypeOK, contents
    <3> QED BY <3>1, EveryAddKeeps
  <2>2. \A i \in 1..size + 1 : contents'[i] = IF i <= size THEN contents[i] ELSE v
    <3> TAKE i \in 1..size + 1
    <3>1. size \in Nat BY DEF ArrayInv, ArrayTypeOK
    <3>2. CASE i <= size
      <4>1. i \in 1..size /\ i - 1 \in 0..size - 1 BY <3>1, <3>2
      <4> QED BY <4>1, <2>1, <3>1, <3>2, EveryAddKeeps, ArrayContentsType
    <3>3. CASE ~(i <= size)
      <4>1. i - 1 = size BY <3>1, <3>3
      <4> QED BY <4>1, <2>1, <3>3, EveryAddKeeps
    <3> QED BY <3>2, <3>3
  <2>3. contents \in Seq(Values) /\ <<v>> \in Seq(Values) /\ Len(contents) = size /\ Len(<<v>>) = 1
        /\ <<v>>[1] = v /\ size \in Nat
    BY ArrayContentsType DEF ArrayInv, ArrayTypeOK
  <2> DEFINE longer == contents \o <<v>>
  <2>4. /\ longer \in Seq(Values) /\ Len(longer) = size + 1
        /\ \A i \in 1..size + 1 : longer[i] = IF i <= size THEN contents[i] ELSE <<v>>[i - size]
    BY <2>3, ConcatProperties
  <2>5. \A i \in 1..size + 1 : contents'[i] = longer[i] BY <2>2, <2>3, <2>4
  <2> HIDE DEF longer
  <2>6. contents' = longer BY <2>1, <2>4, <2>5, SeqEqual
  <2> QED BY <2>6 DEF longer
<1> QED BY <1>1, <1>3, EveryAddKeeps DEF AC!Extend, None, AC!None

LEMMA PopRefined ==
    ASSUME ArrayInv, Pop
    PROVE  AC!TakeLast
<1>1. size \in Nat /\ Len(contents) = size BY ArrayContentsType DEF ArrayInv, ArrayTypeOK
<1>2. CASE size = 0
  <2>1. contents = <<>> BY <1>1, <1>2, ArrayContentsType
  <2>2. contents' = contents BY <1>2 DEF Pop, contents
  <2> QED BY <1>2, <2>1, <2>2 DEF Pop, AC!TakeLast, None, AC!None
<1>3. CASE size > 0
  <2>1. contents # <<>> /\ contents[Len(contents)] = block[size - 1]
    BY <1>1, <1>3, ArrayContentsType
  <2>2. contents' = SubSeq(contents, 1, Len(contents) - 1)
    <3>1. contents' = [i \in 1..size - 1 |-> block[i - 1]]
      BY <1>1, <1>3 DEF Pop, contents
    <3>2. SubSeq(contents, 1, size - 1) = [i \in 1..size - 1 |-> contents[i]]
      BY <1>1, <1>3, ArrayContentsType
    <3> QED BY <3>1, <3>2, <1>1, <1>3, ArrayContentsType
  <2> QED BY <1>1, <1>3, <2>1, <2>2 DEF Pop, AC!TakeLast
<1> QED BY <1>1, <1>2, <1>3

LEMMA BoundsAgree ==
    ASSUME ArrayInv, NEW n \in Indices
    PROVE  /\ InBounds(n) <=> n + 1 \in DOMAIN contents
           /\ InBounds(n) => contents[n + 1] = block[n]
  BY ArrayContentsType DEF InBounds, ArrayInv, ArrayTypeOK, Indices, contents

LEMMA SetRefined ==
    ASSUME ArrayInv, NEW n \in Indices, NEW v \in Values, Set(n, v)
    PROVE  AC!Write(n, v)
<1>1. CASE InBounds(n)
  <2>1. contents' = [contents EXCEPT ![n + 1] = v]
    <3>1. block' = [block EXCEPT ![n] = v] /\ size' = size /\ n \in 0..size - 1
      BY <1>1, ArraySetKeeps DEF Set, InBounds, ArrayInv, ArrayTypeOK, Indices
    <3>2. \A i \in 1..size : block'[i - 1] = IF i = n + 1 THEN v ELSE block[i - 1]
      BY <3>1 DEF ArrayInv, ArrayTypeOK, NoOverrun
    <3> QED BY <3>1, <3>2 DEF contents, ArrayInv, ArrayTypeOK
  <2>2. answer' = <<v>> /\ UNCHANGED <<overrun, fixed>>
    BY <1>1 DEF Set, Store, InBounds, ArrayInv, ArrayTypeOK, NoOverrun, Indices
  <2> QED BY <1>1, <2>1, <2>2, BoundsAgree DEF AC!Write
<1>2. CASE ~InBounds(n)
  <2>1. contents' = contents BY <1>2 DEF Set, contents
  <2> QED BY <1>2, <2>1, BoundsAgree DEF Set, AC!Write, Error, AC!Error
<1> QED BY <1>1, <1>2

LEMMA ArrayNextRefined == ArrayInv /\ [ArrayNext]_arrayVars => [AC!Next]_(AC!cvars)
<1> SUFFICES ASSUME ArrayInv, [ArrayNext]_arrayVars PROVE [AC!Next]_(AC!cvars)
  OBVIOUS
<1> DEFINE Added == {<<v>> : v \in Values}
<1>0. ~overrun BY DEF ArrayInv, NoOverrun
<1>1. ASSUME NEW v \in Values, Add(v) \/ AddVal(v) PROVE AC!Next
  BY <1>0, <1>1, AddRefined DEF AC!Next
<1>2. CASE Pop
  BY <1>0, <1>2, PopRefined DEF AC!Next
<1>3. ASSUME NEW n \in Indices, Get(n) PROVE AC!Next
  <2>1. contents' = contents BY <1>3 DEF Get, contents
  <2>2. AC!Read(n) BY <1>3, <2>1, BoundsAgree DEF Get, AC!Read, Error, AC!Error
  <2> QED BY <1>0, <2>2 DEF AC!Next
<1>4. ASSUME NEW n \in Indices, NEW v \in Values, Set(n, v) PROVE AC!Next
  <2>1. AC!Write(n, v) BY <1>4, SetRefined
  <2>2. <<v>> \in Added /\ <<v>>[1] = v OBVIOUS
  <2> QED BY <1>0, <2>1, <2>2 DEF AC!Next
<1>5. CASE MakeVector
  <2>1. contents' = contents BY <1>5 DEF MakeVector, contents
  <2>2. AC!Fix BY <1>5, <2>1 DEF MakeVector, AC!Fix, None, AC!None
  <2> QED BY <1>0, <2>2 DEF AC!Next
<1>6. CASE UNCHANGED arrayVars
  BY <1>6 DEF arrayVars, AC!cvars, contents
<1> QED BY <1>1, <1>2, <1>3, <1>4, <1>5, <1>6 DEF ArrayNext

\* The array implements the sequence: what is read, popped or answered is what
\* was added or set there, through any number of times the list has grown.
THEOREM ArrayImplementsSequence == ArraySpec => ArrayIsSequence
  BY ArrayInitInv, ArrayNextInv, ArrayInitRefined, ArrayNextRefined, PTL DEF ArraySpec, ArrayIsSequence, AC!Spec

-----------------------------------------------------------------------------
(* String buffers                                                          *)

USE SpaceAssumption, MaxLengthAssumption, TextsAssumption

\* The capacity never falls below that of a new buffer.
BufferInv == BufferTypeOK /\ space >= InitialSpace

Bytes == Chars \cup {Junk, Nul}

\* memcpy changes the places of the text and no others.
LEMMA CopiedText ==
    ASSUME NEW room \in Nat, NEW list \in [0..room - 1 -> Bytes],
           NEW n \in Nat, NEW text \in Seq(Bytes)
    PROVE  /\ Copied(list, n, text) \in [0..room - 1 -> Bytes]
           /\ \A i \in 0..room - 1 :
                 /\ i < n => Copied(list, n, text)[i] = list[i]
                 /\ i \in n..n + Len(text) - 1 => Copied(list, n, text)[i] = text[i - n + 1]
<1>1. DOMAIN list = 0..room - 1 /\ Len(text) \in Nat OBVIOUS
<1>2. ASSUME NEW i \in 0..room - 1, i \in n..n + Len(text) - 1
      PROVE  text[i - n + 1] \in Bytes
  <2>1. i - n + 1 \in 1..Len(text) BY <1>2, <1>1
  <2> QED BY <2>1
<1> QED BY <1>1, <1>2 DEF Copied

\* The longer block holds what the old one did.
LEMMA GrownBlock ==
    ASSUME BufferInv
    PROVE  /\ Longer \in [0..2 * space - 1 -> Bytes]
           /\ \A i \in 0..space - 1 : Longer[i] = buffer[i]
           /\ 2 * space \in Nat \ {0} /\ 2 * space >= InitialSpace
  BY DEF BufferInv, BufferTypeOK, Longer, Bytes

\* What the text of the buffer is after a successful append.
Appended(text) ==
    /\ \A i \in 0..filled - 1 : buffer'[i] = buffer[i]
    /\ \A i \in 1..Len(text) : buffer'[filled + i - 1] = text[i]
    /\ filled' = filled + Len(text)

\* A block that agrees with the old one, into which the text is copied.
LEMMA CopyKeeps ==
    ASSUME BufferInv, ~spilled, NEW room \in Nat \ {0}, room >= InitialSpace,
           NEW list \in [0..room - 1 -> Bytes], space <= room,
           \A i \in 0..filled - 1 : list[i] = buffer[i],
           NEW text \in Seq(Chars), filled + Len(text) <= MaxLength,
           space' = room, buffer' = Copied(list, filled, text), filled' = filled + Len(text),
           spilled' = ~Fits(room, filled, text)
    PROVE  BufferInv' /\ (~spilled' => Appended(text))
<1>1. text \in Seq(Bytes) /\ Len(text) \in Nat /\ filled \in Nat BY DEF BufferInv, BufferTypeOK, Bytes
<1>2. buffer' \in [0..room - 1 -> Bytes] BY <1>1, CopiedText
<1>3. filled' \in 0..MaxLength BY <1>1
<1>4. spilled' \in BOOLEAN BY DEF Fits
<1>5. ASSUME ~spilled'
      PROVE  /\ filled' <= room /\ Appended(text)
             /\ \A i \in 0..filled' - 1 : buffer'[i] \in Chars
  <2>1. filled + Len(text) <= room BY <1>5 DEF Fits
  <2>2. \A i \in 0..filled - 1 : buffer'[i] = buffer[i]
    <3>1. \A i \in 0..room - 1 : i < filled => Copied(list, filled, text)[i] = list[i]
      BY <1>1, CopiedText
    <3>2. \A i \in 0..filled - 1 : i \in 0..room - 1 /\ i < filled BY <1>1, <2>1
    <3> QED BY <3>1, <3>2
  <2>3. \A i \in 1..Len(text) : buffer'[filled + i - 1] = text[i]
    <3> TAKE i \in 1..Len(text)
    <3>1. filled + i - 1 \in 0..room - 1 /\ filled + i - 1 \in filled..filled + Len(text) - 1
          /\ (filled + i - 1) - filled + 1 = i
      BY <1>1, <2>1
    <3> QED BY <1>1, <3>1, CopiedText
  <2>4. \A i \in 0..filled' - 1 : buffer'[i] \in Chars
    <3> TAKE i \in 0..filled' - 1
    <3>1. CASE i < filled
      BY <1>1, <2>2, <3>1 DEF BufferInv, BufferTypeOK
    <3>2. CASE i >= filled
      <4>1. i - filled + 1 \in 1..Len(text) /\ filled + (i - filled + 1) - 1 = i BY <1>1, <3>2
      <4>2. text[i - filled + 1] \in Chars BY <4>1
      <4> QED BY <2>3, <4>1, <4>2
    <3> QED BY <1>1, <3>1, <3>2
  <2> QED BY <2>1, <2>2, <2>3, <2>4 DEF Appended
<1> QED BY <1>2, <1>3, <1>4, <1>5 DEF BufferInv, BufferTypeOK, Bytes

\* A block of this capacity that agrees with the old one on the text.
Agrees(list) == list \in [0..space - 1 -> Bytes] /\ \A i \in 0..filled - 1 : list[i] = buffer[i]

\* A string is appended, or it overruns a buffer that is too short even when
\* it is twice as long.
LEMMA PlaceKeeps ==
    ASSUME BufferInv, ~spilled, NEW list, Agrees(list), NEW text \in Seq(Chars),
           filled + Len(text) <= MaxLength, Place(list, text)
    PROVE  /\ BufferInv'
           /\ ~spilled' => Appended(text)
           /\ spilled' => Len(text) > space
<1>1. Len(text) \in Nat /\ filled \in Nat /\ space \in Nat \ {0} /\ filled <= space
      /\ space >= InitialSpace
  BY DEF BufferInv, BufferTypeOK
<1>2. CASE Fits(space, filled, text)
  <2>1. /\ space' = space /\ filled' = filled + Len(text) /\ buffer' = Copied(list, filled, text)
        /\ spilled' = ~Fits(space, filled, text)
    BY <1>2 DEF Place
  <2>2. list \in [0..space - 1 -> Bytes] /\ \A i \in 0..filled - 1 : list[i] = buffer[i]
    BY DEF Agrees
  <2>3. BufferInv' /\ (~spilled' => Appended(text))
    BY <1>1, <2>1, <2>2, CopyKeeps
  <2>4. ~spilled' BY <1>2, <2>1
  <2> QED BY <2>3, <2>4
<1>3. CASE ~Fits(space, filled, text)
  <2>1. /\ space' = 2 * space /\ filled' = filled + Len(text) /\ buffer' = Copied(Longer, filled, text)
        /\ spilled' = ~Fits(2 * space, filled, text)
    BY <1>3 DEF Place
  <2>2. \A i \in 0..filled - 1 : Longer[i] = buffer[i] BY <1>1, GrownBlock
  <2>3. space <= 2 * space BY <1>1
  <2>4. BufferInv' /\ (~spilled' => Appended(text))
    BY <2>1, <2>2, <2>3, GrownBlock, CopyKeeps
  <2>5. ASSUME spilled' PROVE Len(text) > space
    <3>1. ~Fits(2 * space, filled, text) BY <2>1, <2>5
    <3> QED BY <1>1, <3>1 DEF Fits
  <2> QED BY <2>4, <2>5
<1> QED BY <1>2, <1>3

LEMMA OldAgrees == BufferInv => Agrees(buffer)
  BY DEF BufferInv, BufferTypeOK, Agrees, Bytes

\* Append_s breaks only with texts longer than the buffer.
LEMMA StringKeeps ==
    ASSUME BufferInv, ~spilled, NEW text \in Texts, Append_s(text)
    PROVE  BufferInv' /\ (~spilled' => Appended(text)) /\ (spilled' => Len(text) > InitialSpace)
<1>1. text \in Seq(Chars) /\ Len(text) \in Nat OBVIOUS
<1>2. BufferInv' /\ (~spilled' => Appended(text)) /\ (spilled' => Len(text) > space)
  BY <1>1, OldAgrees, PlaceKeeps DEF Append_s
<1>3. space \in Nat /\ space >= InitialSpace BY DEF BufferInv, BufferTypeOK
<1> QED BY <1>1, <1>2, <1>3

\* Append_c never breaks.
LEMMA CharKeeps ==
    ASSUME BufferInv, ~spilled, NEW c \in Chars, Append_c(c)
    PROVE  BufferInv' /\ ~spilled' /\ Appended(<<c>>)
<1>1. filled \in Nat /\ space \in Nat \ {0} /\ filled <= space /\ filled < MaxLength
      /\ space >= InitialSpace
  BY DEF BufferInv, BufferTypeOK, Append_c
<1>2. <<c>> \in Seq(Chars) /\ Len(<<c>>) = 1 OBVIOUS
<1>3. CASE NeedsRoom
  <2>1. /\ space' = 2 * space /\ buffer' = Copied(Longer, filled, <<c>>)
        /\ spilled' = ~Fits(2 * space, filled, <<c>>) /\ filled' = filled + Len(<<c>>)
    BY <1>2, <1>3 DEF Append_c
  <2>2. Fits(2 * space, filled, <<c>>) BY <1>1, <1>2 DEF Fits
  <2>3. \A i \in 0..filled - 1 : Longer[i] = buffer[i] BY <1>1, GrownBlock
  <2>4. space <= 2 * space /\ filled + Len(<<c>>) <= MaxLength BY <1>1, <1>2
  <2> QED BY <1>2, <2>1, <2>2, <2>3, <2>4, GrownBlock, CopyKeeps
<1>4. CASE ~NeedsRoom
  <2>1. /\ space' = space /\ buffer' = Copied(buffer, filled, <<c>>)
        /\ spilled' = ~Fits(space, filled, <<c>>) /\ filled' = filled + Len(<<c>>)
    BY <1>2, <1>4 DEF Append_c
  <2>2. Fits(space, filled, <<c>>) BY <1>1, <1>2, <1>4 DEF Fits, NeedsRoom
  <2>3. filled + Len(<<c>>) <= MaxLength BY <1>1, <1>2
  <2>4. buffer \in [0..space - 1 -> Bytes] /\ \A i \in 0..filled - 1 : buffer[i] = buffer[i]
    BY OldAgrees DEF Agrees
  <2>5. ~spilled' BY <2>1, <2>2
  <2>6. <<c>> \in Seq(Chars) /\ space \in Nat \ {0} /\ space >= InitialSpace /\ space <= space
    BY <1>1 DEF BufferInv, BufferTypeOK
  <2> DEFINE text == <<c>>
             list == buffer
             room == space
  <2>7. /\ room \in Nat \ {0} /\ room >= InitialSpace /\ space <= room
        /\ list \in [0..room - 1 -> Bytes] /\ \A i \in 0..filled - 1 : list[i] = buffer[i]
        /\ text \in Seq(Chars) /\ filled + Len(text) <= MaxLength
    BY <2>3, <2>4, <2>6
  <2>8. /\ space' = room /\ buffer' = Copied(list, filled, text) /\ filled' = filled + Len(text)
        /\ spilled' = ~Fits(room, filled, text)
    BY <2>1
  <2> HIDE DEF text, list, room
  <2>9. BufferInv' /\ (~spilled' => Appended(text)) BY <2>7, <2>8, CopyKeeps
  <2> QED BY <2>5, <2>9 DEF text
<1> QED BY <1>3, <1>4

\* A number breaks the buffer when it and its NUL do not fit behind the text.
LEMMA NumberKeeps ==
    ASSUME BufferInv, ~spilled, NEW text \in Numerals, AppendNumber(text)
    PROVE  BufferInv' /\ (~spilled' => Appended(text)) /\ (spilled' => filled + Len(text) >= space)
<1> DEFINE written == Append(text, Nul)
<1>1. text \in Seq(Chars) /\ Len(text) \in Nat /\ filled \in Nat /\ space \in Nat \ {0}
      /\ filled + Len(text) <= MaxLength
  BY DEF BufferInv, BufferTypeOK, AppendNumber
<1>2. written \in Seq(Bytes) /\ Len(written) = Len(text) + 1
  <2>1. text \in Seq(Bytes) /\ Nul \in Bytes BY <1>1 DEF Bytes
  <2> QED BY <2>1
<1>3. CASE Fits(space, filled, written)
  <2>1. Agrees(Copied(buffer, filled, written))
    <3>1. buffer \in [0..space - 1 -> Bytes] /\ filled <= space
      BY DEF BufferInv, BufferTypeOK, Bytes
    <3> HIDE DEF written
    <3>2. /\ Copied(buffer, filled, written) \in [0..space - 1 -> Bytes]
          /\ \A i \in 0..space - 1 : i < filled => Copied(buffer, filled, written)[i] = buffer[i]
      BY <1>1, <1>2, <3>1, CopiedText
    <3>3. \A i \in 0..filled - 1 : i \in 0..space - 1 /\ i < filled BY <1>1, <3>1
    <3> QED BY <3>2, <3>3 DEF Agrees
  <2>2. Place(Copied(buffer, filled, written), text) BY <1>3 DEF AppendNumber
  <2>3. Fits(space, filled, text) BY <1>1, <1>2, <1>3 DEF Fits
  <2>4. ~spilled' BY <2>2, <2>3 DEF Place
  <2> QED BY <1>1, <2>1, <2>2, <2>4, PlaceKeeps
<1>4. CASE ~Fits(space, filled, written)
  <2>1. spilled' = TRUE /\ UNCHANGED <<buffer, filled, space>> BY <1>4 DEF AppendNumber
  <2>2. filled + Len(text) >= space BY <1>1, <1>2, <1>4 DEF Fits
  <2> QED BY <2>1, <2>2 DEF BufferInv, BufferTypeOK
<1> QED BY <1>3, <1>4

LEMMA BufferInitInv == BufferInit => BufferInv
<1> SUFFICES ASSUME BufferInit PROVE BufferInv
  OBVIOUS
<1>1. buffer \in [0..space - 1 -> Bytes] BY DEF BufferInit, Bytes
<1>2. filled \in 0..MaxLength /\ space \in Nat \ {0} /\ filled = 0 /\ filled <= space
      /\ space >= InitialSpace
  BY DEF BufferInit
<1>3. \A i \in 0..filled - 1 : buffer[i] \in Chars BY <1>2
<1>4. spilled = FALSE BY DEF BufferInit
<1> QED BY <1>1, <1>2, <1>3, <1>4 DEF BufferInv, BufferTypeOK, Bytes

LEMMA BufferNextInv == BufferInv /\ [BufferNext]_bufferVars => BufferInv'
<1> SUFFICES ASSUME BufferInv, [BufferNext]_bufferVars PROVE BufferInv'
  OBVIOUS
<1>1. CASE BufferNext
  <2>1. ~spilled BY <1>1 DEF BufferNext
  <2>2. ASSUME NEW text \in Texts, Append_s(text) PROVE BufferInv' BY <2>1, <2>2, StringKeeps
  <2>3. ASSUME NEW c \in Chars, Append_c(c) PROVE BufferInv' BY <2>1, <2>3, CharKeeps
  <2>4. ASSUME NEW text \in Numerals, AppendNumber(text) PROVE BufferInv' BY <2>1, <2>4, NumberKeeps
  <2>5. CASE ToString BY <2>5 DEF ToString, BufferInv, BufferTypeOK
  <2> QED BY <1>1, <2>2, <2>3, <2>4, <2>5 DEF BufferNext
<1>2. CASE UNCHANGED bufferVars BY <1>2 DEF bufferVars, BufferInv, BufferTypeOK
<1> QED BY <1>1, <1>2

\* The block keeps its kind, and the text is in it while it is not overrun.
THEOREM BuffersTyped == BufferSpec => []BufferTypeOK
<1>1. BufferInv => BufferTypeOK BY DEF BufferInv
<1> QED BY BufferInitInv, BufferNextInv, <1>1, PTL DEF BufferSpec

\* A buffer is overrun only by a string longer than a new buffer, or by a
\* number that ends in the last place of the buffer or beyond.
THEOREM BufferOverruns == BufferSpec => OverrunsOnly
<1> DEFINE Broken ==
        \/ \E text \in Texts : Append_s(text) /\ Len(text) > InitialSpace
        \/ \E text \in Numerals : AppendNumber(text) /\ filled + Len(text) >= space
<1>1. BufferInv /\ [BufferNext]_bufferVars => [spilled' => Broken]_bufferVars
  <2> SUFFICES ASSUME BufferInv, BufferNext, spilled' PROVE Broken
    OBVIOUS
  <2>1. ~spilled BY DEF BufferNext
  <2>2. ASSUME NEW text \in Texts, Append_s(text) PROVE Broken
    BY <2>1, <2>2, StringKeeps
  <2>3. ASSUME NEW c \in Chars, Append_c(c) PROVE FALSE
    BY <2>1, <2>3, CharKeeps
  <2>4. ASSUME NEW text \in Numerals, AppendNumber(text) PROVE Broken
    BY <2>1, <2>4, NumberKeeps
  <2>5. CASE ToString BY <2>1, <2>5 DEF ToString
  <2> QED BY <2>2, <2>3, <2>4, <2>5 DEF BufferNext
<1> QED BY BufferInitInv, BufferNextInv, <1>1, PTL DEF BufferSpec, OverrunsOnly

-----------------------------------------------------------------------------
(* The refinement.                                                         *)


LEMMA BufferContentsType ==
    ASSUME BufferInv, ~spilled
    PROVE  /\ appended \in Seq(Chars) /\ Len(appended) = filled
           /\ \A i \in 1..filled : appended[i] = buffer[i - 1]
  BY DEF BufferInv, BufferTypeOK, appended

LEMMA ExtendRefined ==
    ASSUME BufferInv, BufferInv', ~spilled, ~spilled', NEW text \in Seq(Chars), Appended(text)
    PROVE  appended' = appended \o text
<1>1. /\ appended' \in Seq(Chars) /\ Len(appended') = filled'
      /\ \A i \in 1..filled' : appended'[i] = buffer'[i - 1]
  <2>1. filled' \in Nat /\ \A i \in 0..filled' - 1 : buffer'[i] \in Chars
    <3>1. BufferTypeOK' BY DEF BufferInv
    <3>2. filled' \in 0..MaxLength BY <3>1 DEF BufferTypeOK
    <3>3. \A i \in 0..filled' - 1 : buffer'[i] \in Chars BY <3>1 DEF BufferTypeOK
    <3>4. filled' \in Nat BY <3>2
    <3> QED BY <3>3, <3>4, Zenon
  <2>2. \A i \in 1..filled' : buffer'[i - 1] \in Chars
    <3> TAKE i \in 1..filled'
    <3>1. filled' \in Nat BY <2>1
    <3>2. \A n \in Nat : \A j \in 1..n : j - 1 \in 0..n - 1 OBVIOUS
    <3>3. i - 1 \in 0..filled' - 1 BY <3>1, <3>2
    <3> QED BY <2>1, <3>3
  <2>3. appended' = [i \in 1..filled' |-> buffer'[i - 1]] BY DEF appended
  <2> QED BY <2>1, <2>2, <2>3
<1>2. filled \in Nat /\ Len(text) \in Nat /\ filled' = filled + Len(text)
  BY DEF BufferInv, BufferTypeOK, Appended
<1>3. \A i \in 1..filled + Len(text) :
         appended'[i] = IF i <= filled THEN appended[i] ELSE text[i - filled]
  <2> TAKE i \in 1..filled + Len(text)
  <2>1. CASE i <= filled
    <3>1. i \in 1..filled /\ i - 1 \in 0..filled - 1 /\ i \in 1..filled' BY <1>2, <2>1
    <3> QED BY <1>1, <2>1, <3>1, BufferContentsType DEF Appended
  <2>2. CASE ~(i <= filled)
    <3>1. i - filled \in 1..Len(text) /\ filled + (i - filled) - 1 = i - 1 /\ i \in 1..filled'
      BY <1>2, <2>2
    <3> QED BY <1>1, <2>2, <3>1 DEF Appended
  <2> QED BY <2>1, <2>2
<1>4. /\ appended \o text \in Seq(Chars) /\ Len(appended \o text) = filled + Len(text)
      /\ \A i \in 1..filled + Len(text) :
            (appended \o text)[i] = IF i <= filled THEN appended[i] ELSE text[i - filled]
  <2>1. appended \in Seq(Chars) /\ Len(appended) = filled BY BufferContentsType
  <2> QED BY <2>1, ConcatProperties
<1>5. \A i \in 1..Len(appended') : appended'[i] = (appended \o text)[i]
  BY <1>1, <1>2, <1>3, <1>4
<1>6. appended' \in Seq(Chars) /\ Len(appended') = Len(appended \o text) BY <1>1, <1>2, <1>4
<1> QED BY <1>4, <1>5, <1>6, SeqEqual

LEMMA BufferNextRefined == BufferInv /\ BufferInv' /\ [BufferNext]_bufferVars => [BC!Next]_(BC!cvars)
<1> SUFFICES ASSUME BufferInv, BufferInv', [BufferNext]_bufferVars PROVE [BC!Next]_(BC!cvars)
  OBVIOUS
<1>1. ASSUME ~spilled, string' = NoString, spilled' PROVE BC!Next
  BY <1>1 DEF BC!Next, BC!Break, NoString, BC!None, BufferInv, BufferTypeOK
<1>2. ASSUME ~spilled, string' = NoString, ~spilled', NEW text \in Seq(Chars), Appended(text),
             text \in Texts \cup Numerals \cup {<<c>> : c \in Chars}
      PROVE  BC!Next
  <2>1. appended' = appended \o text BY <1>2, ExtendRefined
  <2>2. BC!Extend(text) BY <1>2, <2>1 DEF BC!Extend, NoString, BC!None, BufferInv, BufferTypeOK
  <2> QED BY <1>2, <2>2 DEF BC!Next
<1>3. ASSUME NEW text \in Texts, ~spilled, Append_s(text) PROVE BC!Next
  <2>1. text \in Seq(Chars) /\ string' = NoString BY <1>3 DEF Append_s
  <2> QED BY <1>1, <1>2, <1>3, <2>1, StringKeeps
<1>4. ASSUME NEW c \in Chars, ~spilled, Append_c(c) PROVE BC!Next
  <2>1. <<c>> \in Seq(Chars) /\ string' = NoString BY <1>4 DEF Append_c
  <2> QED BY <1>2, <1>4, <2>1, CharKeeps
<1>5. ASSUME NEW text \in Numerals, ~spilled, AppendNumber(text) PROVE BC!Next
  <2>1. text \in Seq(Chars) /\ string' = NoString BY <1>5 DEF AppendNumber
  <2> QED BY <1>1, <1>2, <1>5, <2>1, NumberKeeps
<1>6. ASSUME ~spilled, ToString PROVE BC!Next
  <2>1. appended' = appended /\ string' = <<appended>> /\ spilled' = spilled
    BY <1>6 DEF ToString, appended
  <2>2. BC!ReadAll BY <1>6, <2>1 DEF BC!ReadAll
  <2> QED BY <1>6, <2>2 DEF BC!Next
<1>7. CASE UNCHANGED bufferVars
  BY <1>7 DEF bufferVars, BC!cvars, appended
<1> QED BY <1>3, <1>4, <1>5, <1>6, <1>7 DEF BufferNext

LEMMA BufferInitRefined == BufferInit => BC!Init
<1> SUFFICES ASSUME BufferInit PROVE BC!Init
  OBVIOUS
<1>1. appended = <<>> BY DEF BufferInit, appended
<1> QED BY <1>1 DEF BufferInit, BC!Init, NoString, BC!None

\* Until it is overrun the buffer holds, and string_buffer_to_string answers,
\* exactly what was appended.
THEOREM BufferImplementsSequence == BufferSpec => BufferIsSequence
  BY BufferInitInv, BufferNextInv, BufferInitRefined, BufferNextRefined, PTL DEF BufferSpec, BufferIsSequence, BC!Spec

-----------------------------------------------------------------------------
(* The value stack at its limit                                            *)

USE SizeAssumption, PushAssumption

Frames == [ebp : Nat, esp : Nat, calls : Nat]

\* A frame begins at most one slot behind the stack, has pushed no more than
\* its form needs, and lies at least as high as there are calls below it.
FrameSound(f) ==
    /\ f.ebp <= f.esp /\ f.esp <= f.ebp + MaxPush
    /\ f.calls <= f.ebp /\ f.ebp <= StackSize

\* The inductive invariant.
StackInv ==
    /\ frames \in Seq(Frames)
    /\ \A k \in 1..Len(frames) : FrameSound(frames[k])
    /\ touched \in Int /\ touched <= StackSize + MaxPush
    /\ status \in {"running", "done", "overflow"}
    /\ (status = "running") <=> (frames # <<>>)

\* While the program runs there is a top frame.
LEMMA TopSound ==
    ASSUME StackInv, status = "running"
    PROVE  /\ Len(frames) \in Nat \ {0} /\ Top = frames[Len(frames)]
           /\ Top \in Frames /\ FrameSound(Top)
<1>1. Len(frames) \in Nat \ {0} BY DEF StackInv
<1> QED BY <1>1 DEF StackInv, Top

\* Stores keep to the slots of the frame and the one behind.
LEMMA TouchBounded ==
    ASSUME StackInv, NEW slot \in Int, slot <= StackSize + MaxPush, Touch(slot)
    PROVE  touched' \in Int /\ touched' <= StackSize + MaxPush
  BY DEF Touch, StackInv

\* To move esp within the room of the frame keeps the frames sound.
LEMMA SetTopKeeps ==
    ASSUME StackInv, status = "running", NEW esp \in Nat, Top.ebp <= esp, esp <= Top.ebp + MaxPush,
           SetTop(esp), UNCHANGED status, touched' \in Int, touched' <= StackSize + MaxPush
    PROVE  StackInv'
<1>1. frames' = [frames EXCEPT ![Len(frames)] = [Top EXCEPT !.esp = esp]]
  BY DEF SetTop, Top
<1>2. [Top EXCEPT !.esp = esp] \in Frames /\ FrameSound([Top EXCEPT !.esp = esp])
  BY TopSound DEF Frames, FrameSound
<1>3. frames' \in Seq(Frames) /\ Len(frames') = Len(frames)
  BY <1>1, <1>2, TopSound DEF StackInv
<1>4. \A k \in 1..Len(frames') : FrameSound(frames'[k])
  BY <1>1, <1>2, <1>3, TopSound DEF StackInv
<1>5. frames' # <<>> BY <1>3, TopSound
<1> QED BY <1>3, <1>4, <1>5 DEF StackInv

\* An activation that passes the test and begins high enough is sound.
LEMMA StackEnterKeeps ==
    ASSUME StackInv, status = "running", NEW ebp \in Nat, NEW calls \in Nat, calls <= ebp, Enter(ebp, calls)
    PROVE  StackInv'
<1>1. CASE Overflows(ebp)
  <2>1. status' = "overflow" /\ frames' = <<>> /\ touched' = touched BY <1>1 DEF Enter
  <2> QED BY <2>1 DEF StackInv
<1>2. CASE ~Overflows(ebp)
  <2>1. frames' = Append(frames, Frame(ebp, calls)) /\ status' = status /\ touched' = touched
    BY <1>2 DEF Enter
  <2>2. Frame(ebp, calls) \in Frames /\ FrameSound(Frame(ebp, calls))
    BY <1>2 DEF Overflows, Frame, Frames, FrameSound
  <2>3. frames' \in Seq(Frames) /\ Len(frames') = Len(frames) + 1
    BY <2>1, <2>2 DEF StackInv
  <2>4. \A k \in 1..Len(frames') : FrameSound(frames'[k])
    BY <2>1, <2>2, <2>3 DEF StackInv
  <2>5. frames' # <<>> BY <2>3 DEF StackInv
  <2> QED BY <2>1, <2>3, <2>4, <2>5 DEF StackInv
<1> QED BY <1>1, <1>2

LEMMA StackInitInv == StackInit => StackInv
<1> SUFFICES ASSUME StackInit PROVE StackInv
  OBVIOUS
<1>1. Frame(0, 0) \in Frames /\ FrameSound(Frame(0, 0)) BY DEF Frame, Frames, FrameSound
<1>2. frames \in Seq(Frames) /\ Len(frames) = 1 /\ frames[1] = Frame(0, 0) BY <1>1 DEF StackInit
<1>3. \A k \in 1..Len(frames) : FrameSound(frames[k]) BY <1>1, <1>2
<1>4. frames # <<>> BY <1>2
<1>5. touched \in Int /\ touched <= StackSize + MaxPush BY DEF StackInit
<1> QED BY <1>2, <1>3, <1>4, <1>5 DEF StackInit, StackInv

LEMMA StackNextInv == StackInv /\ [StackNext]_stackVars => StackInv'
<1> SUFFICES ASSUME StackInv, [StackNext]_stackVars PROVE StackInv'
  OBVIOUS
<1>1. CASE StackNext
  <2>0. status = "running" BY <1>1 DEF StackNext
  <2> DEFINE e == Top.esp
             b == Top.ebp
  <2>a. e \in Nat /\ b \in Nat /\ Top.calls \in Nat /\ b <= e /\ e <= b + MaxPush
        /\ Top.calls <= b /\ b <= StackSize
    BY <2>0, TopSound DEF Frames, FrameSound
  <2>1. CASE Push
    <3>1. HasRoom /\ Touch(e) /\ SetTop(e + 1) /\ UNCHANGED status BY <2>1 DEF Push
    <3>2. e < b + MaxPush BY <2>a, <3>1 DEF HasRoom
    <3>3. e \in Int /\ e <= StackSize + MaxPush BY <2>a, <3>2
    <3>4. touched' \in Int /\ touched' <= StackSize + MaxPush BY <3>1, <3>3, TouchBounded
    <3>5. e + 1 \in Nat /\ Top.ebp <= e + 1 /\ e + 1 <= Top.ebp + MaxPush BY <2>a, <3>2
    <3> HIDE DEF e
    <3> QED BY <2>0, <3>1, <3>4, <3>5, SetTopKeeps
  <2>2. CASE Scratch
    <3>1. HasRoom /\ Touch(e + 1) /\ UNCHANGED <<frames, status>> BY <2>2 DEF Scratch
    <3>2. e + 1 \in Int /\ e + 1 <= StackSize + MaxPush BY <2>a, <3>1 DEF HasRoom
    <3>3. touched' \in Int /\ touched' <= StackSize + MaxPush BY <3>1, <3>2, TouchBounded
    <3> QED BY <3>1, <3>3 DEF StackInv
  <2>3. CASE EnterBody
    <3>1. e + 1 \in Nat /\ Top.calls + 1 \in Nat /\ Top.calls + 1 <= e + 1 BY <2>a
    <3> QED BY <2>0, <2>3, <3>1, StackEnterKeeps DEF EnterBody, BodyStart
  <2>4. CASE Leave
    <3>1. touched' = touched BY <2>4 DEF Leave
    <3>2. CASE Len(frames) = 1
      <4>1. status' = "done" /\ frames' = <<>> BY <2>4, <3>2 DEF Leave
      <4> QED BY <3>1, <4>1 DEF StackInv
    <3>3. CASE Len(frames) # 1
      <4>1. frames' = SubSeq(frames, 1, Len(frames) - 1) /\ status' = status
        BY <2>4, <3>3 DEF Leave
      <4>2. frames' \in Seq(Frames) /\ Len(frames') = Len(frames) - 1 /\ Len(frames') > 0
            /\ \A k \in 1..Len(frames') : frames'[k] = frames[k]
        <5> DEFINE n == Len(frames) - 1
        <5>1. frames \in Seq(Frames) /\ Len(frames) \in Nat \ {0} BY <2>0, TopSound DEF StackInv
        <5>a. \A m \in Nat \ {0} : m # 1 => m - 1 \in Nat /\ m - 1 > 0 /\ m - 1 <= m
          OBVIOUS
        <5>2. n \in Nat /\ n > 0 /\ n <= Len(frames) BY <3>3, <5>1, <5>a
        <5>3. SubSeq(frames, 1, n) \in Seq(Frames) /\ Len(SubSeq(frames, 1, n)) = n
              /\ \A k \in 1..n : SubSeq(frames, 1, n)[k] = frames[k]
          <6> HIDE DEF n
          <6> QED BY <5>1, <5>2
        <5> QED BY <4>1, <5>2, <5>3
      <4>3. \A k \in 1..Len(frames') : FrameSound(frames'[k])
        BY <2>0, <4>2, TopSound DEF StackInv
      <4>4. frames' # <<>> BY <4>2
      <4> QED BY <2>0, <3>1, <4>1, <4>2, <4>3, <4>4 DEF StackInv
    <3> QED BY <3>2, <3>3
  <2>5. ASSUME NEW offset \in 0..MaxOffset, EnterOperand(offset) PROVE StackInv'
    <3>1. e + offset \in Nat /\ Top.calls \in Nat /\ Top.calls <= e + offset BY <2>a
    <3> QED BY <2>0, <2>5, <3>1, StackEnterKeeps DEF EnterOperand
  <2>6. ASSUME NEW n \in 0..MaxPush, StoreResult(n) PROVE StackInv'
    <3>1. n <= e - b /\ (n = 0 => HasRoom) /\ Touch(e - n) /\ SetTop(e - n + 1) /\ UNCHANGED status
      BY <2>6 DEF StoreResult
    <3>2. e - n \in Nat /\ b <= e - n /\ e - n < b + MaxPush
      BY <2>a, <3>1 DEF HasRoom
    <3>3. e - n \in Int /\ e - n <= StackSize + MaxPush BY <2>a, <3>2
    <3>4. touched' \in Int /\ touched' <= StackSize + MaxPush BY <3>1, <3>3, TouchBounded
    <3>5. e - n + 1 \in Nat /\ Top.ebp <= e - n + 1 /\ e - n + 1 <= Top.ebp + MaxPush
      BY <2>a, <3>2
    <3> HIDE DEF e
    <3> QED BY <2>0, <3>1, <3>4, <3>5, SetTopKeeps
  <2>7. ASSUME NEW n \in 1..MaxPush, EnterFuncall(n) PROVE StackInv'
    <3>1. n <= e - b /\ Enter(e + n - 2, Top.calls) BY <2>7 DEF EnterFuncall
    <3>2. e + n - 2 \in Nat /\ Top.calls <= e + n - 2 BY <2>a, <3>1
    <3> HIDE DEF e
    <3> QED BY <2>0, <2>a, <3>1, <3>2, StackEnterKeeps
  <2> QED BY <1>1, <2>1, <2>2, <2>3, <2>4, <2>5, <2>6, <2>7 DEF StackNext
<1>2. CASE UNCHANGED stackVars BY <1>2 DEF stackVars, StackInv
<1> QED BY <1>1, <1>2

\* Every frame makes as many direct calls as it lies high, at most StackSize.
LEMMA CallsAreLimited == StackInv => CallsLimited
<1> SUFFICES ASSUME StackInv, NEW k \in 1..Len(frames) PROVE frames[k].calls <= StackSize
  BY DEF CallsLimited, StackInv
<1>1. frames[k] \in Frames /\ FrameSound(frames[k]) BY DEF StackInv
<1> QED BY <1>1 DEF Frames, FrameSound

\* However forms nest, the stack is overrun by no more than one compiled form
\* needs: one slot for the test that allows a frame behind the last slot, and
\* its pushes.  At most StackSize direct calls are active, so their recursion is
\* caught.
THEOREM StackIsSound == StackSpec => []StackSound
<1>1. ASSUME StackInv PROVE StackTypeOK
  <2>1. \A k \in DOMAIN frames : frames[k] \in Frames BY <1>1 DEF StackInv
  <2> QED BY <1>1, <2>1 DEF StackInv, StackTypeOK, Frames
<1>2. StackInv => OverrunLimited BY DEF StackInv, OverrunLimited
<1>3. StackInv => StackSound BY <1>1, <1>2, CallsAreLimited DEF StackSound
<1> QED BY StackInitInv, StackNextInv, <1>3, PTL DEF StackSpec

=============================================================================
