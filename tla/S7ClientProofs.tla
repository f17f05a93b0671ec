---------------------------- MODULE S7ClientProofs ----------------------------
(***************************************************************************)
(* What the Siemens S7 client's links, writes and reads keep to, for any   *)
(* number of goroutines, links and PDU sizes and for any arguments of the  *)
(* calls: what a write reaches, what a read returns, how long they take,   *)
(* the types of the variables.                                             *)
(***************************************************************************)
EXTENDS S7Client, FoldTheorems, TLAPS

Fields == {"at", "kind", "args", "jobs", "results", "done", "parts", "rounds", "short", "data",
           "target", "fell", "wrote", "failed", "broke", "new"}

\* c.mu is held at these places.
Busy == {"read", "header", "write", "done"}

Up == {"open", "broken"}

Shape ==
  /\ transport \in Links
  /\ connected \in [Links -> BOOLEAN]
  /\ link \in [Links -> {"unused", "open", "broken", "closed"}]
  /\ pdu \in [Links -> PDUSizes]
  /\ DOMAIN wire = Links
  /\ DOMAIN op = Procs /\ \A p \in Procs : DOMAIN op[p] = Fields
  /\ overlap \in BOOLEAN

\* A transport that says connected has its link, and no answer of before lies on it.
Connected ==
  /\ \A k \in Links : connected[k] => link[k] \in Up /\ wire[k] = <<>>
  /\ \A k \in Links : link[k] = "unused" => wire[k] = <<>>
  /\ link[transport] # "unused"
  /\ \A p \in Procs : At(p, "install") => op[p].new \in Links /\ link[op[p].new] # "unused"

Installing(k) == \E p \in Procs : At(p, "install") /\ op[p].new = k

\* Unless Reconnects overlapped: one dials at a time, with the old link closed under it.
OneDials ==
  ~overlap =>
    /\ \A p, q \in Dialling : p = q
    /\ Dialling # {} => link[transport] = "closed"
    /\ \A k \in Links : link[k] \in Up => k = transport \/ Installing(k)

LinkInv == Shape /\ Connected /\ OneDials

Locked == \A p \in Procs : op[p].at \in Busy => mu = p

\* What a write has covered so far: n bytes from the first one of its variable.
Covered(c, n) ==
  c.wrote = IF n = 0 THEN <<>> ELSE <<[Variable(c.target) EXCEPT !.len = n]>>

\* A write in progress, or ended: how far it is, and what it has covered.
GoodWrite(c) ==
  /\ c.args \in Writes /\ c.target = WriteAddress(c.args)
  /\ c.at \in {"header", "write", "done"}
  /\ c.target = BadAddress => c.at = "done" /\ c.failed
  /\ c.data \in Nat /\ c.done \in Nat
  /\ c.at = "header" => /\ c.done = 0 /\ c.data = 0 /\ ~c.fell /\ c.target.type \in StringTypes
  /\ c.at = "write" => c.done < c.data
  /\ c.at = "write" /\ c.done > 0 => c.data > WritePayload(pdu[transport])
  /\ c.target # BadAddress /\ Addressable(c.target, c.data) =>
       \E n \in 0..c.data :
         /\ Covered(c, n)
         /\ c.at \in {"header", "write"} => n = c.done
         /\ c.at = "done" /\ ~c.failed => n = c.data /\ n > 0
  /\ c.target # BadAddress /\ ~Overruns(c) => c.data <= Variable(c.target).len

Writing ==
  \A p \in Procs : /\ op[p].kind = "write" => GoodWrite(op[p])
                   /\ At(p, "header") \/ At(p, "write") => op[p].kind = "write"

IInv == LinkInv /\ Locked /\ Writing

-----------------------------------------------------------------------------
(* Addresses *)

Areas == {"DB", "I", "Q", "M", "T", "C"}
BitNumbers == 0..7 \cup {None}
SomeTypes == Types \cup {None}

Addresses ==
  [area : Areas, db : Nat, off : Nat, bit : BitNumbers, type : Types, size : Nat,
   count : Nat \ {0}]

\* The type of a parsed address may be left open.
Parsed ==
  [area : Areas, db : Nat, off : Nat, bit : BitNumbers, type : SomeTypes, size : Nat,
   count : Nat \ {0}]

LEMMA TypeSizes ==
  /\ \A type : TypeSize(type) \in Nat
  /\ \A type \in Types : TypeSize(type) = 0 <=> type \in StringTypes
  /\ \A l \in {"B", "W", "D", "L"} : LetterType[l] \in Types
  /\ \A name : TypeOfName(name) \in Types \cup {None}
<1>1. \A type : TypeSize(type) \in Nat
  BY DEF TypeSize
<1>2. \A type \in Types : TypeSize(type) = 0 <=> type \in StringTypes
  BY DEF TypeSize, Types, StringTypes
<1>3. \A l \in {"B", "W", "D", "L"} : LetterType[l] \in Types
  BY DEF LetterType, Types
<1>4. \A name : TypeOfName(name) \in Types \cup {None}
  BY DEF TypeOfName, Types
<1> QED
  BY <1>1, <1>2, <1>3, <1>4

LEMMA ParsedFields ==
  ASSUME NEW t, t.area \in Areas, t.db \in Nat, t.off \in Nat,
         NEW type \in SomeTypes, NEW size \in Nat, NEW bit \in BitNumbers, NEW n \in Nat \ {0}
  PROVE  [area |-> t.area, db |-> t.db, off |-> t.off, bit |-> bit, type |-> type,
          size |-> size, count |-> n] \in Parsed
  BY DEF Parsed

\* What is parsed from a text is an address.
LEMMA ParsedType ==
  ASSUME NEW t \in Texts
  PROVE  ParseAddress(t) = BadAddress \/ ParseAddress(t) \in Parsed
<1> DEFINE count == IF t.count = None \/ t.count < 1 THEN 1 ELSE t.count
           parsed(type, size, bit, n) ==
             [area |-> t.area, db |-> t.db, off |-> t.off, bit |-> bit, type |-> type,
              size |-> size, count |-> n]
<1>1. /\ t.area \in Areas /\ t.db \in Nat /\ t.off \in Nat
      /\ t.letter \in {"", "X", "B", "W", "D", "L"} /\ t.area # "?"
  BY DEF Texts, Areas
<1>2. count \in Nat \ {0}
  <2>1. t.count \in Nat \/ t.count = None
    BY DEF Texts
  <2>2. CASE t.count = None
    BY <2>2
  <2>3. CASE t.count \in Nat /\ t.count # None
    BY <2>3
  <2> QED
    BY <2>1, <2>2, <2>3
<1>3. /\ None \in SomeTypes /\ "BOOL" \in SomeTypes /\ "WORD" \in SomeTypes
      /\ \A type \in Types : type \in SomeTypes
      /\ 0 \in BitNumbers /\ None \in BitNumbers /\ \A b \in 0..7 : b \in BitNumbers
      /\ 1 \in Nat /\ 2 \in Nat /\ 1 \in Nat \ {0}
  BY DEF Types, SomeTypes, BitNumbers
<1>4. \/ ParseAddress(t) = BadAddress
      \/ ParseAddress(t) = parsed(None, 0, None, count)
      \/ ParseAddress(t) = parsed("WORD", 2, None, 1)
      \/ ParseAddress(t) = parsed("BOOL", 1, 0, 1)
      \/ t.bit \in 0..7 /\ ParseAddress(t) = parsed("BOOL", 1, t.bit, 1)
      \/ /\ t.letter \notin {"", "X"}
         /\ ParseAddress(t) = parsed(LetterType[t.letter], TypeSize(LetterType[t.letter]), None, 1)
  BY <1>1 DEF ParseAddress
<1>5. t.letter \notin {"", "X"} => /\ LetterType[t.letter] \in Types
                                   /\ TypeSize(LetterType[t.letter]) \in Nat
  <2> SUFFICES ASSUME t.letter \notin {"", "X"}
               PROVE  LetterType[t.letter] \in Types /\ TypeSize(LetterType[t.letter]) \in Nat
      OBVIOUS
  <2>1. t.letter \in {"B", "W", "D", "L"}
    BY <1>1
  <2> QED
    BY <2>1, TypeSizes
<1>6. parsed(None, 0, None, count) \in Parsed
  BY <1>1, <1>2, <1>3, ParsedFields
<1>7. parsed("WORD", 2, None, 1) \in Parsed
  BY <1>1, <1>3, ParsedFields, Zenon
<1>8. parsed("BOOL", 1, 0, 1) \in Parsed
  BY <1>1, <1>3, ParsedFields, Zenon
<1>9. t.bit \in 0..7 => parsed("BOOL", 1, t.bit, 1) \in Parsed
  BY <1>1, <1>3, ParsedFields, Zenon
<1>10. t.letter \notin {"", "X"} =>
         parsed(LetterType[t.letter], TypeSize(LetterType[t.letter]), None, 1) \in Parsed
  BY <1>1, <1>3, <1>5, ParsedFields, Zenon
<1> HIDE DEF count, parsed
<1> QED
  BY <1>4, <1>6, <1>7, <1>8, <1>9, <1>10

LEMMA BadText == \A t : t.area = "?" => ParseAddress(t) = BadAddress
  BY DEF ParseAddress

LEMMA WriteAddressType ==
  ASSUME NEW w \in Writes
  PROVE  WriteAddress(w) \in Addresses \cup {BadAddress}
<1> DEFINE a == ParseAddress(w.text)
           hint == TypeOfName(w.hint)
           type == IF a.type # None THEN a.type
                   ELSE IF hint # None THEN hint
                   ELSE CASE w.n = 0 /\ w.kind = "bool" -> "BOOL"
                          [] w.n = 0 /\ w.kind = "real" -> "LREAL"
                          [] OTHER -> "DINT"
           size == IF a.type # None THEN a.size ELSE TypeSize(type)
           bit == IF type = "BOOL" /\ a.bit = None THEN 0 ELSE a.bit
<1>1. CASE w.text = BadAddress
  <2>1. ParseAddress(w.text) = BadAddress
    BY <1>1, BadText DEF BadAddress
  <2> QED
    BY <2>1 DEF WriteAddress
<1>2. CASE a = BadAddress
  BY <1>2 DEF WriteAddress
<1>3. CASE w.text # BadAddress /\ a # BadAddress
  <2>1. a \in Parsed
    BY <1>3, ParsedType, WritesAssumption
  <2>2. {"BOOL", "LREAL", "DINT"} \subseteq Types
    BY DEF Types
  <2>3. type \in Types
    BY <2>1, <2>2, TypeSizes DEF Parsed, SomeTypes
  <2>4. size \in Nat
    BY <2>1, TypeSizes DEF Parsed
  <2>5. bit \in BitNumbers
    BY <2>1 DEF Parsed, BitNumbers
  <2>6. WriteAddress(w) = [a EXCEPT !.type = type, !.size = size, !.bit = bit]
    BY <1>3 DEF WriteAddress
  <2> HIDE DEF a, hint, type, size, bit
  <2> QED
    BY <2>1, <2>3, <2>4, <2>5, <2>6 DEF Addresses, Parsed
<1> QED
  BY <1>1, <1>2, <1>3

LEMMA NotBad == \A a \in Addresses : a # BadAddress
  BY DEF Addresses, BadAddress, Areas

\* A multiple of eight bits within the 24 of a request survives the conversion and back.
LEMMA BitAddress ==
  ASSUME NEW x \in Nat, NEW b \in 0..7, 8 * (x + 1) <= 16777216
  PROVE  ((8 * x + b) % 16777216) \div 8 = x
  OBVIOUS

\* The place an item denotes, when nothing of it is cut.
LEMMA DenotesWhole ==
  ASSUME NEW a \in Addresses, NEW n \in Nat \ {0}, Addressable(a, n)
  PROVE  [Denotes(S7Any(a)) EXCEPT !.len = n] = [Variable(a) EXCEPT !.len = n]
<1> DEFINE b == IF a.bit = None THEN 0 ELSE a.bit
<1>1. b \in 0..7 /\ a.off \in Nat /\ a.db \in Nat /\ a.db < 65536 /\ 8 * (a.off + 1) <= 16777216
  BY DEF Addresses, BitNumbers, Addressable
<1>2. ((8 * a.off + b) % 16777216) \div 8 = a.off
  BY <1>1, BitAddress
<1>3. a.db % 65536 = a.db
  BY <1>1
<1>4. /\ S7Any(a).area = a.area /\ S7Any(a).at = (8 * a.off + b) % 16777216
      /\ S7Any(a).db = IF a.area = "DB" THEN a.db ELSE 0
  BY <1>3 DEF S7Any
<1>5. /\ Denotes(S7Any(a)).area = a.area /\ Denotes(S7Any(a)).off = a.off
      /\ Denotes(S7Any(a)).db = IF a.area = "DB" THEN a.db ELSE 0
  BY <1>2, <1>4 DEF Denotes, Stretch
<1> QED
  BY <1>5 DEF Denotes, Variable, Stretch

Moved(v, at, n) == [v EXCEPT !.off = at, !.len = n]

LEMMA MovedStretch ==
  \A area, db, off, len, at, n :
    Moved(Stretch(area, db, off, len), at, n) = Stretch(area, db, at, n)
<1> TAKE area, db, off, len, at, n
<1>1. [Stretch(area, db, off, len) EXCEPT !.off = at] = Stretch(area, db, at, len)
  BY DEF Stretch
<1>2. [Stretch(area, db, at, len) EXCEPT !.len = n] = Stretch(area, db, at, n)
  BY DEF Stretch
<1>3. Moved(Stretch(area, db, off, len), at, n)
        = [[Stretch(area, db, off, len) EXCEPT !.off = at] EXCEPT !.len = n]
  BY DEF Moved
<1> QED
  BY <1>1, <1>2, <1>3

LEMMA DenotesChunk ==
  ASSUME NEW a \in Addresses, NEW d \in Nat, NEW n \in Nat \ {0}, Addressable(a, d + n)
  PROVE  [Denotes(S7Any(Chunk(a, d, n))) EXCEPT !.len = n]
           = Moved(Variable(a), a.off + d, n)
<1> DEFINE c == Chunk(a, d, n)
<1>1. /\ c.area = a.area /\ c.db = a.db /\ c.off = a.off + d /\ c.bit = None
  BY DEF Chunk, Addresses
<1>2. /\ a.off + d \in Nat /\ a.db \in Nat /\ a.db < 65536 /\ 8 * (a.off + d + 1) <= 16777216
  BY DEF Addresses, Addressable
<1>3. ((8 * (a.off + d) + 0) % 16777216) \div 8 = a.off + d
  BY <1>2, BitAddress
<1>4. a.db % 65536 = a.db
  BY <1>2
<1>5. /\ S7Any(c).area = a.area /\ S7Any(c).at = (8 * (a.off + d) + 0) % 16777216
      /\ S7Any(c).db = IF a.area = "DB" THEN a.db ELSE 0
  <2> HIDE DEF c
  <2> QED
    BY <1>1, <1>4 DEF S7Any
<1>6. /\ Denotes(S7Any(c)).area = a.area /\ Denotes(S7Any(c)).off = a.off + d
      /\ Denotes(S7Any(c)).db = IF a.area = "DB" THEN a.db ELSE 0
  <2> HIDE DEF c
  <2> QED
    BY <1>3, <1>5 DEF Denotes, Stretch
<1> HIDE DEF c
<1>7. [Denotes(S7Any(c)) EXCEPT !.len = n]
        = Stretch(a.area, IF a.area = "DB" THEN a.db ELSE 0, a.off + d, n)
  BY <1>6 DEF Denotes, Stretch
<1>8. Moved(Variable(a), a.off + d, n)
        = Stretch(a.area, IF a.area = "DB" THEN a.db ELSE 0, a.off + d, n)
  <2> DEFINE db == IF a.area = "DB" THEN a.db ELSE 0
             len == Variable(a).len
  <2>1. Variable(a) = Stretch(a.area, db, a.off, len)
    BY DEF Variable, Stretch
  <2> HIDE DEF db, len
  <2>2. Moved(Stretch(a.area, db, a.off, len), a.off + d, n) = Stretch(a.area, db, a.off + d, n)
    BY MovedStretch
  <2>3. Moved(Variable(a), a.off + d, n) = Stretch(a.area, db, a.off + d, n)
    BY <2>1, <2>2, Zenon
  <2> QED
    BY <2>3 DEF db
<1> QED
  BY <1>7, <1>8 DEF c

\* The next stretch of a write joins what is covered already.
LEMMA JoinNext ==
  ASSUME NEW area, NEW db, NEW off \in Nat, NEW len, NEW v, NEW d \in Nat, NEW n \in Nat \ {0},
         NEW parts, v = Stretch(area, db, off, len),
         parts = IF d = 0 THEN <<>> ELSE <<[v EXCEPT !.len = d]>>
  PROVE  Join(parts, Moved(v, off + d, n)) = <<[v EXCEPT !.len = d + n]>>
<1> DEFINE s == Moved(v, off + d, n)
<1>1. v = [area |-> area, db |-> db, off |-> off, len |-> len]
  BY DEF Stretch
<1>2. s = [area |-> area, db |-> db, off |-> off + d, len |-> n]
  <2>1. s = Stretch(area, db, off + d, n)
    BY MovedStretch
  <2> QED
    BY <2>1 DEF Stretch
<1> HIDE DEF s
<1>3. CASE d = 0
  <2>1. Join(parts, s) = <<s>>
    BY <1>3 DEF Join
  <2>2. s = [v EXCEPT !.len = d + n]
    BY <1>1, <1>2, <1>3
  <2> QED
    BY <2>1, <2>2 DEF s
<1>4. CASE d # 0
  <2> DEFINE q == [v EXCEPT !.len = d]
  <2>1. q = [area |-> area, db |-> db, off |-> off, len |-> d]
    BY <1>1
  <2>2. Len(parts) = 1 /\ parts[1] = q /\ parts # <<>> /\ parts = <<q>>
    BY <1>4
  <2>3. Last(parts) = q
    BY <2>2 DEF Last
  <2>4. q = [s EXCEPT !.off = q.off, !.len = q.len]
    <3> HIDE DEF q
    <3>1. s = Stretch(area, db, off + d, n) /\ q = Stretch(area, db, off, d)
      BY <1>2, <2>1 DEF Stretch
    <3>2. Moved(s, q.off, q.len) = Stretch(area, db, q.off, q.len)
      BY <3>1, MovedStretch
    <3>3. q.off = off /\ q.len = d
      BY <2>1
    <3> QED
      BY <3>1, <3>2, <3>3 DEF Moved
  <2>5. q.off + q.len = s.off
    <3> HIDE DEF q
    <3> QED
      BY <1>2, <2>1
  <2>6. Join(parts, s) = [parts EXCEPT ![1].len = d + n]
    <3>1. parts[1].len + s.len = d + n
      BY <1>2, <2>1, <2>2
    <3> HIDE DEF q, s
    <3> QED
      BY <2>2, <2>3, <2>4, <2>5, <3>1 DEF Join
  <2>7. [parts EXCEPT ![1].len = d + n] = <<[q EXCEPT !.len = d + n]>>
    <3> HIDE DEF q
    <3> QED
      BY <2>2
  <2>8. [q EXCEPT !.len = d + n] = [v EXCEPT !.len = d + n]
    BY <1>1, <2>1
  <2> QED
    BY <2>6, <2>7, <2>8 DEF s
<1> QED
  BY <1>3, <1>4

-----------------------------------------------------------------------------
(* What a write brings fits its variable *)

\* The room of one element of a variable.
Room1(a) == IF a.type \in StringTypes THEN StringSize(a.type, Declared) ELSE TypeSize(a.type)

LEMMA Products ==
  ASSUME NEW k \in Nat \ {0}, NEW s \in Nat \ {0}
  PROVE  k * s \in Nat \ {0} /\ k <= k * s
  OBVIOUS

LEMMA RoomSize ==
  ASSUME NEW a \in Addresses
  PROVE  /\ Room1(a) \in Nat \ {0}
         /\ Variable(a).len = a.count * Room1(a) /\ Variable(a).len \in Nat
         /\ a.type \notin StringTypes => TypeSize(a.type) = Room1(a)
         /\ a.type \in StringTypes => TypeSize(a.type) = 0 /\ StringSize(a.type, Declared) = Room1(a)
<1>1. a.type \in Types /\ a.count \in Nat \ {0}
  BY DEF Addresses
<1>2. a.type \notin StringTypes => TypeSize(a.type) = Room1(a) /\ TypeSize(a.type) \in Nat \ {0}
  BY <1>1, TypeSizes DEF Room1
<1>3. a.type \in StringTypes => /\ TypeSize(a.type) = 0
                                /\ StringSize(a.type, Declared) = Room1(a)
                                /\ Room1(a) \in Nat \ {0}
  BY <1>1, TypeSizes, DeclaredAssumption DEF Room1, StringSize, HeaderSize
<1>4. Room1(a) \in Nat \ {0}
  BY <1>2, <1>3
<1>5. Variable(a).len = a.count * Room1(a)
  BY DEF Variable, Stretch, Room1
<1>6. a.count * Room1(a) \in Nat
  BY <1>1, <1>4, Products
<1> QED
  BY <1>2, <1>3, <1>4, <1>5, <1>6

LEMMA EncodedFits ==
  ASSUME NEW w \in Writes, NEW a \in Addresses
  PROVE  /\ Encoded(a, w) \in Nat
         /\ w.n <= a.count /\ ~(w.n > 0 /\ w.kind = "real") => Encoded(a, w) <= Variable(a).len
<1> DEFINE k == IF w.n = 0 THEN 1 ELSE w.n
<1>1. w.n \in Nat /\ a.count \in Nat \ {0} /\ k \in Nat \ {0}
  BY WritesAssumption DEF Addresses
<1>2. TypeSize(a.type) \in Nat /\ TypeSize(a.type) * k \in Nat
  BY <1>1, TypeSizes, Times
<1>3. Encoded(a, w) \in {0, 1, 4 * w.n, w.n, TypeSize(a.type) * k}
  BY DEF Encoded
<1>4. Encoded(a, w) \in Nat
  BY <1>1, <1>2, <1>3
<1>5. ASSUME w.n <= a.count, ~(w.n > 0 /\ w.kind = "real")
      PROVE  Encoded(a, w) <= Variable(a).len
  <2>1. Encoded(a, w) \in {0, 1, w.n, TypeSize(a.type) * k}
    BY <1>5 DEF Encoded
  <2>2. k <= a.count /\ 1 <= k /\ w.n <= k
    BY <1>1, <1>5
  <2> HIDE DEF k
  <2>3. Room1(a) \in Nat \ {0} /\ Variable(a).len = a.count * Room1(a)
    BY RoomSize
  <2>4. k * Room1(a) <= a.count * Room1(a)
    BY <1>1, <2>2, <2>3, Times
  <2>5. k <= k * Room1(a) /\ k * Room1(a) \in Nat
    BY <1>1, <2>3, Products
  <2>6. TypeSize(a.type) \in {0, Room1(a)}
    BY RoomSize
  <2>7. TypeSize(a.type) * k \in {0, k * Room1(a)}
    BY <1>1, <2>3, <2>6
  <2>8. a.count * Room1(a) \in Nat
    BY <1>1, <2>3, Products
  <2> QED
    BY <1>1, <2>1, <2>2, <2>3, <2>4, <2>5, <2>7, <2>8
<1> QED
  BY <1>4, <1>5

LEMMA HeaderFits ==
  ASSUME NEW w \in Writes, NEW a \in Addresses, a.type \in StringTypes,
         NEW k, k = IF w.n = 0 THEN 1 ELSE w.n
  PROVE  /\ \A max \in {Declared, 254} : k * StringSize(a.type, max) \in Nat \ {0}
         /\ w.n <= a.count => k * StringSize(a.type, Declared) <= Variable(a).len
<1>1. w.n \in Nat /\ a.count \in Nat \ {0} /\ k \in Nat \ {0}
  BY WritesAssumption DEF Addresses
<1>2. \A max \in {Declared, 254} : StringSize(a.type, max) \in Nat \ {0}
  BY DeclaredAssumption DEF StringSize, HeaderSize
<1>3. \A max \in {Declared, 254} : k * StringSize(a.type, max) \in Nat \ {0}
  BY <1>1, <1>2, Products
<1>4. ASSUME w.n <= a.count
      PROVE  k * StringSize(a.type, Declared) <= Variable(a).len
  <2>1. k <= a.count
    BY <1>1, <1>4
  <2>2. StringSize(a.type, Declared) = Room1(a) /\ Variable(a).len = a.count * Room1(a)
        /\ Room1(a) \in Nat
    BY RoomSize
  <2> QED
    BY <1>1, <2>1, <2>2, Times
<1> QED
  BY <1>3, <1>4

-----------------------------------------------------------------------------
(* The links *)

\* What a round trip does to the transport.
Traffic ==
  \/ UNCHANGED <<connected, wire>>
  \/ \E answer : Answered(answer)
  \/ \E answer : \E late \in BOOLEAN : Unanswered(answer, late)

\* p goes on with its call, under c.mu.
Turn(p) ==
  \E c : Set(p, c) /\ DOMAIN c = Fields /\ c.at \in Busy /\ c.kind = op[p].kind

\* A round trip of p's call.
Exchanged(p) ==
  /\ op[p].at \in {"read", "header", "write"} /\ Traffic /\ Turn(p)
  /\ UNCHANGED <<transport, link, pdu, mu, overlap>>

LEMMA NextJobFields ==
  ASSUME NEW c, NEW results, DOMAIN c = Fields
  PROVE  LET n == NextJob(c, results)
         IN  DOMAIN n = Fields /\ n.at = c.at /\ n.kind = c.kind
  BY DEF NextJob, Fields

LEMMA ReadBatchExchanges ==
  ASSUME Shape, NEW p \in Procs, ReadBatch(p)
  PROVE  Exchanged(p) /\ op[p].at = "read" /\ op'[p].at = "read"
<1> DEFINE c == op[p]
           d(answer) == [NextJob(c, BatchResults(c, answer)) EXCEPT !.broke = @ \/ answer = None]
<1>1. Traffic /\ \E answer : Set(p, d(answer))
  <2> HIDE DEF d
  <2> QED
    BY DEF ReadBatch, Exchange, Traffic, Unsent, d
<1>2. DOMAIN c = Fields
  BY DEF Shape
<1>3. \A answer : DOMAIN d(answer) = Fields /\ d(answer).at = c.at /\ d(answer).kind = c.kind
  BY <1>2, NextJobFields DEF Fields
<1> HIDE DEF d
<1>4. PICK answer : Set(p, d(answer))
  BY <1>1
<1>5. op'[p] = d(answer) /\ op[p].at = "read"
  BY <1>4 DEF ReadBatch, Set, Shape, At
<1> QED
  BY <1>1, <1>3, <1>4, <1>5 DEF ReadBatch, Turn, Busy, Exchanged

LEMMA ReadChunkExchanges ==
  ASSUME Shape, NEW p \in Procs, ReadChunk(p)
  PROVE  Exchanged(p) /\ op[p].at = "read" /\ op'[p].at = "read"
<1> DEFINE c == op[p]
           a == c.args[Head(c.jobs)[1]]
           most == ReadPayload(pdu[transport])
           n == IF a.size - c.done > most THEN most ELSE a.size - c.done
           d(answer) == AfterChunk(c, a.size, most, answer, n)
<1>1. Traffic /\ \E answer : Set(p, d(answer))
  <2> HIDE DEF d
  <2> QED
    BY DEF ReadChunk, Exchange, Traffic, Unsent, d
<1>2. DOMAIN c = Fields
  BY DEF Shape
<1>3. \A results : LET e == NextJob(c, results)
                   IN  DOMAIN e = Fields /\ e.at = c.at /\ e.kind = c.kind
  BY <1>2, NextJobFields
<1>4. \A answer : DOMAIN d(answer) = Fields /\ d(answer).at = c.at /\ d(answer).kind = c.kind
  <2> TAKE answer
  <2> DEFINE i == Head(c.jobs)[1]
             bytes == answer[1].bytes
             fail == NextJob(c, [c.results EXCEPT ![i] = Failed])
             next == [c EXCEPT !.parts = Join(@, bytes), !.done = @ + bytes.len, !.rounds = @ + 1,
                        !.short = @ + IF bytes.len < n THEN 1 ELSE 0]
  <2>1. DOMAIN next = Fields /\ next.at = c.at /\ next.kind = c.kind
    BY <1>2 DEF Fields
  <2>2. DOMAIN fail = Fields /\ fail.at = c.at /\ fail.kind = c.kind
    BY <1>3
  <2>3. \E results : d(answer) \in {[fail EXCEPT !.broke = TRUE], fail, next, NextJob(c, results)}
    BY DEF AfterChunk
  <2>4. LET e == [fail EXCEPT !.broke = TRUE]
        IN  DOMAIN e = Fields /\ e.at = c.at /\ e.kind = c.kind
    <3> HIDE DEF fail
    <3> QED
      BY <2>2 DEF Fields
  <2> HIDE DEF fail, next, d
  <2> QED
    BY <1>3, <2>1, <2>2, <2>3, <2>4
<1> HIDE DEF d
<1>5. PICK answer : Set(p, d(answer))
  BY <1>1
<1>6. op'[p] = d(answer) /\ op[p].at = "read"
  BY <1>5 DEF ReadChunk, Set, Shape, At
<1> QED
  BY <1>1, <1>4, <1>5, <1>6 DEF ReadChunk, Turn, Busy, Exchanged

\* Where ReadHeader takes a call.
AfterHeader(c, whole, answer) ==
  LET count == IF c.args.n = 0 THEN 1 ELSE c.args.n
      read == answer = whole /\ whole # Refused
      max == IF read THEN Declared ELSE 254
      next == [c EXCEPT !.broke = answer = None]
  IN  IF ~read /\ c.args.n > 0 THEN EndWrite(next, TRUE)
      ELSE [next EXCEPT !.at = "write", !.fell = ~read,
                        !.data = count * StringSize(c.target.type, max)]

LEMMA HeaderStep ==
  ASSUME NEW p \in Procs, ReadHeader(p)
  PROVE  /\ At(p, "header") /\ Traffic /\ UNCHANGED <<transport, link, pdu, mu, overlap>>
         /\ \E whole, answer : Set(p, AfterHeader(op[p], whole, answer))
<1> DEFINE whole == ReadAnswer(<<S7Any(Chunk(op[p].target, 0, HeaderSize(op[p].target.type)))>>,
                               pdu[transport])
           d(answer) == AfterHeader(op[p], whole, answer)
<1>1. \/ Unsent /\ Set(p, d(None))
      \/ \E answer \in {whole} \cup Damaged(whole) :
           Answered(answer) /\ Set(p, d(Head(Append(wire[transport], answer))))
      \/ \E late \in BOOLEAN : Unanswered(whole, late) /\ Set(p, d(None))
  BY DEF ReadHeader, Exchange, AfterHeader
<1>2. At(p, "header") /\ UNCHANGED <<transport, link, pdu, mu, overlap>>
  BY DEF ReadHeader
<1> HIDE DEF d, whole
<1>3. Traffic /\ \E answer : Set(p, d(answer))
  BY <1>1 DEF Traffic, Unsent
<1> QED
  BY <1>2, <1>3 DEF d, whole

\* Where Write takes a call: n is the length of its next chunk.
WriteItem(c, most, n) == S7Any(IF c.data <= most THEN c.target ELSE Chunk(c.target, c.done, n))

Room2(c, most) == IF c.data - c.done > most THEN most ELSE c.data - c.done

AfterWrite(c, item, n, answer, sent) ==
  LET wrote == [c EXCEPT !.wrote = IF sent = Refused THEN @ ELSE Join(@, sent[1].bytes),
                         !.broke = @ \/ answer = None]
  IN  IF answer \in {None, Refused} THEN EndWrite(wrote, TRUE)
      ELSE IF c.done + n = c.data THEN EndWrite(wrote, FALSE)
      ELSE [wrote EXCEPT !.done = c.done + n]

LEMMA WriteStep ==
  ASSUME Shape, Connected, NEW p \in Procs, Write(p)
  PROVE  /\ At(p, "write") /\ Traffic /\ UNCHANGED <<transport, link, pdu, mu, overlap>>
         /\ LET most == WritePayload(pdu[transport])
                n == Room2(op[p], most)
                item == WriteItem(op[p], most, n)
                whole == WriteAnswer(item, n)
            IN  \E answer, sent :
                  /\ Set(p, AfterWrite(op[p], item, n, answer, sent))
                  /\ sent \in {whole, Refused}
                  /\ answer \notin {None, Refused} => sent = whole
<1> DEFINE most == WritePayload(pdu[transport])
           n == Room2(op[p], most)
           item == WriteItem(op[p], most, n)
           whole == WriteAnswer(item, n)
           d(answer, sent) == AfterWrite(op[p], item, n, answer, sent)
<1>1. Traffic
  BY DEF Write, Exchange, Traffic, Unsent
<1>2. \/ Unsent /\ Set(p, d(None, Refused))
      \/ \E answer \in {whole, Refused} :
           Answered(answer) /\ Set(p, d(Head(Append(wire[transport], answer)), answer))
      \/ \E late \in BOOLEAN :
           Unanswered(whole, late) /\ Set(p, d(None, IF late THEN whole ELSE Refused))
  <2>1. Write(p) => Exchange(whole, {Refused}, LAMBDA answer, sent : Set(p, d(answer, sent)))
    BY DEF Write, AfterWrite, WriteItem, Room2
  <2> HIDE DEF d, whole
  <2> QED
    BY <2>1 DEF Exchange
<1> HIDE DEF d, whole
<1>3. \E answer, sent : /\ Set(p, d(answer, sent)) /\ sent \in {whole, Refused}
                        /\ answer \notin {None, Refused} => sent = whole
  <2>1. CASE Unsent /\ Set(p, d(None, Refused))
    BY <2>1
  <2>2. ASSUME NEW answer \in {whole, Refused}, Answered(answer),
               Set(p, d(Head(Append(wire[transport], answer)), answer))
        PROVE  Set(p, d(answer, answer))
    <3>1. wire[transport] = <<>>
      BY <2>2 DEF Answered, Connected, Shape
    <3>2. Head(Append(<<>>, answer)) = answer
      OBVIOUS
    <3> QED
      BY <2>2, <3>1, <3>2
  <2>3. CASE \E late \in BOOLEAN :
               Unanswered(whole, late) /\ Set(p, d(None, IF late THEN whole ELSE Refused))
    BY <2>3
  <2> QED
    BY <1>2, <2>1, <2>2, <2>3
<1> QED
  BY <1>1, <1>3 DEF Write, d, whole

LEMMA HeaderExchanges ==
  ASSUME Shape, NEW p \in Procs, ReadHeader(p)
  PROVE  Exchanged(p)
<1>1. \A whole, answer : LET d == AfterHeader(op[p], whole, answer)
                         IN  DOMAIN d = Fields /\ d.at \in Busy /\ d.kind = op[p].kind
  <2> TAKE whole, answer
  <2>1. DOMAIN op[p] = Fields
    BY DEF Shape
  <2> QED
    BY <2>1 DEF AfterHeader, EndWrite, Fields, Busy
<1> QED
  BY <1>1, HeaderStep DEF Turn, At, Exchanged

LEMMA WriteExchanges ==
  ASSUME Shape, Connected, NEW p \in Procs, Write(p)
  PROVE  Exchanged(p)
<1>1. \A item, n, answer, sent :
        LET d == AfterWrite(op[p], item, n, answer, sent)
        IN  At(p, "write") => DOMAIN d = Fields /\ d.at \in Busy /\ d.kind = op[p].kind
  <2> TAKE item, n, answer, sent
  <2>1. DOMAIN op[p] = Fields
    BY DEF Shape
  <2> QED
    BY <2>1 DEF AfterWrite, EndWrite, Fields, Busy, At
<1> QED
  BY <1>1, WriteStep DEF Turn, At, Exchanged

\* Steps inside a call leave the links as they are, and who dials.
LEMMA ExchangeKeepsLinks ==
  ASSUME LinkInv, NEW p \in Procs, Exchanged(p)
  PROVE  LinkInv'
<1> USE DEF LinkInv
<1>1. PICK c : Set(p, c) /\ DOMAIN c = Fields /\ c.at \in Busy /\ c.kind = op[p].kind
  BY DEF Exchanged, Turn
<1>2. /\ op' = [op EXCEPT ![p] = c]
      /\ op[p].at \notin {"dial", "install"} /\ c.at \notin {"dial", "install"}
      /\ UNCHANGED <<transport, link, pdu, mu, overlap>> /\ Traffic
  BY <1>1 DEF Exchanged, Busy, Set
<1>3. \A q \in Procs : op'[q] = IF q = p THEN c ELSE op[q]
  BY <1>2 DEF Shape
<1>4. /\ connected' \in [Links -> BOOLEAN] /\ DOMAIN wire' = Links
      /\ \A k \in Links : connected'[k] => connected[k] /\ wire'[k] = <<>>
      /\ \A k \in Links : k # transport => wire'[k] = wire[k]
  <2>1. transport \in Links /\ connected \in [Links -> BOOLEAN] /\ DOMAIN wire = Links
        /\ \A k \in Links : connected[k] => wire[k] = <<>>
    BY DEF Shape, Connected
  <2>2. CASE UNCHANGED <<connected, wire>>
    BY <2>1, <2>2
  <2>3. ASSUME NEW answer, Answered(answer)
        PROVE  <1>4
    <3>1. Tail(Append(<<>>, answer)) = <<>>
      OBVIOUS
    <3>2. wire[transport] = <<>>
      BY <2>1, <2>3 DEF Answered
    <3>3. wire' = [wire EXCEPT ![transport] = <<>>]
      BY <2>3, <3>1, <3>2 DEF Answered
    <3> QED
      BY <2>1, <2>3, <3>3 DEF Answered
  <2>4. ASSUME NEW answer, NEW late \in BOOLEAN, Unanswered(answer, late)
        PROVE  <1>4
    BY <2>1, <2>4 DEF Unanswered
  <2> QED
    BY <1>2, <2>2, <2>3, <2>4 DEF Traffic
<1>5. Shape'
  BY <1>1, <1>2, <1>3, <1>4 DEF Shape
<1>6. Connected'
  BY <1>2, <1>3, <1>4 DEF Connected, At, Up
<1>7. Dialling' = Dialling
  BY <1>2, <1>3 DEF Dialling
<1>8. \A k \in Links : Installing(k)' <=> Installing(k)
  BY <1>2, <1>3 DEF Installing, At
<1>9. OneDials'
  BY <1>2, <1>4, <1>7, <1>8 DEF OneDials
<1> QED
  BY <1>5, <1>6, <1>9

\* A call that begins, ends or returns does not touch them either.
LEMMA CallKeepsLinks ==
  ASSUME LinkInv, NEW p \in Procs, NEW c, Set(p, c), DOMAIN c = Fields,
         op[p].at \notin {"dial", "install"}, c.at \notin {"dial", "install"},
         UNCHANGED <<transport, connected, link, pdu, wire, overlap>>
  PROVE  LinkInv'
<1> USE DEF LinkInv
<1>1. \A q \in Procs : op'[q] = IF q = p THEN c ELSE op[q]
  BY DEF Shape, Set
<1>2. Shape'
  BY <1>1 DEF Shape, Set
<1>3. Connected'
  BY <1>1 DEF Connected, At, Up
<1>4. Dialling' = Dialling
  BY <1>1 DEF Dialling
<1>5. \A k \in Links : Installing(k)' <=> Installing(k)
  BY <1>1 DEF Installing, At
<1>6. OneDials'
  BY <1>4, <1>5 DEF OneDials
<1> QED
  BY <1>2, <1>3, <1>6

LEMMA BeginReadKeepsLinks ==
  ASSUME LinkInv, NEW p \in Procs, BeginRead(p)
  PROVE  LinkInv' /\ op'[p].at = "read" /\ op'[p].kind = "read"
<1>1. PICK plan : Set(p, [Idle EXCEPT !.at = "read", !.kind = "read", !.args = plan.addresses,
                              !.jobs = plan.jobs,
                              !.results = [i \in DOMAIN plan.addresses |->
                                 IF plan.addresses[i] = BadAddress THEN Failed ELSE None]])
  BY DEF BeginRead
<1> DEFINE results == [i \in DOMAIN plan.addresses |->
                         IF plan.addresses[i] = BadAddress THEN Failed ELSE None]
           c == [Idle EXCEPT !.at = "read", !.kind = "read", !.args = plan.addresses,
                             !.jobs = plan.jobs, !.results = results]
<1>2. Set(p, c)
  BY <1>1
<1> HIDE DEF results
<1>3. DOMAIN c = Fields /\ c.at = "read" /\ c.kind = "read"
  BY DEF Idle, Fields
<1> HIDE DEF c
<1>4. op[p].at = "idle" /\ UNCHANGED <<transport, connected, link, pdu, wire, overlap>>
  BY DEF BeginRead, Lock, At
<1>5. LinkInv'
  BY <1>2, <1>3, <1>4, CallKeepsLinks
<1>6. op'[p] = c
  BY <1>2 DEF Set, LinkInv, Shape
<1> QED
  BY <1>3, <1>5, <1>6

LEMMA EndReadKeepsLinks ==
  ASSUME LinkInv, NEW p \in Procs, EndRead(p)
  PROVE  LinkInv' /\ op'[p].at = "done" /\ op'[p].kind = op[p].kind
<1> DEFINE c == [op[p] EXCEPT !.at = "done", !.failed = ~connected[transport]]
<1>1. DOMAIN op[p] = Fields
  BY DEF LinkInv, Shape
<1>2. DOMAIN c = Fields /\ c.at = "done" /\ c.kind = op[p].kind
  BY <1>1 DEF Fields
<1>3. /\ Set(p, c) /\ op[p].at = "read"
      /\ UNCHANGED <<transport, connected, link, pdu, wire, overlap>>
  BY DEF EndRead, At
<1> HIDE DEF c
<1>4. LinkInv'
  BY <1>2, <1>3, CallKeepsLinks
<1>5. op'[p] = c
  BY <1>3 DEF Set, LinkInv, Shape
<1> QED
  BY <1>2, <1>4, <1>5

\* Where BeginWrite takes a call.
Begun(w) ==
  LET a == WriteAddress(w)
      c == [Idle EXCEPT !.kind = "write", !.args = w, !.target = a]
      n == Encoded(a, w)
      ofStrings == w.kind = "string" /\ a.bit = None /\ a.type \in StringTypes
  IN  IF a = BadAddress THEN EndWrite(c, TRUE)
      ELSE IF ofStrings THEN [c EXCEPT !.at = "header"]
      ELSE IF n = 0 THEN EndWrite(c, TRUE)
      ELSE [c EXCEPT !.at = "write", !.data = n]

LEMMA BeginWriteKeepsLinks ==
  ASSUME LinkInv, NEW p \in Procs, BeginWrite(p)
  PROVE  LinkInv' /\ \E w \in Writes : op'[p] = Begun(w) /\ DOMAIN Begun(w) = Fields
<1>1. PICK w \in Writes : Set(p, Begun(w))
  BY DEF BeginWrite, Begun
<1>2. /\ DOMAIN Begun(w) = Fields /\ Begun(w).at \in {"header", "write", "done"}
  BY DEF Begun, Idle, EndWrite, Fields
<1>3. op[p].at = "idle" /\ UNCHANGED <<transport, connected, link, pdu, wire, overlap>>
  BY DEF BeginWrite, Lock, At
<1>4. LinkInv'
  BY <1>1, <1>2, <1>3, CallKeepsLinks
<1>5. op'[p] = Begun(w)
  BY <1>1 DEF Set, LinkInv, Shape
<1> QED
  BY <1>2, <1>4, <1>5

LEMMA IdleFields == DOMAIN Idle = Fields /\ Idle.at = "idle" /\ Idle.kind = "none" /\ Idle.new = 0
  BY DEF Idle, Fields

LEMMA ReturnKeepsLinks ==
  ASSUME LinkInv, NEW p \in Procs, Return(p)
  PROVE  LinkInv' /\ op'[p] = Idle
<1>1. /\ Set(p, Idle) /\ op[p].at = "done"
      /\ UNCHANGED <<transport, connected, link, pdu, wire, overlap>>
  BY DEF Return, At
<1>2. LinkInv'
  BY <1>1, IdleFields, CallKeepsLinks
<1>3. op'[p] = Idle
  BY <1>1 DEF Set, LinkInv, Shape
<1> QED
  BY <1>2, <1>3

LEMMA CloseTransportStep ==
  ASSUME Shape, Connected, CloseTransport(transport), UNCHANGED <<transport, pdu>>,
         \A p \in Procs : At(p, "install")' => At(p, "install") /\ op'[p].new = op[p].new,
         DOMAIN op' = Procs, \A p \in Procs : DOMAIN op'[p] = Fields, overlap' \in BOOLEAN
  PROVE  /\ Shape' /\ Connected' /\ link'[transport] = "closed"
         /\ \A k \in Links : k # transport => link'[k] = link[k]
<1>1. Shape'
  BY DEF Shape, CloseTransport
<1>2. /\ link'[transport] = "closed" /\ ~connected'[transport] /\ wire'[transport] = <<>>
      /\ \A k \in Links : k # transport => /\ link'[k] = link[k] /\ wire'[k] = wire[k]
                                           /\ connected'[k] = connected[k]
  BY DEF Shape, CloseTransport
<1>3. transport \in Links
  BY DEF Shape
<1>4. Connected'
  BY <1>1, <1>2, <1>3 DEF Connected, At, Up
<1> QED
  BY <1>1, <1>2, <1>4

LEMMA CloseKeepsLinks ==
  ASSUME LinkInv, NEW p \in Procs, Close(p)
  PROVE  LinkInv'
<1> USE DEF LinkInv
<1>1. /\ CloseTransport(transport) /\ overlap' = (overlap \/ Dialling # {})
      /\ UNCHANGED <<transport, pdu, mu, op>>
  BY DEF Close
<1>2. overlap' \in BOOLEAN
  BY <1>1 DEF Shape
<1>3. /\ Shape' /\ Connected' /\ link'[transport] = "closed"
      /\ \A k \in Links : k # transport => link'[k] = link[k]
  BY <1>1, <1>2, CloseTransportStep DEF Shape, At
<1>4. Dialling' = Dialling /\ \A k \in Links : Installing(k)' <=> Installing(k)
  BY <1>1 DEF Dialling, Installing, At
<1>5. OneDials'
  BY <1>1, <1>3, <1>4 DEF OneDials, Up
<1> QED
  BY <1>3, <1>5

LEMMA SetDisconnectedKeepsLinks ==
  ASSUME LinkInv, NEW p \in Procs, SetDisconnected(p)
  PROVE  LinkInv'
<1> USE DEF LinkInv, SetDisconnected
<1>1. Shape'
  BY DEF Shape
<1>2. Connected'
  BY DEF Shape, Connected, At
<1>3. OneDials'
  BY DEF OneDials, Dialling, Installing, At
<1> QED
  BY <1>1, <1>2, <1>3

LEMMA ReconnectKeepsLinks ==
  ASSUME LinkInv, NEW p \in Procs, Reconnect(p)
  PROVE  LinkInv' /\ op'[p].at = "dial" /\ op'[p].kind = "reconnect"
<1> USE DEF LinkInv
<1> DEFINE c == [Idle EXCEPT !.at = "dial", !.kind = "reconnect"]
<1>1. DOMAIN c = Fields /\ c.at = "dial" /\ c.kind = "reconnect"
  BY DEF Idle, Fields
<1>2. /\ CloseTransport(transport) /\ overlap' = (overlap \/ Dialling # {})
      /\ UNCHANGED <<transport, pdu, mu>> /\ op' = [op EXCEPT ![p] = c] /\ op[p].at = "idle"
  BY DEF Reconnect, Set, At
<1> HIDE DEF c
<1>3. \A q \in Procs : op'[q] = IF q = p THEN c ELSE op[q]
  BY <1>2 DEF Shape
<1>4. overlap' \in BOOLEAN
  BY <1>2 DEF Shape
<1>5. /\ Shape' /\ Connected' /\ link'[transport] = "closed"
      /\ \A k \in Links : k # transport => link'[k] = link[k]
  BY <1>1, <1>2, <1>3, <1>4, CloseTransportStep DEF Shape, At
<1>6. Dialling' = Dialling \cup {p} /\ \A k \in Links : Installing(k)' <=> Installing(k)
  BY <1>1, <1>2, <1>3 DEF Dialling, Installing, At
<1>7. OneDials'
  <2> SUFFICES ASSUME ~overlap'
               PROVE  /\ \A q, r \in Dialling' : q = r
                      /\ link'[transport'] = "closed"
                      /\ \A k \in Links : link'[k] \in Up => k = transport' \/ Installing(k)'
      BY DEF OneDials
  <2>1. ~overlap /\ Dialling = {}
    BY <1>2
  <2> QED
    BY <1>2, <1>5, <1>6, <2>1 DEF OneDials
<1> QED
  BY <1>1, <1>3, <1>5, <1>7

LEMMA DialKeepsLinks ==
  ASSUME LinkInv, NEW p \in Procs, Dial(p)
  PROVE  /\ LinkInv' /\ op'[p].at = "install" /\ op'[p].kind = op[p].kind
         /\ pdu'[transport] = pdu[transport]
<1> USE DEF LinkInv
<1>1. PICK k \in Links, size \in PDUSizes :
        /\ link[k] = "unused"
        /\ link' = [link EXCEPT ![k] = "open"] /\ pdu' = [pdu EXCEPT ![k] = size]
        /\ connected' = [connected EXCEPT ![k] = TRUE]
        /\ Set(p, [op[p] EXCEPT !.at = "install", !.new = k])
  BY DEF Dial
<1> DEFINE c == [op[p] EXCEPT !.at = "install", !.new = k]
<1>2. DOMAIN op[p] = Fields
  BY DEF Shape
<1>3. DOMAIN c = Fields /\ c.at = "install" /\ c.new = k /\ c.kind = op[p].kind
  BY <1>2 DEF Fields
<1>4. op[p].at = "dial" /\ UNCHANGED <<transport, wire, mu, overlap>>
  BY DEF Dial, At
<1>5. op' = [op EXCEPT ![p] = c]
  BY <1>1 DEF Set
<1> HIDE DEF c
<1>6. \A q \in Procs : op'[q] = IF q = p THEN c ELSE op[q]
  BY <1>5 DEF Shape
<1>7. Shape'
  BY <1>1, <1>3, <1>4, <1>5, <1>6 DEF Shape
<1>8. /\ k # transport /\ wire[k] = <<>> /\ link'[k] = "open"
      /\ \A j \in Links : j # k => link'[j] = link[j] /\ connected'[j] = connected[j]
  BY <1>1 DEF Shape, Connected
<1>9. Connected'
  <2>1. \A j \in Links : connected'[j] => link'[j] \in Up /\ wire'[j] = <<>>
    BY <1>4, <1>8 DEF Connected, Up
  <2>2. \A j \in Links : link'[j] = "unused" => wire'[j] = <<>>
    BY <1>4, <1>8 DEF Connected
  <2>3. transport \in Links
    BY DEF Shape
  <2>4. link'[transport'] # "unused"
    BY <1>4, <1>8, <2>3 DEF Connected
  <2>5. \A q \in Procs : At(q, "install")' => op'[q].new \in Links /\ link'[op'[q].new] # "unused"
    BY <1>1, <1>3, <1>6, <1>8 DEF Connected, At
  <2> QED
    BY <2>1, <2>2, <2>4, <2>5 DEF Connected
<1>10. Dialling' = Dialling /\ p \in Dialling
  BY <1>3, <1>4, <1>6 DEF Dialling
<1>11. /\ Installing(k)'
       /\ \A j \in Links : Installing(j) => Installing(j)'
  BY <1>3, <1>4, <1>6 DEF Installing, At
<1>12. OneDials'
  BY <1>4, <1>8, <1>10, <1>11 DEF OneDials, Shape
<1>13. pdu'[transport] = pdu[transport]
  BY <1>1, <1>8 DEF Shape
<1> QED
  BY <1>3, <1>6, <1>7, <1>9, <1>12, <1>13

LEMMA DialFailsKeepsLinks ==
  ASSUME LinkInv, NEW p \in Procs, DialFails(p)
  PROVE  LinkInv' /\ op'[p] = Idle
<1> USE DEF LinkInv
<1>1. /\ op' = [op EXCEPT ![p] = Idle] /\ op[p].at = "dial"
      /\ UNCHANGED <<transport, connected, link, pdu, wire, mu, overlap>>
  BY DEF DialFails, Set, At
<1>2. \A q \in Procs : op'[q] = IF q = p THEN Idle ELSE op[q]
  BY <1>1 DEF Shape
<1>3. Shape'
  BY <1>1, <1>2, IdleFields DEF Shape
<1>4. Connected'
  BY <1>1, <1>2, IdleFields DEF Connected, At
<1>5. Dialling' \subseteq Dialling /\ \A k \in Links : Installing(k) => Installing(k)'
  BY <1>1, <1>2, IdleFields DEF Dialling, Installing, At
<1>6. OneDials'
  BY <1>1, <1>5 DEF OneDials
<1> QED
  BY <1>2, <1>3, <1>4, <1>6

LEMMA InstallKeepsLinks ==
  ASSUME LinkInv, NEW p \in Procs, Install(p)
  PROVE  LinkInv' /\ op'[p] = Idle
<1> USE DEF LinkInv
<1>1. /\ op' = [op EXCEPT ![p] = Idle] /\ op[p].at = "install" /\ transport' = op[p].new
      /\ UNCHANGED <<connected, link, pdu, wire, mu, overlap>>
  BY DEF Install, Set, At
<1>2. \A q \in Procs : op'[q] = IF q = p THEN Idle ELSE op[q]
  BY <1>1 DEF Shape
<1>3. op[p].new \in Links /\ link[op[p].new] # "unused"
  BY <1>1 DEF Connected, At
<1>4. Shape'
  BY <1>1, <1>2, <1>3, IdleFields DEF Shape
<1>5. Connected'
  BY <1>1, <1>2, <1>3, IdleFields DEF Connected, At
<1>6. Dialling' = Dialling \ {p} /\ p \in Dialling
  BY <1>1, <1>2, IdleFields DEF Dialling
<1>7. OneDials'
  <2> SUFFICES ASSUME ~overlap
               PROVE  Dialling' = {} /\ \A k \in Links : link[k] \in Up => k = transport'
      BY <1>1 DEF OneDials
  <2>1. (\A q, r \in Dialling : q = r) /\ link[transport] = "closed"
    BY <1>6 DEF OneDials
  <2>2. \A k \in Links : Installing(k) => k = op[p].new
    BY <1>6, <2>1 DEF Installing, Dialling, At
  <2> QED
    BY <1>1, <1>6, <2>1, <2>2 DEF OneDials, Up
<1> QED
  BY <1>2, <1>4, <1>5, <1>7

LEMMA BreakKeepsLinks ==
  ASSUME LinkInv, NEW k \in Links, Break(k)
  PROVE  LinkInv'
<1> USE DEF LinkInv
<1>1. /\ link[k] = "open" /\ link' = [link EXCEPT ![k] = "broken"]
      /\ UNCHANGED <<transport, connected, pdu, wire, mu, op, overlap>>
  BY DEF Break
<1>2. Shape'
  BY <1>1 DEF Shape
<1>3. Connected'
  BY <1>1 DEF Shape, Connected, At, Up
<1>4. OneDials'
  BY <1>1 DEF Shape, OneDials, Dialling, Installing, At, Up
<1> QED
  BY <1>2, <1>3, <1>4

-----------------------------------------------------------------------------
(* The writes *)

\* The stretch a request covers is the next one of its variable.
LEMMA CoverNext ==
  ASSUME NEW a \in Addresses, NEW d \in Nat, NEW n \in Nat \ {0}, Addressable(a, d + n),
         NEW item, (item = S7Any(a) /\ d = 0) \/ item = S7Any(Chunk(a, d, n)),
         NEW parts, parts = IF d = 0 THEN <<>> ELSE <<[Variable(a) EXCEPT !.len = d]>>
  PROVE  Join(parts, [Denotes(item) EXCEPT !.len = n]) = <<[Variable(a) EXCEPT !.len = d + n]>>
<1> DEFINE v == Variable(a)
           db == IF a.area = "DB" THEN a.db ELSE 0
           len == v.len
<1>1. v = Stretch(a.area, db, a.off, len) /\ v.off = a.off /\ a.off \in Nat
  BY DEF Variable, Stretch, Addresses
<1>2. [Denotes(item) EXCEPT !.len = n] = Moved(v, a.off + d, n)
  <2>1. CASE item = S7Any(a) /\ d = 0
    <3>1. Addressable(a, n)
      BY <2>1
    <3>2. [Denotes(item) EXCEPT !.len = n] = [v EXCEPT !.len = n]
      BY <2>1, <3>1, DenotesWhole
    <3> HIDE DEF v, db, len
    <3>3. [v EXCEPT !.len = n] = Stretch(a.area, db, a.off, n)
      BY <1>1 DEF Stretch
    <3>4. Moved(v, a.off + d, n) = Stretch(a.area, db, a.off + d, n)
      BY <1>1, MovedStretch
    <3> QED
      BY <1>1, <2>1, <3>2, <3>3, <3>4
  <2>2. CASE item = S7Any(Chunk(a, d, n))
    BY <2>2, DenotesChunk
  <2> QED
    BY <2>1, <2>2
<1> HIDE DEF v, db, len
<1>3. Join(parts, Moved(v, a.off + d, n)) = <<[v EXCEPT !.len = d + n]>>
  <2>1. parts = IF d = 0 THEN <<>> ELSE <<[v EXCEPT !.len = d]>>
    BY DEF v
  <2> QED
    BY <1>1, <2>1, JoinNext
<1> QED
  BY <1>2, <1>3 DEF v

LEMMA PayloadSize ==
  ASSUME NEW size \in PDUSizes
  PROVE  WritePayload(size) \in Nat \ {0}
<1>1. size \in Nat
  BY PDUSizesAssumption
<1> QED
  BY <1>1 DEF WritePayload

LEMMA GoodTarget ==
  ASSUME NEW c, GoodWrite(c), c.target # BadAddress
  PROVE  c.target \in Addresses /\ c.args \in Writes
  BY WriteAddressType DEF GoodWrite

\* How far a request takes a write.
LEMMA NextChunk ==
  ASSUME NEW data \in Nat, NEW done \in Nat, done < data, NEW most \in Nat \ {0},
         done > 0 => data > most, NEW c, c.data = data, c.done = done
  PROVE  LET n == Room2(c, most)
         IN  /\ n \in Nat \ {0} /\ done + n <= data
             /\ done + n # data => data > most
             /\ data <= most => done = 0
  BY DEF Room2

LEMMA OthersWrite ==
  ASSUME Writing, NEW p \in Procs, \A q \in Procs : q # p => op'[q] = op[q],
         \A q \in Procs : q # p /\ At(q, "write") => pdu'[transport'] = pdu[transport],
         op'[p].kind = "write" => GoodWrite(op[p])',
         op'[p].at \in {"header", "write"} => op'[p].kind = "write"
  PROVE  Writing'
<1> SUFFICES ASSUME NEW q \in Procs, q # p
             PROVE  /\ op'[q].kind = "write" => GoodWrite(op[q])'
                    /\ op'[q].at \in {"header", "write"} => op'[q].kind = "write"
    BY DEF Writing, At
<1>1. op'[q] = op[q]
  OBVIOUS
<1>2. op[q].kind = "write" => GoodWrite(op[q])
  BY DEF Writing
<1>3. op[q].at = "write" => pdu'[transport'] = pdu[transport]
  BY DEF At
<1>4. GoodWrite(op[q]) => GoodWrite(op[q])'
  BY <1>1, <1>3 DEF GoodWrite, Covered, Overruns
<1> QED
  BY <1>1, <1>2, <1>4 DEF Writing, At

\* A write that has just begun, ended or not.
LEMMA BegunIsGood ==
  ASSUME NEW w \in Writes, NEW p \in Procs, op'[p] = Begun(w)
  PROVE  /\ GoodWrite(op[p])' /\ op'[p].kind = "write" /\ op'[p].at \in Busy
<1> DEFINE a == WriteAddress(w)
           c == [Idle EXCEPT !.kind = "write", !.args = w, !.target = a]
           n == Encoded(a, w)
           d == op'[p]
<1>1. /\ c.kind = "write" /\ c.args = w /\ c.target = a /\ c.data = 0 /\ c.done = 0
      /\ c.wrote = <<>> /\ ~c.fell /\ DOMAIN c = Fields
  BY DEF Idle, Fields
<1>2. a \in Addresses \cup {BadAddress}
  BY WriteAddressType
<1>3. a # BadAddress => n \in Nat
  BY <1>2, EncodedFits
<1> HIDE DEF c
<1>4. \/ d = EndWrite(c, TRUE)
      \/ a # BadAddress /\ a.type \in StringTypes /\ d = [c EXCEPT !.at = "header"]
      \/ a # BadAddress /\ n # 0 /\ d = [c EXCEPT !.at = "write", !.data = n]
  BY DEF Begun, c
<1> HIDE DEF a, n, d
<1>5. /\ d.kind = "write" /\ d.args = w /\ d.target = a /\ d.done = 0 /\ d.wrote = <<>>
      /\ ~d.fell /\ d.at \in {"done", "header", "write"}
      /\ d.at = "done" => d.failed /\ d.data = 0
      /\ d.at = "header" => d.data = 0 /\ a # BadAddress /\ a.type \in StringTypes
      /\ d.at = "write" => d.data = n /\ n \in Nat /\ n > 0 /\ a # BadAddress
  <2>1. CASE d = EndWrite(c, TRUE)
    BY <1>1, <2>1 DEF EndWrite, Fields
  <2>2. CASE a # BadAddress /\ a.type \in StringTypes /\ d = [c EXCEPT !.at = "header"]
    BY <1>1, <2>2 DEF Fields
  <2>3. CASE a # BadAddress /\ n # 0 /\ d = [c EXCEPT !.at = "write", !.data = n]
    <3>1. n \in Nat /\ n > 0
      BY <1>3, <2>3
    <3> QED
      BY <1>1, <2>3, <3>1 DEF Fields
  <2> QED
    BY <1>4, <2>1, <2>2, <2>3
<1>6. a # BadAddress /\ ~Overruns(d) => d.data <= Variable(a).len
  <2>1. SUFFICES ASSUME a # BadAddress, ~Overruns(d)
                 PROVE  d.data <= Variable(a).len
    OBVIOUS
  <2>2. a \in Addresses
    BY <1>2, <2>1
  <2>3. Variable(a).len \in Nat /\ w.n \in Nat /\ a.count \in Nat
    BY <2>2, RoomSize, WritesAssumption DEF Addresses
  <2>4. w.n <= a.count /\ ~(w.n > 0 /\ w.kind = "real")
    BY <1>5, <2>1, <2>3 DEF Overruns
  <2>5. n <= Variable(a).len
    BY <2>2, <2>4, EncodedFits DEF n
  <2> QED
    BY <1>5, <2>3, <2>5
<1>7. Covered(d, 0) /\ 0 \in 0..d.data
  BY <1>5 DEF Covered
<1>8. GoodWrite(op[p])'
  BY <1>5, <1>6, <1>7 DEF GoodWrite, a, d, Covered, Overruns
<1> QED
  BY <1>5, <1>8 DEF Busy, d

\* The header of a string has been read, or not.
LEMMA HeaderIsGood ==
  ASSUME NEW p \in Procs, GoodWrite(op[p]), op[p].at = "header", DOMAIN op[p] = Fields,
         NEW whole, NEW answer, op'[p] = AfterHeader(op[p], whole, answer)
  PROVE  GoodWrite(op[p])'
<1> DEFINE c == op[p]
           d == op'[p]
           count == IF c.args.n = 0 THEN 1 ELSE c.args.n
           read == answer = whole /\ whole # Refused
           max == IF read THEN Declared ELSE 254
           next == [c EXCEPT !.broke = answer = None]
           data == count * StringSize(c.target.type, max)
<1>1. /\ c.args \in Writes /\ c.target = WriteAddress(c.args) /\ c.target # BadAddress
      /\ c.done = 0 /\ c.data = 0 /\ c.target.type \in StringTypes /\ ~c.fell
  BY DEF GoodWrite
<1>2. c.target \in Addresses
  BY <1>1, GoodTarget
<1>3. data \in Nat \ {0}
  BY <1>1, <1>2, HeaderFits
<1>4. Addressable(c.target, 0) => c.wrote = <<>>
  BY <1>1 DEF GoodWrite, Covered
<1>5. /\ next.args = c.args /\ next.target = c.target /\ next.done = 0 /\ next.data = 0
      /\ next.wrote = c.wrote /\ ~next.fell /\ DOMAIN next = Fields
  BY <1>1 DEF Fields
<1>6. d = IF ~read /\ c.args.n > 0 THEN EndWrite(next, TRUE)
          ELSE [next EXCEPT !.at = "write", !.fell = ~read, !.data = data]
  BY DEF AfterHeader
<1> HIDE DEF c, d, next, data
<1>7. /\ d.args = c.args /\ d.target = c.target /\ d.done = 0 /\ d.wrote = c.wrote
      /\ \/ d.at = "done" /\ d.failed /\ d.data = 0
         \/ d.at = "write" /\ d.data = data /\ (d.fell <=> ~read)
  <2>1. CASE ~read /\ c.args.n > 0
    BY <1>5, <1>6, <2>1 DEF EndWrite, Fields
  <2>2. CASE ~(~read /\ c.args.n > 0)
    <3> HIDE DEF read
    <3> QED
      BY <1>5, <1>6, <2>2 DEF Fields
  <2> QED
    BY <2>1, <2>2
<1>8. ~Overruns(d) => d.data <= Variable(d.target).len
  <2>1. Variable(c.target).len \in Nat
    BY <1>2, RoomSize
  <2>2. CASE d.at = "done"
    BY <1>7, <2>1, <2>2
  <2>3. CASE d.at = "write" /\ ~Overruns(d)
    <3>1. read /\ c.args.n <= c.target.count
      BY <1>1, <1>2, <1>7, <2>3, WritesAssumption DEF Overruns, Addresses
    <3>2. max = Declared
      BY <3>1
    <3>3. count * StringSize(c.target.type, Declared) <= Variable(c.target).len
      BY <1>1, <1>2, <3>1, HeaderFits
    <3> QED
      BY <1>7, <2>3, <3>2, <3>3 DEF data
  <2> QED
    BY <1>7, <2>2, <2>3
<1>9. d.data \in Nat /\ (Addressable(d.target, d.data) => d.wrote = <<>> /\ 0 \in 0..d.data)
  <2>1. d.data \in Nat
    BY <1>3, <1>7
  <2>2. c.target.off \in Nat
    BY <1>2 DEF Addresses
  <2> QED
    BY <1>4, <1>7, <2>1, <2>2 DEF Addressable
<1>10. d.target # BadAddress /\ d.args \in Writes /\ d.target = WriteAddress(d.args)
  BY <1>1, <1>7
<1>11. Addressable(d.target, d.data) => 0 \in 0..d.data /\ Covered(d, 0)
  BY <1>9 DEF Covered
<1>12. GoodWrite(d)
  BY <1>3, <1>7, <1>8, <1>9, <1>10, <1>11 DEF GoodWrite
<1> QED
  BY <1>7, <1>12 DEF GoodWrite, d, Covered, Overruns

\* A request of a write has been answered, or not.
LEMMA WriteIsGood ==
  ASSUME Shape, NEW p \in Procs, GoodWrite(op[p]), op[p].at = "write",
         UNCHANGED <<transport, pdu>>,
         NEW most, most = WritePayload(pdu[transport]), NEW n, n = Room2(op[p], most),
         NEW item, item = WriteItem(op[p], most, n), NEW answer, NEW sent,
         sent \in {WriteAnswer(item, n), Refused},
         answer \notin {None, Refused} => sent = WriteAnswer(item, n),
         op'[p] = AfterWrite(op[p], item, n, answer, sent)
  PROVE  GoodWrite(op[p])'
<1> DEFINE c == op[p]
           d == op'[p]
           a == c.target
           parts == IF sent = Refused THEN c.wrote ELSE Join(c.wrote, sent[1].bytes)
           wrote == [c EXCEPT !.wrote = parts, !.broke = @ \/ answer = None]
<1>1. /\ c.args \in Writes /\ a = WriteAddress(c.args) /\ a # BadAddress /\ DOMAIN c = Fields
      /\ c.data \in Nat /\ c.done \in Nat /\ c.done < c.data
      /\ c.done > 0 => c.data > most
  BY DEF GoodWrite, Shape
<1>2. a \in Addresses
  BY <1>1, GoodTarget
<1>3. pdu[transport] \in PDUSizes
  BY DEF Shape
<1>4. /\ n \in Nat \ {0} /\ c.done + n <= c.data
      /\ c.done + n # c.data => c.data > most
      /\ c.data <= most => c.done = 0
  BY <1>1, <1>3, PayloadSize, NextChunk
<1>5. sent # Refused => sent[1].bytes = [Denotes(item) EXCEPT !.len = n]
  BY DEF WriteAnswer
<1>6. sent = Refused \/ sent # Refused
  OBVIOUS
<1>7. WriteAnswer(item, n) # Refused
  BY DEF WriteAnswer, Refused
<1>8. Addressable(a, c.data) =>
        parts = IF sent = Refused
                THEN IF c.done = 0 THEN <<>> ELSE <<[Variable(a) EXCEPT !.len = c.done]>>
                ELSE <<[Variable(a) EXCEPT !.len = c.done + n]>>
  <2> SUFFICES ASSUME Addressable(a, c.data)
               PROVE  parts = IF sent = Refused
                THEN IF c.done = 0 THEN <<>> ELSE <<[Variable(a) EXCEPT !.len = c.done]>>
                ELSE <<[Variable(a) EXCEPT !.len = c.done + n]>>
    OBVIOUS
  <2>1. c.wrote = IF c.done = 0 THEN <<>> ELSE <<[Variable(a) EXCEPT !.len = c.done]>>
    BY <1>1 DEF GoodWrite, Covered
  <2>2. CASE sent = Refused
    BY <2>1, <2>2
  <2>3. CASE sent # Refused
    <3>1. Addressable(a, c.done + n)
      BY <1>1, <1>2, <1>4 DEF Addressable, Addresses
    <3>2. (item = S7Any(a) /\ c.done = 0) \/ item = S7Any(Chunk(a, c.done, n))
      BY <1>4 DEF WriteItem
    <3>3. Join(c.wrote, [Denotes(item) EXCEPT !.len = n])
            = <<[Variable(a) EXCEPT !.len = c.done + n]>>
      BY <1>1, <1>2, <1>4, <2>1, <3>1, <3>2, CoverNext
    <3> QED
      BY <1>5, <2>3, <3>3
  <2> QED
    BY <2>2, <2>3
<1> HIDE DEF parts
<1>9. /\ wrote.args = c.args /\ wrote.target = a /\ wrote.done = c.done /\ wrote.data = c.data
      /\ wrote.wrote = parts /\ wrote.fell = c.fell /\ wrote.at = "write" /\ DOMAIN wrote = Fields
  BY <1>1 DEF Fields
<1>10. d = IF answer \in {None, Refused} THEN EndWrite(wrote, TRUE)
           ELSE IF c.done + n = c.data THEN EndWrite(wrote, FALSE)
           ELSE [wrote EXCEPT !.done = c.done + n]
  BY DEF AfterWrite, parts
<1> HIDE DEF c, d, wrote, a
<1>11. /\ d.args = c.args /\ d.target = a /\ d.data = c.data /\ d.fell = c.fell
       /\ d.wrote = parts
       /\ \/ d.at = "done" /\ d.failed /\ d.done = c.done
          \/ /\ d.at = "done" /\ d.done = c.done /\ c.done + n = c.data
             /\ answer \notin {None, Refused}
          \/ /\ d.at = "write" /\ d.done = c.done + n /\ c.done + n # c.data
             /\ answer \notin {None, Refused}
  <2>1. CASE answer \in {None, Refused}
    BY <1>9, <1>10, <2>1 DEF EndWrite, Fields
  <2>2. CASE answer \notin {None, Refused} /\ c.done + n = c.data
    <3>1. d = EndWrite(wrote, FALSE)
      BY <1>10, <2>2
    <3> QED
      BY <1>9, <2>2, <3>1 DEF EndWrite, Fields
  <2>3. CASE answer \notin {None, Refused} /\ c.done + n # c.data
    <3>1. d = [wrote EXCEPT !.done = c.done + n]
      BY <1>10, <2>3
    <3> QED
      BY <1>9, <2>3, <3>1 DEF Fields
  <2> QED
    BY <2>1, <2>2, <2>3
<1>12. d.data \in Nat /\ d.done \in Nat /\ (d.at = "write" => d.done < d.data /\ d.data > most)
  BY <1>1, <1>4, <1>11
<1>13. ASSUME Addressable(a, d.data)
       PROVE  \E m \in 0..d.data : /\ Covered(d, m)
                                   /\ d.at \in {"header", "write"} => m = d.done
                                   /\ d.at = "done" /\ ~d.failed => m = d.data /\ m > 0
  <2> DEFINE m == IF sent = Refused THEN c.done ELSE c.done + n
  <2>1. m \in 0..d.data
    BY <1>1, <1>4, <1>11
  <2>2. Covered(d, m)
    BY <1>1, <1>4, <1>8, <1>11, <1>13 DEF Covered
  <2>3. answer \notin {None, Refused} => m = c.done + n
    BY <1>7
  <2> HIDE DEF m
  <2>4. d.at \in {"header", "write"} => m = d.done
    BY <1>11, <2>3
  <2>5. d.at = "done" /\ ~d.failed => m = d.data /\ m > 0
    BY <1>1, <1>4, <1>11, <2>3
  <2> QED
    BY <2>1, <2>2, <2>4, <2>5
<1>14. ~Overruns(d) => d.data <= Variable(d.target).len
  BY <1>1, <1>11 DEF GoodWrite, Overruns, c, a
<1>15. d.args \in Writes /\ d.target = WriteAddress(d.args) /\ d.target # BadAddress
  BY <1>1, <1>11
<1>16. GoodWrite(d)
  BY <1>11, <1>12, <1>13, <1>14, <1>15 DEF GoodWrite
<1> QED
  BY <1>16 DEF GoodWrite, Covered, Overruns, d

-----------------------------------------------------------------------------
(* The invariant *)

LEMMA SetOthers ==
  ASSUME Shape, NEW p \in Procs, NEW c, Set(p, c)
  PROVE  op'[p] = c /\ \A q \in Procs : q # p => op'[q] = op[q]
  BY DEF Shape, Set

\* c.mu is taken and kept by the one whose call it is.
LEMMA LockKept ==
  ASSUME Locked, NEW p \in Procs, \A q \in Procs : q # p => op'[q] = op[q],
         \/ op'[p].at \in Busy /\ mu' = p /\ mu \in {None, p}
         \/ op'[p].at \notin Busy /\ mu' = mu
         \/ op'[p].at \notin Busy /\ op[p].at \in Busy
  PROVE  Locked'
  BY NoneAssumption DEF Locked

LEMMA ExchangeKeepsLock ==
  ASSUME IInv, NEW p \in Procs, Exchanged(p)
  PROVE  /\ Locked' /\ UNCHANGED <<transport, pdu>> /\ op'[p].kind = op[p].kind
         /\ \A q \in Procs : q # p => op'[q] = op[q]
<1>1. PICK c : Set(p, c) /\ c.at \in Busy /\ c.kind = op[p].kind
  BY DEF Exchanged, Turn
<1>2. op'[p] = c /\ \A q \in Procs : q # p => op'[q] = op[q]
  BY <1>1, SetOthers DEF IInv, LinkInv
<1>3. op[p].at \in Busy /\ UNCHANGED <<transport, pdu, mu>>
  BY DEF Exchanged, Busy
<1>4. mu = p
  BY <1>3 DEF IInv, Locked
<1>5. Locked'
  BY <1>1, <1>2, <1>3, <1>4, LockKept DEF IInv
<1> QED
  BY <1>1, <1>2, <1>3, <1>5

LEMMA ReadKeepsInv ==
  ASSUME IInv, NEW p \in Procs, ReadBatch(p) \/ ReadChunk(p)
  PROVE  IInv'
<1>1. Exchanged(p) /\ op[p].at = "read" /\ op'[p].at = "read"
  BY ReadBatchExchanges, ReadChunkExchanges DEF IInv, LinkInv
<1>2. LinkInv'
  BY <1>1, ExchangeKeepsLinks DEF IInv
<1>3. /\ Locked' /\ UNCHANGED <<transport, pdu>> /\ op'[p].kind = op[p].kind
      /\ \A q \in Procs : q # p => op'[q] = op[q]
  BY <1>1, ExchangeKeepsLock
<1>4. op'[p].kind # "write"
  BY <1>1, <1>3 DEF IInv, Writing, GoodWrite
<1>5. Writing'
  BY <1>1, <1>3, <1>4, OthersWrite DEF IInv
<1> QED
  BY <1>2, <1>3, <1>5 DEF IInv

LEMMA HeaderKeepsInv ==
  ASSUME IInv, NEW p \in Procs, ReadHeader(p)
  PROVE  IInv'
<1>1. Exchanged(p) /\ op[p].at = "header"
  BY HeaderExchanges DEF IInv, LinkInv, ReadHeader, At
<1>2. LinkInv'
  BY <1>1, ExchangeKeepsLinks DEF IInv
<1>3. /\ Locked' /\ UNCHANGED <<transport, pdu>> /\ op'[p].kind = op[p].kind
      /\ \A q \in Procs : q # p => op'[q] = op[q]
  BY <1>1, ExchangeKeepsLock
<1>4. op[p].kind = "write" /\ GoodWrite(op[p]) /\ DOMAIN op[p] = Fields
  BY <1>1 DEF IInv, Writing, At, LinkInv, Shape
<1>5. PICK whole, answer : Set(p, AfterHeader(op[p], whole, answer))
  BY HeaderStep
<1>6. op'[p] = AfterHeader(op[p], whole, answer)
  BY <1>5, SetOthers DEF IInv, LinkInv
<1>7. GoodWrite(op[p])'
  BY <1>1, <1>4, <1>6, HeaderIsGood
<1>8. Writing'
  BY <1>3, <1>4, <1>7, OthersWrite DEF IInv
<1> QED
  BY <1>2, <1>3, <1>8 DEF IInv

LEMMA WriteKeepsInv ==
  ASSUME IInv, NEW p \in Procs, Write(p)
  PROVE  IInv'
<1>1. Exchanged(p) /\ op[p].at = "write"
  BY WriteExchanges DEF IInv, LinkInv, Write, At
<1>2. LinkInv'
  BY <1>1, ExchangeKeepsLinks DEF IInv
<1>3. /\ Locked' /\ UNCHANGED <<transport, pdu>> /\ op'[p].kind = op[p].kind
      /\ \A q \in Procs : q # p => op'[q] = op[q]
  BY <1>1, ExchangeKeepsLock
<1>4. op[p].kind = "write" /\ GoodWrite(op[p]) /\ Shape /\ Connected
  BY <1>1 DEF IInv, Writing, At, LinkInv
<1> DEFINE most == WritePayload(pdu[transport])
           n == Room2(op[p], most)
           item == WriteItem(op[p], most, n)
<1>5. PICK answer, sent : /\ Set(p, AfterWrite(op[p], item, n, answer, sent))
                          /\ sent \in {WriteAnswer(item, n), Refused}
                          /\ answer \notin {None, Refused} => sent = WriteAnswer(item, n)
  BY <1>4, WriteStep
<1>6. op'[p] = AfterWrite(op[p], item, n, answer, sent)
  BY <1>4, <1>5, SetOthers
<1>7. GoodWrite(op[p])'
  BY <1>1, <1>3, <1>4, <1>5, <1>6, WriteIsGood
<1>8. Writing'
  BY <1>3, <1>4, <1>7, OthersWrite DEF IInv
<1> QED
  BY <1>2, <1>3, <1>8 DEF IInv

LEMMA BeginReadKeepsInv ==
  ASSUME IInv, NEW p \in Procs, BeginRead(p)
  PROVE  IInv'
<1>1. LinkInv' /\ op'[p].at = "read" /\ op'[p].kind = "read"
  BY BeginReadKeepsLinks DEF IInv
<1>2. /\ \E c : Set(p, c)
      /\ mu = None /\ mu' = p /\ UNCHANGED <<transport, pdu>>
  BY DEF BeginRead, Lock
<1>3. \A q \in Procs : q # p => op'[q] = op[q]
  BY <1>2, SetOthers DEF IInv, LinkInv
<1>4. Locked'
  BY <1>1, <1>2, <1>3, LockKept DEF IInv, Busy
<1>5. Writing'
  BY <1>1, <1>2, <1>3, OthersWrite DEF IInv
<1> QED
  BY <1>1, <1>4, <1>5 DEF IInv

LEMMA BeginWriteKeepsInv ==
  ASSUME IInv, NEW p \in Procs, BeginWrite(p)
  PROVE  IInv'
<1>1. LinkInv' /\ \E w \in Writes : op'[p] = Begun(w)
  BY BeginWriteKeepsLinks DEF IInv
<1>2. GoodWrite(op[p])' /\ op'[p].kind = "write" /\ op'[p].at \in Busy
  BY <1>1, BegunIsGood
<1>3. /\ \E c : Set(p, c)
      /\ mu = None /\ mu' = p /\ UNCHANGED <<transport, pdu>>
  BY DEF BeginWrite, Lock
<1>4. \A q \in Procs : q # p => op'[q] = op[q]
  BY <1>3, SetOthers DEF IInv, LinkInv
<1>5. Locked'
  BY <1>2, <1>3, <1>4, LockKept DEF IInv
<1>6. Writing'
  BY <1>2, <1>3, <1>4, OthersWrite DEF IInv
<1> QED
  BY <1>1, <1>5, <1>6 DEF IInv

LEMMA EndReadKeepsInv ==
  ASSUME IInv, NEW p \in Procs, EndRead(p)
  PROVE  IInv'
<1>1. LinkInv' /\ op'[p].at = "done" /\ op'[p].kind = op[p].kind
  BY EndReadKeepsLinks DEF IInv
<1>2. /\ \E c : Set(p, c)
      /\ op[p].at = "read" /\ UNCHANGED <<transport, pdu, mu>>
  BY DEF EndRead, At
<1>3. \A q \in Procs : q # p => op'[q] = op[q]
  BY <1>2, SetOthers DEF IInv, LinkInv
<1>4. Locked'
  BY <1>1, <1>2, <1>3, LockKept DEF IInv, Busy, Locked
<1>5. op'[p].kind # "write"
  BY <1>1, <1>2 DEF IInv, Writing, GoodWrite
<1>6. Writing'
  BY <1>1, <1>2, <1>3, <1>5, OthersWrite DEF IInv
<1> QED
  BY <1>1, <1>4, <1>6 DEF IInv

\* A goroutine that is now outside every call.
LEMMA IdleKeepsInv ==
  ASSUME IInv, NEW p \in Procs, LinkInv', Set(p, Idle),
         mu' = mu \/ op[p].at \in Busy,
         \A q \in Procs : q # p /\ At(q, "write") => pdu'[transport'] = pdu[transport]
  PROVE  IInv'
<1>1. op'[p] = Idle /\ \A q \in Procs : q # p => op'[q] = op[q]
  BY SetOthers DEF IInv, LinkInv
<1>2. Locked'
  BY <1>1, IdleFields, LockKept DEF IInv, Busy
<1>3. Writing'
  BY <1>1, IdleFields, OthersWrite DEF IInv
<1> QED
  BY <1>2, <1>3 DEF IInv

LEMMA ReturnKeepsInv ==
  ASSUME IInv, NEW p \in Procs, Return(p)
  PROVE  IInv'
<1>1. LinkInv'
  BY ReturnKeepsLinks DEF IInv
<1>2. Set(p, Idle) /\ op[p].at \in Busy /\ UNCHANGED <<transport, pdu>>
  BY DEF Return, At, Busy
<1> QED
  BY <1>1, <1>2, IdleKeepsInv

LEMMA DialFailsKeepsInv ==
  ASSUME IInv, NEW p \in Procs, DialFails(p)
  PROVE  IInv'
<1>1. LinkInv'
  BY DialFailsKeepsLinks DEF IInv
<1>2. Set(p, Idle) /\ UNCHANGED <<transport, pdu, mu>>
  BY DEF DialFails
<1> QED
  BY <1>1, <1>2, IdleKeepsInv

LEMMA InstallKeepsInv ==
  ASSUME IInv, NEW p \in Procs, Install(p)
  PROVE  IInv'
<1>1. LinkInv'
  BY InstallKeepsLinks DEF IInv
<1>2. Set(p, Idle) /\ UNCHANGED mu /\ mu = None
  BY DEF Install
<1>3. \A q \in Procs : ~At(q, "write")
  BY <1>2, NoneAssumption DEF IInv, Locked, Busy, At
<1> QED
  BY <1>1, <1>2, <1>3, IdleKeepsInv

LEMMA DialKeepsInv ==
  ASSUME IInv, NEW p \in Procs, Dial(p)
  PROVE  IInv'
<1>1. /\ LinkInv' /\ op'[p].at = "install" /\ op'[p].kind = op[p].kind
      /\ pdu'[transport] = pdu[transport]
  BY DialKeepsLinks DEF IInv
<1>2. /\ \E c : Set(p, c)
      /\ op[p].at = "dial" /\ UNCHANGED <<transport, mu>>
  BY DEF Dial, At
<1>3. \A q \in Procs : q # p => op'[q] = op[q]
  BY <1>2, SetOthers DEF IInv, LinkInv
<1>4. Locked'
  BY <1>1, <1>2, <1>3, LockKept DEF IInv, Busy
<1>5. op'[p].kind # "write"
  BY <1>1, <1>2 DEF IInv, Writing, GoodWrite
<1>6. Writing'
  BY <1>1, <1>2, <1>3, <1>5, OthersWrite DEF IInv
<1> QED
  BY <1>1, <1>4, <1>6 DEF IInv

LEMMA ReconnectKeepsInv ==
  ASSUME IInv, NEW p \in Procs, Reconnect(p)
  PROVE  IInv'
<1>1. LinkInv' /\ op'[p].at = "dial" /\ op'[p].kind = "reconnect"
  BY ReconnectKeepsLinks DEF IInv
<1>2. (\E c : Set(p, c)) /\ UNCHANGED <<transport, pdu, mu>>
  BY DEF Reconnect
<1>3. \A q \in Procs : q # p => op'[q] = op[q]
  BY <1>2, SetOthers DEF IInv, LinkInv
<1>4. Locked'
  BY <1>1, <1>2, <1>3, LockKept DEF IInv, Busy
<1>5. Writing'
  BY <1>1, <1>2, <1>3, OthersWrite DEF IInv
<1> QED
  BY <1>1, <1>4, <1>5 DEF IInv

\* Steps outside every call: the connection alone changes.
LEMMA CallsUnchanged ==
  ASSUME IInv, LinkInv', UNCHANGED <<transport, pdu, mu, op>>
  PROVE  IInv'
  BY DEF IInv, Locked, Writing, GoodWrite, Covered, Overruns, At

LEMMA InitInv == Init => IInv
<1> SUFFICES ASSUME Init
             PROVE  IInv
  OBVIOUS
<1>1. 1 \in Links
  BY MaxLinksAssumption DEF Links
<1>2. Shape
  BY <1>1, IdleFields DEF Init, Shape
<1>3. Connected
  BY <1>1, IdleFields DEF Init, Connected, At, Up
<1>4. Dialling = {} /\ OneDials
  BY <1>1, IdleFields DEF Init, OneDials, Dialling, Up
<1>5. Locked /\ Writing
  BY IdleFields DEF Init, Locked, Busy, Writing, At
<1> QED
  BY <1>2, <1>3, <1>4, <1>5 DEF IInv, LinkInv

LEMMA NextInv == IInv /\ [Next]_vars => IInv'
<1> SUFFICES ASSUME IInv, [Next]_vars
             PROVE  IInv'
  OBVIOUS
<1>1. ASSUME NEW p \in Procs, BeginRead(p) \/ BeginWrite(p)
      PROVE  IInv'
  BY <1>1, BeginReadKeepsInv, BeginWriteKeepsInv
<1>2. ASSUME NEW p \in Procs, Step(p)
      PROVE  IInv'
  BY <1>2, ReadKeepsInv, EndReadKeepsInv, HeaderKeepsInv, WriteKeepsInv, ReturnKeepsInv,
     DialKeepsInv, DialFailsKeepsInv, InstallKeepsInv DEF Step
<1>3. ASSUME NEW p \in Procs, Close(p) \/ SetDisconnected(p)
      PROVE  IInv'
  <2>1. LinkInv'
    BY <1>3, CloseKeepsLinks, SetDisconnectedKeepsLinks DEF IInv
  <2>2. UNCHANGED <<transport, pdu, mu, op>>
    BY <1>3 DEF Close, SetDisconnected
  <2> QED
    BY <2>1, <2>2, CallsUnchanged
<1>4. ASSUME NEW p \in Procs, Reconnect(p)
      PROVE  IInv'
  BY <1>4, ReconnectKeepsInv
<1>5. ASSUME NEW k \in Links, Break(k)
      PROVE  IInv'
  <2>1. LinkInv'
    BY <1>5, BreakKeepsLinks DEF IInv
  <2>2. UNCHANGED <<transport, pdu, mu, op>>
    BY <1>5 DEF Break
  <2> QED
    BY <2>1, <2>2, CallsUnchanged
<1>6. CASE UNCHANGED vars
  <2>1. LinkInv'
    BY <1>6 DEF vars, IInv, LinkInv, Shape, Connected, OneDials, Dialling, Installing, At
  <2> QED
    BY <1>6, <2>1, CallsUnchanged DEF vars
<1> QED
  BY <1>1, <1>2, <1>3, <1>4, <1>5, <1>6 DEF Next

-----------------------------------------------------------------------------
(* The theorems *)

\* The inductive invariant: a transport that says connected has its link and nothing unread on
\* it, one Reconnect dials at a time unless two overlapped, c.mu is held by the one in a call,
\* and every write has covered just the first bytes of its variable.
THEOREM Invariant == Spec => []IInv
<1>1. IInv /\ [Next]_vars => IInv'
  BY NextInv
<1> QED
  BY InitInv, <1>1, PTL DEF Spec

LEMMA LinksOfInv == IInv => LinksAccounted
<1> SUFFICES ASSUME IInv
             PROVE  LinksAccounted
  OBVIOUS
<1>1. ~overlap => \A k \in Links : link[k] \in {"open", "broken"} =>
        k = transport \/ \E p \in Procs : At(p, "install") /\ op[p].new = k
  BY DEF IInv, LinkInv, OneDials, Up, Installing
<1>2. connected[transport] => link[transport] # "closed"
  BY DEF IInv, LinkInv, Shape, Connected, Up
<1> QED
  BY <1>1, <1>2 DEF LinksAccounted

\* Unless Reconnects dial at once, no link stays open that the client or a Reconnect in progress
\* does not hold, and a client that says it is connected has not closed its link
\* (s7/client.go, Reconnect, Close).
THEOREM LinksStayAccounted == Spec => []LinksAccounted
  BY Invariant, LinksOfInv, PTL

LEMMA WriteInside ==
  ASSUME NEW c, GoodWrite(c), c.target # BadAddress, Addressable(c.target, c.data)
  PROVE  LET v == Variable(c.target)
         IN  /\ c.wrote # <<>> => SameStart(c.wrote, v) /\ c.wrote[1].len <= c.data
             /\ c.at = "done" /\ ~c.failed => c.wrote # <<>> /\ c.wrote[1].len = c.data
             /\ c.wrote # <<>> /\ ~Overruns(c) => c.wrote[1].len <= v.len
<1> DEFINE v == Variable(c.target)
<1>1. PICK n \in 0..c.data : /\ Covered(c, n)
                             /\ c.at = "done" /\ ~c.failed => n = c.data /\ n > 0
  BY DEF GoodWrite
<1>2. c.data \in Nat /\ (~Overruns(c) => c.data <= v.len)
  BY DEF GoodWrite
<1>3. c.target \in Addresses
  BY GoodTarget
<1>4. v = Stretch(c.target.area, IF c.target.area = "DB" THEN c.target.db ELSE 0, c.target.off,
                  v.len) /\ v.len \in Nat
  BY <1>3, RoomSize DEF Variable, Stretch
<1>5. c.wrote = IF n = 0 THEN <<>> ELSE <<[v EXCEPT !.len = n]>>
  BY <1>1 DEF Covered
<1> HIDE DEF v
<1>6. [v EXCEPT !.len = n].len = n /\ [[v EXCEPT !.len = n] EXCEPT !.len = v.len] = v
  BY <1>4 DEF Stretch
<1>7. n # 0 => Len(c.wrote) = 1 /\ c.wrote[1] = [v EXCEPT !.len = n] /\ c.wrote # <<>>
  BY <1>5
<1>8. n = 0 => c.wrote = <<>>
  BY <1>5
<1>9. n # 0 => SameStart(c.wrote, v) /\ c.wrote[1].len = n
  BY <1>6, <1>7 DEF SameStart
<1> QED
  BY <1>1, <1>2, <1>4, <1>7, <1>8, <1>9 DEF v

LEMMA WritesOfInv == IInv => WritesInside
  BY WriteInside DEF IInv, Writing, WritesInside

\* Whatever is written where, in one request or in chunks, with answers lost and links broken on
\* the way: what the PLC has written is the first bytes of the variable, without a gap; all of
\* them when the write returns without an error; and none past its end but in the three cases
\* Overruns names (s7/client.go, WriteWithType, writeAddress).
THEOREM WritesStayInside == Spec => []WritesInside
  BY Invariant, WritesOfInv, PTL

-----------------------------------------------------------------------------
(* What a read asks for *)

\* A read's addresses are complete: how many bytes, of how many elements.
ReadAddresses ==
  {a \in Addresses : /\ a.size # 0
                     /\ a.bit # None => a.size = 1
                     /\ a.type = "BOOL" => a.size = a.count
                     /\ a.bit = None /\ ElementSize(a.type) # 1 =>
                          a.size = ElementSize(a.type) * a.count}

\* An address that gives its own size is of one element of that size.
OwnSize(a) ==
  /\ a.size = 0 => a.bit = None
  /\ a.size # 0 => /\ a.count = 1 /\ a.type \in Types /\ a.size = TypeSize(a.type)
                   /\ a.bit # None => a.type = "BOOL"

\* An address of one element has the size of its type.
LEMMA OneElement ==
  ASSUME NEW a, NEW type \in Types, a.type = type, a.size = TypeSize(type), a.count = 1,
         a.bit # None => type = "BOOL"
  PROVE  OwnSize(a)
<1>1. TypeSize("BOOL") # 0
  BY DEF TypeSize
<1> QED
  BY <1>1 DEF OwnSize

\* What the address itself says of its size is true.
LEMMA ParsedSize ==
  ASSUME NEW t \in Texts, ParseAddress(t) # BadAddress
  PROVE  OwnSize(ParseAddress(t))
<1> DEFINE count == IF t.count = None \/ t.count < 1 THEN 1 ELSE t.count
           parsed(type, size, bit, n) ==
             [area |-> t.area, db |-> t.db, off |-> t.off, bit |-> bit, type |-> type,
              size |-> size, count |-> n]
<1>1. t.letter \in {"", "X", "B", "W", "D", "L"} /\ t.area # "?"
  BY DEF Texts
<1>2. \/ ParseAddress(t) = parsed(None, 0, None, count)
      \/ ParseAddress(t) = parsed("WORD", 2, None, 1)
      \/ ParseAddress(t) = parsed("BOOL", 1, 0, 1)
      \/ t.bit \in 0..7 /\ ParseAddress(t) = parsed("BOOL", 1, t.bit, 1)
      \/ /\ t.letter \notin {"", "X"}
         /\ ParseAddress(t) = parsed(LetterType[t.letter], TypeSize(LetterType[t.letter]), None, 1)
  BY <1>1 DEF ParseAddress
<1>3. /\ "WORD" \in Types /\ "BOOL" \in Types /\ TypeSize("WORD") = 2 /\ TypeSize("BOOL") = 1
      /\ t.letter \notin {"", "X"} => LetterType[t.letter] \in Types
  BY <1>1, TypeSizes DEF Types, TypeSize
<1> HIDE DEF count
<1>4. ASSUME NEW type, NEW size, NEW bit, NEW n, ParseAddress(t) = parsed(type, size, bit, n)
      PROVE  LET a == ParseAddress(t)
             IN  a.type = type /\ a.size = size /\ a.bit = bit /\ a.count = n
  BY <1>4
<1>5. ParseAddress(t) = parsed(None, 0, None, count) => OwnSize(ParseAddress(t))
  BY <1>4 DEF OwnSize
<1>6. ASSUME NEW type \in Types, NEW bit, bit # None => type = "BOOL",
             ParseAddress(t) = parsed(type, TypeSize(type), bit, 1)
      PROVE  OwnSize(ParseAddress(t))
  <2>1. LET a == ParseAddress(t)
        IN  a.type = type /\ a.size = TypeSize(type) /\ a.bit = bit /\ a.count = 1
    BY <1>4, <1>6
  <2> QED
    BY <1>6, <2>1, OneElement
<1> HIDE DEF parsed
<1>7. ParseAddress(t) = parsed("WORD", 2, None, 1) => OwnSize(ParseAddress(t))
  BY <1>3, <1>6
<1>8. \A b : ParseAddress(t) = parsed("BOOL", 1, b, 1) => OwnSize(ParseAddress(t))
  BY <1>3, <1>6
<1>9. /\ t.letter \notin {"", "X"}
      /\ ParseAddress(t) = parsed(LetterType[t.letter], TypeSize(LetterType[t.letter]), None, 1)
      => OwnSize(ParseAddress(t))
  BY <1>3, <1>6
<1> QED
  BY <1>2, <1>5, <1>7, <1>8, <1>9

\* Types whose items are not counted in bytes are as long as their elements.
LEMMA SizeOfType ==
  \A type \in Types : /\ ElementSize(type) \in {1, 2, 4}
                      /\ ElementSize(type) # 1 => TypeSize(type) = ElementSize(type)
                      /\ type = "BOOL" => TypeSize(type) = 1 /\ ElementSize(type) = 1
                      /\ type \notin StringTypes => TypeSize(type) \in Nat \ {0}
  BY DEF Types, ElementSize, TypeSize, StringTypes

\* A read asks for complete addresses only.
LEMMA ReadAddressType ==
  ASSUME NEW request, request.text \in Texts \cup {BadAddress}
  PROVE  ReadAddress(request) \in ReadAddresses \cup {BadAddress}
<1> DEFINE a == ParseAddress(request.text)
           hint == TypeOfName(request.hint)
           each == IF a.size # 0 THEN a.size
                   ELSE CASE hint = "STRING" -> 256
                          [] hint = "WSTRING" -> 512
                          [] hint = None -> 4
                          [] OTHER -> TypeSize(hint)
           type == IF a.size # 0 THEN a.type ELSE IF hint # None THEN hint ELSE "DINT"
           r == [a EXCEPT !.type = type, !.size = each * a.count]
<1>1. CASE a = BadAddress
  BY <1>1 DEF ReadAddress
<1>2. CASE a # BadAddress
  <2>1. request.text \in Texts
    BY <1>2, BadText DEF BadAddress
  <2>2. /\ a \in Parsed /\ (a.size = 0 => a.bit = None)
        /\ a.size # 0 => /\ a.count = 1 /\ a.type \in Types /\ a.size = TypeSize(a.type)
                         /\ a.bit # None => a.type = "BOOL"
    BY <1>2, <2>1, ParsedType, ParsedSize DEF OwnSize
  <2>3. hint \in Types \cup {None} /\ "DINT" \in Types
    BY TypeSizes DEF Types
  <2>4. type \in Types
    BY <2>2, <2>3
  <2>5. /\ each \in Nat \ {0}
        /\ type = "BOOL" => each = 1
        /\ ElementSize(type) # 1 => each = ElementSize(type)
    <3>1. CASE a.size # 0
      <4>1. each = TypeSize(type) /\ each \in Nat \ {0}
        BY <2>2, <3>1 DEF Parsed
      <4> HIDE DEF each, type
      <4> QED
        BY <2>4, <4>1, SizeOfType
    <3>2. CASE a.size = 0 /\ hint = None
      BY <3>2 DEF ElementSize
    <3>3. CASE a.size = 0 /\ hint # None
      BY <2>3, <3>3, SizeOfType DEF StringTypes, ElementSize
    <3> QED
      BY <3>1, <3>2, <3>3
  <2>6. r = ReadAddress(request)
    BY <1>2 DEF ReadAddress
  <2> HIDE DEF a, each, type
  <2>7. /\ r.type = type /\ r.size = each * a.count /\ r.bit = a.bit /\ r.count = a.count
        /\ r.area = a.area /\ r.db = a.db /\ r.off = a.off
        /\ a.count \in Nat \ {0}
    BY <2>2 DEF Parsed
  <2>8. r.size \in Nat \ {0}
    BY <2>5, <2>7, Products
  <2>9. r \in Addresses
    BY <2>2, <2>4, <2>8 DEF Addresses, Parsed
  <2>10. r.bit # None => r.size = 1
    <3> SUFFICES ASSUME a.bit # None
                 PROVE  each * a.count = 1
      BY <2>7
    <3>1. a.size # 0 /\ a.count = 1 /\ a.type = "BOOL"
      BY <2>2
    <3>2. type = "BOOL"
      BY <3>1 DEF type
    <3> QED
      BY <2>5, <3>1, <3>2
  <2>11. r.type = "BOOL" => r.size = r.count
    BY <2>5, <2>7
  <2>12. ElementSize(r.type) # 1 => r.size = ElementSize(r.type) * r.count
    BY <2>5, <2>7
  <2> HIDE DEF r
  <2> QED
    BY <2>6, <2>8, <2>9, <2>10, <2>11, <2>12 DEF ReadAddresses
<1> QED
  BY <1>1, <1>2

\* What a request denotes is a stretch of memory.
LEMMA DenotesType ==
  ASSUME NEW a \in Addresses
  PROVE  /\ S7Any(a).element \in {1, 2, 4} /\ S7Any(a).count \in Nat
         /\ Denotes(S7Any(a)) \in Stretches
<1> DEFINE i == S7Any(a)
           b == IF a.bit = None THEN 0 ELSE a.bit
<1>1. /\ a.area \in Areas /\ a.db \in Nat /\ a.off \in Nat /\ b \in 0..7 /\ a.size \in Nat
      /\ a.count \in Nat /\ a.type \in Types
  BY DEF Addresses, BitNumbers
<1>2. a.db % 65536 \in Nat /\ ItemCount(a) \in Nat /\ ItemCount(a) % 65536 \in Nat
  BY <1>1 DEF ItemCount
<1>3. (8 * a.off + b) % 16777216 \in Nat
  BY <1>1
<1>4. ((8 * a.off + b) % 16777216) \div 8 \in Nat
  BY <1>3
<1>5. /\ i.area = a.area /\ i.db \in Nat /\ i.element \in {1, 2, 4} /\ i.count \in Nat
      /\ i.at \div 8 \in Nat
  BY <1>1, <1>2, <1>4, SizeOfType DEF S7Any
<1> HIDE DEF i
<1>6. i.element * i.count \in Nat
  BY <1>5
<1> QED
  BY <1>1, <1>5, <1>6 DEF Denotes, Stretch, Stretches, Areas, i

\* The item of a complete address asks for all its bytes, unless it asks for several bits, which
\* is refused.
LEMMA ItemLength ==
  ASSUME NEW a \in ReadAddresses, a.size <= 65535, S7Any(a).bits => S7Any(a).count = 1
  PROVE  Denotes(S7Any(a)).len = a.size
<1> DEFINE i == S7Any(a)
<1>1. /\ a.count \in Nat \ {0} /\ a.size \in Nat \ {0} /\ a.type \in Types
      /\ a.bit # None => a.size = 1
      /\ a.type = "BOOL" => a.size = a.count
      /\ a.bit = None /\ ElementSize(a.type) # 1 => a.size = ElementSize(a.type) * a.count
  BY DEF ReadAddresses, Addresses
<1>2. /\ i.bits = Bits(a) /\ i.count = ItemCount(a) % 65536
      /\ i.element = IF Bits(a) THEN 1 ELSE ElementSize(a.type)
  BY DEF S7Any
<1>3. Denotes(i).len = i.element * i.count
  BY DEF Denotes, Stretch
<1> HIDE DEF i
<1>4. CASE a.bit # None
  <2>1. ItemCount(a) = 1 /\ Bits(a)
    BY <1>4 DEF ItemCount, Bits
  <2> QED
    BY <1>1, <1>2, <1>3, <1>4, <2>1 DEF i
<1>5. CASE a.bit = None /\ a.type = "BOOL"
  <2>1. ItemCount(a) = a.count /\ Bits(a)
    BY <1>5 DEF ItemCount, Bits
  <2>2. i.count = 1
    BY <1>2, <2>1 DEF i
  <2>3. a.count % 65536 = a.count
    BY <1>1, <1>5
  <2> QED
    BY <1>1, <1>2, <1>3, <1>5, <2>1, <2>2, <2>3 DEF i
<1>6. CASE a.bit = None /\ a.type # "BOOL" /\ ElementSize(a.type) = 1
  <2>1. ItemCount(a) = a.size /\ ~Bits(a)
    BY <1>6 DEF ItemCount, Bits
  <2>2. a.size % 65536 = a.size
    BY <1>1
  <2> QED
    BY <1>1, <1>2, <1>3, <1>6, <2>1, <2>2 DEF i
<1>7. CASE a.bit = None /\ a.type # "BOOL" /\ ElementSize(a.type) # 1
  <2>1. ItemCount(a) = a.count /\ ~Bits(a)
    BY <1>7 DEF ItemCount, Bits
  <2>2. ElementSize(a.type) \in {2, 4} /\ a.size = ElementSize(a.type) * a.count
    BY <1>1, <1>7, SizeOfType
  <2>3. a.count <= 65535
    BY <1>1, <2>2
  <2>4. a.count % 65536 = a.count
    BY <1>1, <2>3
  <2> QED
    BY <1>2, <1>3, <2>1, <2>2, <2>4 DEF i
<1> QED
  BY <1>4, <1>5, <1>6, <1>7

\* Where an item begins, when nothing of it is cut.
LEMMA ItemPlace ==
  ASSUME NEW a \in Addresses, NEW n \in Nat \ {0}, Addressable(a, n)
  PROVE  LET s == Denotes(S7Any(a))
         IN  s = Stretch(a.area, IF a.area = "DB" THEN a.db ELSE 0, a.off, s.len)
<1> DEFINE b == IF a.bit = None THEN 0 ELSE a.bit
<1>1. b \in 0..7 /\ a.off \in Nat /\ a.db \in Nat /\ a.db < 65536 /\ 8 * (a.off + 1) <= 16777216
  BY DEF Addresses, BitNumbers, Addressable
<1>2. ((8 * a.off + b) % 16777216) \div 8 = a.off
  BY <1>1, BitAddress
<1>3. a.db % 65536 = a.db
  BY <1>1
<1>4. /\ S7Any(a).area = a.area /\ S7Any(a).at = (8 * a.off + b) % 16777216
      /\ S7Any(a).db = IF a.area = "DB" THEN a.db ELSE 0
  BY <1>3 DEF S7Any
<1> QED
  BY <1>2, <1>4 DEF Denotes, Stretch

\* The item of an address denotes just its bytes, when nothing of it is cut.
LEMMA ReadDenotes ==
  ASSUME NEW a \in ReadAddresses, a.size <= 65535, S7Any(a).bits => S7Any(a).count = 1,
         Addressable(a, a.size)
  PROVE  Denotes(S7Any(a)) = Wanted(a)
<1>1. a \in Addresses /\ a.size \in Nat \ {0}
  BY DEF ReadAddresses, Addresses
<1>2. Denotes(S7Any(a)).len = a.size
  BY ItemLength
<1> QED
  BY <1>1, <1>2, ItemPlace DEF Wanted

\* An address, field by field.
Fields7(area, db, off, bit, type, size, count) ==
  [area |-> area, db |-> db, off |-> off, bit |-> bit, type |-> type, size |-> size,
   count |-> count]

\* A chunk is an address of bytes.
LEMMA ChunkFields ==
  ASSUME NEW area, NEW db, NEW off, NEW bit, NEW type, NEW size, NEW count, NEW d, NEW n
  PROVE  Chunk(Fields7(area, db, off, bit, type, size, count), d, n)
           = Fields7(area, db, off + d, None, "BYTE", n, n)
<1> DEFINE a == Fields7(area, db, off, bit, type, size, count)
           byte == "BYTE"
           a1 == [a EXCEPT !.off = off + d]
           a2 == [a1 EXCEPT !.bit = None]
           a3 == [a2 EXCEPT !.type = byte]
           a4 == [a3 EXCEPT !.size = n]
           a5 == [a4 EXCEPT !.count = n]
<1>1. a.off = off
  BY DEF Fields7
<1>2. Chunk(a, d, n) = a5
  BY <1>1 DEF Chunk
<1> HIDE DEF byte
<1>3. a1 = Fields7(area, db, off + d, bit, type, size, count)
  BY DEF Fields7
<1> HIDE DEF a1
<1>4. a2 = Fields7(area, db, off + d, None, type, size, count)
  BY <1>3 DEF Fields7
<1> HIDE DEF a2
<1>5. a3 = Fields7(area, db, off + d, None, byte, size, count)
  BY <1>4 DEF Fields7
<1> HIDE DEF a3
<1>6. a4 = Fields7(area, db, off + d, None, byte, n, count)
  BY <1>5 DEF Fields7
<1> HIDE DEF a4
<1>7. a5 = Fields7(area, db, off + d, None, byte, n, n)
  BY <1>6 DEF Fields7
<1> HIDE DEF a5
<1> QED
  BY <1>2, <1>7 DEF byte

\* A chunk of n bytes asks for n bytes, and its place is so far into the item.
LEMMA ChunkDenotes ==
  ASSUME NEW a \in Addresses, NEW d \in Nat, NEW n \in Nat \ {0}, n <= 65535
  PROVE  LET s == Denotes(S7Any(Chunk(a, d, n)))
         IN  /\ ~S7Any(Chunk(a, d, n)).bits
             /\ s \in Stretches /\ s.len = n
             /\ Addressable(a, d + n) =>
                  s = Stretch(a.area, IF a.area = "DB" THEN a.db ELSE 0, a.off + d, n)
<1> DEFINE c == Chunk(a, d, n)
<1>1. /\ c \in Addresses /\ c.area = a.area /\ c.db = a.db /\ c.off = a.off + d /\ c.bit = None
      /\ c.type = "BYTE" /\ c.size = n
  <2>1. "BYTE" \in Types /\ None \in BitNumbers /\ a.off + d \in Nat
    BY DEF Types, BitNumbers, Addresses
  <2>2. a = Fields7(a.area, a.db, a.off, a.bit, a.type, a.size, a.count)
    BY DEF Addresses, Fields7
  <2>3. c = Fields7(a.area, a.db, a.off + d, None, "BYTE", n, n)
    BY <2>2, ChunkFields
  <2>4. a.area \in Areas /\ a.db \in Nat
    BY DEF Addresses
  <2> HIDE DEF c
  <2> QED
    BY <2>1, <2>3, <2>4 DEF Addresses, Fields7
<1> HIDE DEF c
<1>2. ~Bits(c) /\ ElementSize(c.type) = 1 /\ ItemCount(c) = n /\ n % 65536 = n
  BY <1>1 DEF Bits, ElementSize, ItemCount
<1>3. Denotes(S7Any(c)).len = n /\ ~S7Any(c).bits
  BY <1>2 DEF S7Any, Denotes, Stretch
<1>4. Addressable(a, d + n) => Addressable(c, n)
  BY <1>1 DEF Addressable, Addresses
<1> QED
  BY <1>1, <1>3, <1>4, DenotesType, ItemPlace DEF c

\* The size of a response so far, and with item i.
Longer(items, sum, i) ==
  sum + 4 + IF i < Len(items) THEN Padded(Denotes(items[i]).len) ELSE Denotes(items[i]).len

\* A response is longer than any of its items.
LEMMA ResponseIsLong ==
  ASSUME NEW n \in Nat, NEW items, DOMAIN items = 1..n, Len(items) = n,
         \A i \in 1..n : Denotes(items[i]) \in Stretches
  PROVE  /\ ResponseSize(items) \in Nat
         /\ \A i \in 1..n : ResponseSize(items) >= 14 + 4 * n + Denotes(items[i]).len
<1> DEFINE Sums(f) == f = [s \in SUBSET (1..n) |->
                             IF s = {} THEN 0 ELSE Longer(items, f[s \ {Max(s)}], Max(s))]
           F == CHOOSE f : Sums(f)
<1>1. ResponseSize(items) = 14 + F[1..n]
  <2> DEFINE seq == [i \in 1..Len(items) |-> i]
             G == CHOOSE f : f = [s \in SUBSET DOMAIN seq |->
                     IF s = {} THEN 0 ELSE Longer(items, f[s \ {Max(s)}], seq[Max(s)])]
  <2>1. DOMAIN seq = 1..n
    OBVIOUS
  <2>2. ResponseSize(items) = 14 + FoldLeft(LAMBDA sum, i : Longer(items, sum, i), 0, seq)
    BY DEF ResponseSize, Longer
  <2>3. FoldLeft(LAMBDA sum, i : Longer(items, sum, i), 0, seq) = G[DOMAIN seq]
    BY DEF FoldLeft, MapThenFoldSet
  <2>4. \A s \in SUBSET (1..n) : s # {} => seq[Max(s)] = Max(s)
    BY MaxOf
  <2>5. \A f : Sums(f) <=> f = [s \in SUBSET DOMAIN seq |->
                     IF s = {} THEN 0 ELSE Longer(items, f[s \ {Max(s)}], seq[Max(s)])]
    BY <2>1, <2>4
  <2>6. F = G
    BY <2>5
  <2> HIDE DEF F, G
  <2> QED
    BY <2>1, <2>2, <2>3, <2>6
<1>2. \A i \in 1..n, sum \in Nat :
        /\ Longer(items, sum, i) \in Nat
        /\ Longer(items, sum, i) >= sum + 4 + Denotes(items[i]).len
  <2> SUFFICES ASSUME NEW i \in 1..n, NEW sum \in Nat
               PROVE  /\ Longer(items, sum, i) \in Nat
                      /\ Longer(items, sum, i) >= sum + 4 + Denotes(items[i]).len
    OBVIOUS
  <2> DEFINE len == Denotes(items[i]).len
  <2>1. len \in Nat
    BY DEF Stretches
  <2> HIDE DEF len
  <2>2. Padded(len) \in Nat /\ Padded(len) >= len
    BY <2>1 DEF Padded
  <2> QED
    BY <2>1, <2>2 DEF Longer, len
<1>3. Sums(F)
  <2> DEFINE g == [x \in Nat \X (1..n) |-> Longer(items, x[1], x[2])]
  <2>1. g \in [Nat \X (1..n) -> Nat]
    BY <1>2
  <2>2. \A sum \in Nat, i \in 1..n : g[<<sum, i>>] = Longer(items, sum, i)
    OBVIOUS
  <2> HIDE DEF g
  <2>3. PICK f \in [SUBSET (1..n) -> Nat] : Folds(f, n, 0, g)
    BY <2>1, FoldExists
  <2>4. \A s \in SUBSET (1..n) : s # {} => /\ Max(s) \in 1..n /\ s \ {Max(s)} \in SUBSET (1..n)
    BY MaxOf
  <2>5. \A s \in SUBSET (1..n) : s # {} =>
          g[<<f[s \ {Max(s)}], Max(s)>>] = Longer(items, f[s \ {Max(s)}], Max(s))
    BY <2>2, <2>4
  <2>6. Sums(f)
    BY <2>3, <2>5 DEF Folds
  <2> HIDE DEF Sums
  <2> QED
    BY <2>6
<1>4. F[{}] = 0 /\ \A k \in 1..n : F[1..k] = Longer(items, F[1..(k - 1)], k)
  <2> HIDE DEF F
  <2>1. F[{}] = 0
    BY <1>3, NoPrefix
  <2>2. ASSUME NEW k \in 1..n
        PROVE  F[1..k] = Longer(items, F[1..(k - 1)], k)
    <3>1. 1..k \in SUBSET (1..n) /\ 1..k # {} /\ Max(1..k) = k
      BY PrefixMax
    <3>2. (1..k) \ {Max(1..k)} = 1..(k - 1)
      BY PrefixLess
    <3>3. F[1..k] = Longer(items, F[(1..k) \ {Max(1..k)}], Max(1..k))
      BY <1>3, <3>1
    <3> QED
      BY <3>1, <3>2, <3>3
  <2> QED
    BY <2>1, <2>2
<1> DEFINE S == {k \in 0..n : /\ F[1..k] \in Nat /\ F[1..k] >= 4 * k
                            /\ \A i \in 1..k : F[1..k] >= 4 * k + Denotes(items[i]).len}
<1>5. 0 \in S
  <2> HIDE DEF F
  <2> QED
    BY <1>4, NoPrefix
<1>6. ASSUME NEW k \in 1..n, k - 1 \in S
      PROVE  k \in S
  <2> HIDE DEF F
  <2>1. /\ F[1..(k - 1)] \in Nat /\ F[1..(k - 1)] >= 4 * (k - 1)
        /\ \A i \in 1..(k - 1) : F[1..(k - 1)] >= 4 * (k - 1) + Denotes(items[i]).len
    BY <1>6
  <2>2. /\ F[1..k] \in Nat /\ F[1..k] >= F[1..(k - 1)] + 4 + Denotes(items[k]).len
    BY <1>2, <1>4, <2>1
  <2>3. \A i \in 1..k : Denotes(items[i]).len \in Nat
    BY DEF Stretches
  <2>4. F[1..k] >= 4 * k
    BY <2>1, <2>2, <2>3
  <2>5. ASSUME NEW i \in 1..k
        PROVE  F[1..k] >= 4 * k + Denotes(items[i]).len
    <3>1. CASE i = k
      BY <2>1, <2>2, <2>3, <3>1
    <3>2. CASE i \in 1..(k - 1)
      <4> DEFINE before == F[1..(k - 1)]
                 now == F[1..k]
                 len == Denotes(items[i]).len
                 last == Denotes(items[k]).len
      <4>1. /\ before >= 4 * (k - 1) + len /\ before \in Nat /\ now \in Nat
            /\ now >= before + 4 + last /\ len \in Nat /\ last \in Nat /\ k \in Nat
        BY <2>1, <2>2, <2>3, <3>2
      <4> HIDE DEF before, now, len, last
      <4>2. now >= 4 * k + len
        BY <4>1
      <4> QED
        BY <4>2 DEF now, len
    <3> QED
      BY <3>1, <3>2
  <2> QED
    BY <2>2, <2>4, <2>5
<1>7. n \in S
  <2> HIDE DEF S
  <2> QED
    BY <1>5, <1>6, PrefixInduction
<1> HIDE DEF F
<1>8. /\ F[1..n] \in Nat
      /\ \A i \in 1..n : F[1..n] >= 4 * n + Denotes(items[i]).len
  BY <1>7
<1>9. \A i \in 1..n : Denotes(items[i]).len \in Nat
  BY DEF Stretches
<1> QED
  BY <1>1, <1>8, <1>9

\* The items of an answer.
Items == [ok : BOOLEAN, bytes : Stretches]

\* What the PLC answers a read, when it answers in full.
LEMMA WholeAnswer ==
  ASSUME NEW n \in Nat, NEW items, DOMAIN items = 1..n, Len(items) = n, NEW size \in Nat,
         \A i \in 1..n : Denotes(items[i]) \in Stretches,
         NEW whole, whole = ReadAnswer(items, size)
  PROVE  /\ whole \in Seq(Items)
         /\ whole # Refused =>
              /\ DOMAIN whole = 1..n /\ ResponseSize(items) <= size
              /\ \A i \in 1..n : /\ whole[i].bytes = Denotes(items[i])
                                 /\ items[i].bits => items[i].count = 1
<1>1. CASE whole = Refused
  BY <1>1 DEF Refused
<1>2. CASE whole # Refused
  <2>1. /\ whole = [i \in 1..n |-> [ok |-> TRUE, bytes |-> Denotes(items[i])]]
        /\ ~(ResponseSize(items) > size)
        /\ \A i \in 1..n : items[i].bits => items[i].count = 1
    BY <1>2 DEF ReadAnswer
  <2>2. ResponseSize(items) <= size
    BY <2>1, ResponseIsLong
  <2>3. \A i \in 1..n : [ok |-> TRUE, bytes |-> Denotes(items[i])] \in Items
    BY DEF Items
  <2>4. whole \in Seq(Items)
    BY <2>1, <2>3
  <2> QED
    BY <2>1, <2>2, <2>4
<1> QED
  BY <1>1, <1>2

\* An answer cut off is an answer.
LEMMA Shorter ==
  ASSUME NEW m \in Nat, NEW n, n \in {0, m - 1} \cap Nat
  PROVE  n \in Nat /\ n <= m
  OBVIOUS

\* An item with another outcome, or with other bytes.
WithOk(item, ok) == [item EXCEPT !.ok = ok]
WithBytes(item, bytes) == [item EXCEPT !.bytes = bytes]

\* Such an item keeps the rest.
LEMMA ItemFields ==
  ASSUME NEW item \in Items
  PROVE  /\ \A ok : WithOk(item, ok) = [ok |-> ok, bytes |-> item.bytes]
         /\ \A bytes : WithBytes(item, bytes) = [ok |-> item.ok, bytes |-> bytes]
<1>1. PICK ok \in BOOLEAN, bytes \in Stretches : item = [ok |-> ok, bytes |-> bytes]
  BY DEF Items
<1> QED
  BY <1>1 DEF WithOk, WithBytes

\* Whatever comes in its place, an item in it is the same stretch, or its first bytes.
LEMMA DamagedAnswer ==
  ASSUME NEW whole \in Seq(Items), NEW answer \in {whole} \cup Damaged(whole)
  PROVE  /\ answer \in Seq(Items) /\ DOMAIN answer \subseteq DOMAIN whole
         /\ \A i \in DOMAIN answer :
              /\ answer[i].bytes = [whole[i].bytes EXCEPT !.len = answer[i].bytes.len]
              /\ answer[i].bytes.len <= whole[i].bytes.len
<1>1. \A i \in DOMAIN whole : /\ whole[i].ok \in BOOLEAN /\ whole[i].bytes \in Stretches
                              /\ whole[i] = [ok |-> whole[i].ok, bytes |-> whole[i].bytes]
                              /\ whole[i] \in Items /\ whole[i].bytes.len \in Nat
                              /\ [whole[i].bytes EXCEPT !.len = whole[i].bytes.len] = whole[i].bytes
  <2> SUFFICES ASSUME NEW i \in DOMAIN whole
               PROVE  /\ whole[i].ok \in BOOLEAN /\ whole[i].bytes \in Stretches
                      /\ whole[i] = [ok |-> whole[i].ok, bytes |-> whole[i].bytes]
                      /\ whole[i] \in Items /\ whole[i].bytes.len \in Nat
                      /\ [whole[i].bytes EXCEPT !.len = whole[i].bytes.len] = whole[i].bytes
    OBVIOUS
  <2>1. whole[i] \in Items
    OBVIOUS
  <2>2. whole[i].bytes \in Stretches
    BY <2>1 DEF Items
  <2>3. whole[i].bytes.len \in Nat
    BY <2>2 DEF Stretches
  <2>4. [whole[i].bytes EXCEPT !.len = whole[i].bytes.len] = whole[i].bytes
    BY <2>2 DEF Stretches
  <2> QED
    BY <2>1, <2>2, <2>3, <2>4 DEF Items
<1>2. CASE answer = whole
  BY <1>1, <1>2
<1>3. CASE answer = Refused
  BY <1>3 DEF Refused
<1>4. ASSUME NEW i \in DOMAIN whole, answer = [whole EXCEPT ![i].ok = FALSE]
      PROVE  /\ answer \in Seq(Items) /\ DOMAIN answer = DOMAIN whole
             /\ \A x \in DOMAIN whole : answer[x].bytes = whole[x].bytes
  <2>1. [whole[i] EXCEPT !.ok = FALSE] = [ok |-> FALSE, bytes |-> whole[i].bytes]
    BY <1>1, ItemFields DEF WithOk, WithBytes
  <2>2. [ok |-> FALSE, bytes |-> whole[i].bytes] \in Items
    BY <1>1 DEF Items
  <2>3. answer = [whole EXCEPT ![i] = [ok |-> FALSE, bytes |-> whole[i].bytes]]
    BY <1>4, <2>1
  <2> QED
    BY <2>2, <2>3
<1>5. ASSUME NEW i \in DOMAIN whole, answer = SubSeq(whole, 1, i)
      PROVE  /\ answer \in Seq(Items) /\ DOMAIN answer \subseteq DOMAIN whole
             /\ \A x \in DOMAIN answer : answer[x] = whole[x]
  BY <1>5
<1>6. ASSUME NEW i \in DOMAIN whole, NEW n \in {0, whole[i].bytes.len - 1} \cap Nat,
             answer = [whole EXCEPT ![i].bytes.len = n]
      PROVE  /\ answer \in Seq(Items) /\ DOMAIN answer = DOMAIN whole
             /\ answer[i].bytes = [whole[i].bytes EXCEPT !.len = n]
             /\ answer[i].bytes.len = n /\ n <= whole[i].bytes.len
             /\ \A x \in DOMAIN whole : x # i => answer[x] = whole[x]
  <2> DEFINE s == [whole[i].bytes EXCEPT !.len = n]
  <2>1. whole[i].bytes.len \in Nat
    BY <1>1
  <2>2. n \in Nat /\ n <= whole[i].bytes.len
    BY <1>6, <2>1, Shorter
  <2>3. s \in Stretches /\ s.len = n
    BY <1>1, <2>2 DEF Stretches
  <2> HIDE DEF s
  <2>4. [whole[i] EXCEPT !.bytes = s] = [ok |-> whole[i].ok, bytes |-> s]
    BY <1>1, ItemFields DEF WithOk, WithBytes
  <2>5. [ok |-> whole[i].ok, bytes |-> s] \in Items
    BY <1>1, <2>3 DEF Items
  <2>6. answer = [whole EXCEPT ![i] = [whole[i] EXCEPT !.bytes = s]]
    BY <1>6 DEF s
  <2>7. answer = [whole EXCEPT ![i] = [ok |-> whole[i].ok, bytes |-> s]]
    BY <2>4, <2>6
  <2>8. answer \in Seq(Items) /\ DOMAIN answer = DOMAIN whole /\ answer[i].bytes = s
    BY <2>5, <2>7
  <2> QED
    BY <2>2, <2>3, <2>7, <2>8 DEF s
<1>7. \/ answer = whole \/ answer = Refused
      \/ \E i \in DOMAIN whole : answer = [whole EXCEPT ![i].ok = FALSE]
      \/ \E i \in DOMAIN whole : answer = SubSeq(whole, 1, i)
      \/ \E i \in DOMAIN whole : \E n \in {0, whole[i].bytes.len - 1} \cap Nat :
           answer = [whole EXCEPT ![i].bytes.len = n]
  BY DEF Damaged
<1>8. CASE \E i \in DOMAIN whole : answer = [whole EXCEPT ![i].ok = FALSE]
  <2>1. PICK i \in DOMAIN whole : answer = [whole EXCEPT ![i].ok = FALSE]
    BY <1>8
  <2>2. /\ answer \in Seq(Items) /\ DOMAIN answer = DOMAIN whole
        /\ \A x \in DOMAIN whole : answer[x].bytes = whole[x].bytes
    BY <1>4, <2>1
  <2> QED
    BY <1>1, <2>2
<1>9. CASE \E i \in DOMAIN whole : answer = SubSeq(whole, 1, i)
  BY <1>1, <1>5, <1>9
<1>10. ASSUME NEW i \in DOMAIN whole, NEW n \in {0, whole[i].bytes.len - 1} \cap Nat,
              answer = [whole EXCEPT ![i].bytes.len = n]
       PROVE  /\ answer \in Seq(Items) /\ DOMAIN answer \subseteq DOMAIN whole
              /\ \A x \in DOMAIN answer :
                   /\ answer[x].bytes = [whole[x].bytes EXCEPT !.len = answer[x].bytes.len]
                   /\ answer[x].bytes.len <= whole[x].bytes.len
  <2>1. /\ answer \in Seq(Items) /\ DOMAIN answer = DOMAIN whole
        /\ answer[i].bytes = [whole[i].bytes EXCEPT !.len = n]
        /\ answer[i].bytes.len = n /\ n <= whole[i].bytes.len
        /\ \A x \in DOMAIN whole : x # i => answer[x] = whole[x]
    BY <1>6, <1>10
  <2> QED
    BY <1>1, <2>1
<1> QED
  BY <1>2, <1>3, <1>7, <1>8, <1>9, <1>10

\* The steps of Batches: what is flushed, and where an item is put.
Flushed(acc) ==
  IF acc.batch = <<>> THEN acc
  ELSE [jobs |-> Append(acc.jobs, acc.batch), batch |-> <<>>, size |-> 0]

\* The step that adds address i.
Added(addresses, size, acc, i) ==
  LET n == 4 + addresses[i].size
      full == acc.size + n > Room(size) \/ Len(acc.batch) >= MaxItems(size)
      room == IF full THEN Flushed(acc) ELSE acc
  IN  IF addresses[i] = BadAddress THEN acc
      ELSE IF n > Room(size) THEN [Flushed(acc) EXCEPT !.jobs = Append(@, <<i>>)]
      ELSE [room EXCEPT !.batch = Append(@, i), !.size = @ + n]

\* Where the batches begin.
Nothing == [jobs |-> <<>>, batch |-> <<>>, size |-> 0]

\* A position with an address can be asked for; it may fit a batch.
Asked(addresses) == {i \in DOMAIN addresses : addresses[i] # BadAddress}
\* The addresses that may share a batch; the jobs of a read; what a fold over them carries.
Fitting(addresses, size) == {i \in Asked(addresses) : 4 + addresses[i].size <= Room(size)}

Jobs(addresses, size) ==
  {job \in Seq(Asked(addresses)) : /\ job # <<>>
                                   /\ Len(job) > 1 => job \in Seq(Fitting(addresses, size))}

Accs(addresses, size) ==
  [jobs : Seq(Jobs(addresses, size)), batch : Seq(Fitting(addresses, size)), size : Nat]

\* The positions in the jobs, and in the batch.
InJobs(jobs) == UNION {Range(jobs[j]) : j \in DOMAIN jobs}
\* The addresses that are in a job or in the batch being filled.
Held(acc) == InJobs(acc.jobs) \cup Range(acc.batch)

\* What an element added to a batch, and a batch added to the jobs, add to it.
LEMMA RangeAppend ==
  ASSUME NEW S, NEW s \in Seq(S), NEW x \in S
  PROVE  Range(Append(s, x)) = Range(s) \cup {x}
<1>1. /\ DOMAIN Append(s, x) = 1..(Len(s) + 1) /\ DOMAIN s = 1..Len(s)
      /\ \A i \in 1..Len(s) : Append(s, x)[i] = s[i]
      /\ Append(s, x)[Len(s) + 1] = x
      /\ Len(s) \in Nat
  OBVIOUS
<1>2. 1..(Len(s) + 1) = 1..Len(s) \cup {Len(s) + 1}
  BY <1>1
<1> QED
  BY <1>1, <1>2 DEF Range

LEMMA InJobsAppend ==
  ASSUME NEW S, NEW jobs \in Seq(S), NEW job \in S
  PROVE  InJobs(Append(jobs, job)) = InJobs(jobs) \cup Range(job)
<1>1. /\ DOMAIN Append(jobs, job) = 1..(Len(jobs) + 1) /\ DOMAIN jobs = 1..Len(jobs)
      /\ \A i \in 1..Len(jobs) : Append(jobs, job)[i] = jobs[i]
      /\ Append(jobs, job)[Len(jobs) + 1] = job
      /\ Len(jobs) \in Nat
  OBVIOUS
<1>2. 1..(Len(jobs) + 1) = 1..Len(jobs) \cup {Len(jobs) + 1}
  BY <1>1
<1> QED
  BY <1>1, <1>2 DEF InJobs

\* A flush loses no address.
LEMMA FlushedType ==
  ASSUME NEW addresses, NEW size, NEW acc \in Accs(addresses, size)
  PROVE  /\ Flushed(acc) \in Accs(addresses, size) /\ Flushed(acc).batch = <<>>
         /\ InJobs(Flushed(acc).jobs) = Held(acc)
<1> DEFINE F == Fitting(addresses, size)
           J == Jobs(addresses, size)
<1>1. acc.jobs \in Seq(J) /\ acc.batch \in Seq(F) /\ acc.size \in Nat
  BY DEF Accs
<1>2. F \subseteq Asked(addresses)
  BY DEF Fitting
<1>3. acc.batch # <<>> => acc.batch \in J
  BY <1>1, <1>2 DEF Jobs
<1>4. CASE acc.batch = <<>>
  <2>1. Flushed(acc) = acc
    BY <1>4 DEF Flushed
  <2>2. Range(acc.batch) = {}
    BY <1>4 DEF Range
  <2> QED
    BY <1>4, <2>1, <2>2 DEF Held
<1>5. CASE acc.batch # <<>>
  <2>1. Flushed(acc) = [jobs |-> Append(acc.jobs, acc.batch), batch |-> <<>>, size |-> 0]
    BY <1>5 DEF Flushed
  <2> HIDE DEF F, J
  <2>2. Append(acc.jobs, acc.batch) \in Seq(J) /\ <<>> \in Seq(F)
    BY <1>1, <1>3, <1>5
  <2>3. InJobs(Append(acc.jobs, acc.batch)) = Held(acc)
    BY <1>1, <1>3, <1>5, InJobsAppend DEF Held
  <2> QED
    BY <2>1, <2>2, <2>3 DEF Accs, F, J
<1> QED
  BY <1>4, <1>5

\* A step adds its address, if it parsed, and loses none.
LEMMA AddedType ==
  ASSUME NEW addresses, NEW size, NEW acc \in Accs(addresses, size),
         NEW i \in DOMAIN addresses, addresses[i] # BadAddress => addresses[i].size \in Nat,
         Room(size) \in Nat
  PROVE  LET new == Added(addresses, size, acc, i)
         IN  /\ new \in Accs(addresses, size) /\ Held(acc) \subseteq Held(new)
             /\ addresses[i] # BadAddress => i \in Held(new)
<1> DEFINE new == Added(addresses, size, acc, i)
           n == 4 + addresses[i].size
           full == acc.size + n > Room(size) \/ Len(acc.batch) >= MaxItems(size)
           room == IF full THEN Flushed(acc) ELSE acc
           F == Fitting(addresses, size)
           J == Jobs(addresses, size)
<1>1. /\ Flushed(acc) \in Accs(addresses, size) /\ Flushed(acc).batch = <<>>
      /\ InJobs(Flushed(acc).jobs) = Held(acc) /\ Held(Flushed(acc)) = Held(acc)
  <2>1. /\ Flushed(acc) \in Accs(addresses, size) /\ Flushed(acc).batch = <<>>
        /\ InJobs(Flushed(acc).jobs) = Held(acc)
    BY FlushedType
  <2>2. Range(<<>>) = {}
    BY DEF Range
  <2> QED
    BY <2>1, <2>2 DEF Held
<1>2. CASE addresses[i] = BadAddress
  BY <1>2 DEF Added
<1>3. CASE addresses[i] # BadAddress /\ n > Room(size)
  <2> DEFINE f == Flushed(acc)
  <2>1. new = [f EXCEPT !.jobs = Append(@, <<i>>)]
    BY <1>3 DEF Added
  <2> HIDE DEF f, new, F, J
  <2>2. f.jobs \in Seq(J) /\ f.batch \in Seq(F) /\ f.size \in Nat
    BY <1>1 DEF Accs, f, F, J
  <2>3. <<i>> \in J /\ Range(<<i>>) = {i}
    BY <1>3 DEF J, Jobs, Asked, Range
  <2>4. new = [jobs |-> Append(f.jobs, <<i>>), batch |-> f.batch, size |-> f.size]
    BY <1>1, <2>1 DEF f, Accs
  <2>5. Append(f.jobs, <<i>>) \in Seq(J)
    BY <2>2, <2>3
  <2>6. new \in Accs(addresses, size)
    BY <2>2, <2>4, <2>5 DEF Accs, F, J
  <2>7. InJobs(new.jobs) = Held(acc) \cup {i}
    BY <1>1, <2>2, <2>3, <2>4, InJobsAppend DEF f
  <2> QED
    BY <2>6, <2>7 DEF Held, new
<1>4. CASE addresses[i] # BadAddress /\ ~(n > Room(size))
  <2>1. new = [room EXCEPT !.batch = Append(@, i), !.size = @ + n]
    BY <1>4 DEF Added
  <2>2. room \in Accs(addresses, size) /\ Held(room) = Held(acc)
    BY <1>1
  <2>3. n \in Nat /\ i \in F
    BY <1>4 DEF Fitting, Asked
  <2> HIDE DEF room, new, n, F, J
  <2>4. room.jobs \in Seq(J) /\ room.batch \in Seq(F) /\ room.size \in Nat
    BY <2>2 DEF Accs, F, J
  <2>5. new = [jobs |-> room.jobs, batch |-> Append(room.batch, i), size |-> room.size + n]
    BY <2>1, <2>2 DEF Accs
  <2>6. Append(room.batch, i) \in Seq(F) /\ room.size + n \in Nat
    BY <2>3, <2>4
  <2>7. new \in Accs(addresses, size)
    BY <2>4, <2>5, <2>6 DEF Accs, F, J
  <2>8. Range(new.batch) = Range(room.batch) \cup {i} /\ new.jobs = room.jobs
    BY <2>3, <2>4, <2>5, RangeAppend
  <2> QED
    BY <2>2, <2>7, <2>8 DEF Held, new
<1> QED
  BY <1>2, <1>3, <1>4

\* The batches of a read are jobs, and every address that parsed is in one of them.
LEMMA BatchesType ==
  ASSUME NEW n \in Nat, NEW addresses, DOMAIN addresses = 1..n, Len(addresses) = n,
         NEW size, Room(size) \in Nat,
         \A i \in 1..n : addresses[i] # BadAddress => addresses[i].size \in Nat
  PROVE  /\ Batches(addresses, size) \in Seq(Jobs(addresses, size))
         /\ Asked(addresses) \subseteq InJobs(Batches(addresses, size))
<1> DEFINE A == Accs(addresses, size)
           Made(f) == f = [s \in SUBSET (1..n) |->
                             IF s = {} THEN Nothing
                             ELSE Added(addresses, size, f[s \ {Max(s)}], Max(s))]
           F == CHOOSE f : Made(f)
<1>1. Batches(addresses, size) = Flushed(F[1..n]).jobs
  <2> DEFINE seq == [i \in 1..Len(addresses) |-> i]
             G == CHOOSE f : f = [s \in SUBSET DOMAIN seq |->
                     IF s = {} THEN Nothing
                     ELSE Added(addresses, size, f[s \ {Max(s)}], seq[Max(s)])]
  <2>1. DOMAIN seq = 1..n
    OBVIOUS
  <2>2. Batches(addresses, size)
          = Flushed(FoldLeft(LAMBDA acc, i : Added(addresses, size, acc, i), Nothing, seq)).jobs
    BY DEF Batches, Flushed, Added, Nothing
  <2>3. FoldLeft(LAMBDA acc, i : Added(addresses, size, acc, i), Nothing, seq) = G[DOMAIN seq]
    BY DEF FoldLeft, MapThenFoldSet
  <2>4. \A s \in SUBSET (1..n) : s # {} => seq[Max(s)] = Max(s)
    BY MaxOf
  <2>5. \A f : Made(f) <=> f = [s \in SUBSET DOMAIN seq |->
                     IF s = {} THEN Nothing
                     ELSE Added(addresses, size, f[s \ {Max(s)}], seq[Max(s)])]
    BY <2>1, <2>4
  <2>6. F = G
    BY <2>5
  <2> HIDE DEF F, G
  <2> QED
    BY <2>1, <2>2, <2>3, <2>6
<1>2. Nothing \in A
  BY DEF Nothing, Accs
<1>3. \A acc \in A, i \in 1..n :
        LET new == Added(addresses, size, acc, i)
        IN  /\ new \in A /\ Held(acc) \subseteq Held(new)
            /\ addresses[i] # BadAddress => i \in Held(new)
  BY AddedType
<1> HIDE DEF A
<1>4. Made(F)
  <2> DEFINE g == [x \in A \X (1..n) |-> Added(addresses, size, x[1], x[2])]
  <2>1. g \in [A \X (1..n) -> A]
    BY <1>3
  <2>2. \A acc \in A, i \in 1..n : g[<<acc, i>>] = Added(addresses, size, acc, i)
    OBVIOUS
  <2> HIDE DEF g
  <2>3. PICK f \in [SUBSET (1..n) -> A] : Folds(f, n, Nothing, g)
    BY <1>2, <2>1, FoldExists
  <2>4. \A s \in SUBSET (1..n) : s # {} => /\ Max(s) \in 1..n /\ s \ {Max(s)} \in SUBSET (1..n)
    BY MaxOf
  <2>5. \A s \in SUBSET (1..n) : s # {} =>
          g[<<f[s \ {Max(s)}], Max(s)>>] = Added(addresses, size, f[s \ {Max(s)}], Max(s))
    BY <2>2, <2>4
  <2>6. Made(f)
    BY <2>3, <2>5 DEF Folds
  <2> HIDE DEF Made
  <2> QED
    BY <2>6
<1> HIDE DEF F
<1>5. F[{}] = Nothing /\ \A k \in 1..n : F[1..k] = Added(addresses, size, F[1..(k - 1)], k)
  <2>1. F[{}] = Nothing
    BY <1>4, NoPrefix
  <2>2. ASSUME NEW k \in 1..n
        PROVE  F[1..k] = Added(addresses, size, F[1..(k - 1)], k)
    <3>1. 1..k \in SUBSET (1..n) /\ 1..k # {} /\ Max(1..k) = k
      BY PrefixMax
    <3>2. (1..k) \ {Max(1..k)} = 1..(k - 1)
      BY PrefixLess
    <3>3. F[1..k] = Added(addresses, size, F[(1..k) \ {Max(1..k)}], Max(1..k))
      BY <1>4, <3>1
    <3> QED
      BY <3>1, <3>2, <3>3
  <2> QED
    BY <2>1, <2>2
<1> DEFINE S == {k \in 0..n : /\ F[1..k] \in A
                            /\ \A i \in 1..k : addresses[i] # BadAddress => i \in Held(F[1..k])}
<1>6. 0 \in S
  BY <1>2, <1>5, NoPrefix
<1>7. ASSUME NEW k \in 1..n, k - 1 \in S
      PROVE  k \in S
  <2>1. /\ F[1..(k - 1)] \in A
        /\ \A i \in 1..(k - 1) : addresses[i] # BadAddress => i \in Held(F[1..(k - 1)])
    BY <1>7
  <2>2. /\ F[1..k] \in A /\ Held(F[1..(k - 1)]) \subseteq Held(F[1..k])
        /\ addresses[k] # BadAddress => k \in Held(F[1..k])
    BY <1>3, <1>5, <2>1
  <2>3. \A i \in 1..k : i = k \/ i \in 1..(k - 1)
    OBVIOUS
  <2>4. \A i \in 1..k : addresses[i] # BadAddress => i \in Held(F[1..k])
    BY <2>1, <2>2, <2>3
  <2> QED
    BY <2>2, <2>4
<1>8. n \in S
  <2> HIDE DEF S
  <2>1. \A k \in 1..n : k - 1 \in S => k \in S
    BY <1>7
  <2>2. \A k \in 0..n : k \in S
    BY <1>6, <2>1, PrefixInduction
  <2> QED
    BY <2>2
<1>9. /\ F[1..n] \in A
      /\ \A i \in 1..n : addresses[i] # BadAddress => i \in Held(F[1..n])
  BY <1>8
<1>10. /\ Flushed(F[1..n]).jobs \in Seq(Jobs(addresses, size))
       /\ InJobs(Flushed(F[1..n]).jobs) = Held(F[1..n])
  BY <1>9, FlushedType DEF A, Accs
<1> QED
  BY <1>1, <1>9, <1>10 DEF Asked

-----------------------------------------------------------------------------
(* The reads *)

\* What a result that is there looks like.
Results == [ok : BOOLEAN, parts : Seq(Stretches)]

\* A result that is there: an error, or the first bytes of what was asked for; all of them, if the
\* item is one that is read in chunks.
Exact(a, r, size) ==
  /\ r \in Results
  /\ r.ok => /\ a # BadAddress
             /\ Addressable(a, a.size) =>
                  \E m \in 0..a.size : /\ r.parts = <<[Wanted(a) EXCEPT !.len = m]>>
                                       /\ a.size > ReadPayload(size) => m = a.size

\* A chunked read under way.
Chunked(c, size) ==
  LET a == c.args[Head(c.jobs)[1]]
  IN  /\ c.jobs # <<>> /\ Len(Head(c.jobs)) = 1
      /\ a.size > ReadPayload(size) /\ c.done < a.size
      /\ c.rounds < a.size \div ReadPayload(size) + 10
      /\ Addressable(a, a.size) => c.parts = <<[Wanted(a) EXCEPT !.len = c.done]>>

\* How far a read is: a result that is missing is one that a job is still to bring.
Progress(c, size) ==
  /\ c.args \in Seq(ReadAddresses \cup {BadAddress})
  /\ c.jobs \in Seq(Jobs(c.args, size))
  /\ DOMAIN c.results = DOMAIN c.args
  /\ \A i \in DOMAIN c.args : \/ c.results[i] = None /\ i \in InJobs(c.jobs)
                              \/ Exact(c.args[i], c.results[i], size)
  /\ c.done \in Nat /\ c.rounds \in Nat /\ c.parts \in Seq(Stretches)
  /\ c.done = 0 => c.parts = <<>> /\ c.rounds = 0
  /\ c.done > 0 => Chunked(c, size)

\* A read in progress or ended; one that met a broken link says so, or will.
GoodRead(c) ==
  /\ c.at \in {"read", "done"} /\ Progress(c, pdu[transport])
  /\ c.at = "read" /\ c.broke => ~connected[transport]
  /\ c.at = "done" => c.jobs = <<>> /\ (c.broke => c.failed)

\* All the reads there are.
Reading ==
  \A p \in Procs : /\ op[p].kind = "read" => GoodRead(op[p])
                   /\ At(p, "read") => op[p].kind = "read"

\* The inductive invariant of the reads.
ReadInv == IInv /\ Reading

\* A PDU has room for some bytes, and a read of more is made in chunks of at most 65515.
LEMMA Payloads ==
  ASSUME NEW size \in PDUSizes
  PROVE  /\ size \in Nat /\ size <= 65535
         /\ Room(size) \in Nat /\ Room(size) <= 65517
         /\ ReadPayload(size) \in Nat /\ 20 <= ReadPayload(size) /\ ReadPayload(size) <= 65515
<1>1. size \in Nat /\ size <= MaxPDU
  BY PDUSizesAssumption
<1>2. size <= 65535
  BY <1>1 DEF MaxPDU
<1> QED
  BY <1>1, <1>2 DEF Room, ReadPayload

\* An item in a batch of several that is too long for its own response makes the batch's too long.
LEMMA BatchedIsShort ==
  ASSUME NEW size \in PDUSizes, NEW n \in Nat, n > 1, NEW len \in Nat, 4 + len <= Room(size),
         14 + 4 * n + len <= size
  PROVE  len <= ReadPayload(size)
<1>1. size \in Nat
  BY Payloads
<1>2. 22 + len <= size
  BY <1>1
<1> QED
  BY <1>1, <1>2 DEF Room, ReadPayload

\* No result is taken for a missing one.
LEMMA NoneIsNoResult ==
  /\ Failed \in Results /\ None \notin Results /\ None \notin Seq(Items)
  /\ \A parts \in Seq(Stretches) : Success(parts) \in Results
  BY MissingAssumption DEF Failed, Success, Results, Items

\* The job at the head, and the jobs after it.
LEMMA JobFields ==
  ASSUME NEW args, NEW size, NEW jobs \in Seq(Jobs(args, size)), jobs # <<>>
  PROVE  /\ Head(jobs) \in Jobs(args, size) /\ Tail(jobs) \in Seq(Jobs(args, size))
         /\ InJobs(jobs) = Range(Head(jobs)) \cup InJobs(Tail(jobs))
<1> DEFINE J == Jobs(args, size)
<1> HIDE DEF J
<1>1. jobs \in Seq(J)
  BY DEF J
<1>2. /\ Head(jobs) \in J /\ Tail(jobs) \in Seq(J) /\ Head(jobs) = jobs[1]
      /\ DOMAIN jobs = 1..Len(jobs) /\ DOMAIN Tail(jobs) = 1..(Len(jobs) - 1)
      /\ \A i \in 1..(Len(jobs) - 1) : Tail(jobs)[i] = jobs[i + 1]
      /\ Len(jobs) \in Nat \ {0}
  BY <1>1
<1>3. InJobs(jobs) \subseteq Range(Head(jobs)) \cup InJobs(Tail(jobs))
  <2> SUFFICES ASSUME NEW x \in InJobs(jobs)
               PROVE  x \in Range(Head(jobs)) \cup InJobs(Tail(jobs))
    OBVIOUS
  <2>1. PICK j \in 1..Len(jobs) : x \in Range(jobs[j])
    BY <1>2 DEF InJobs
  <2>2. CASE j = 1
    BY <1>2, <2>1, <2>2
  <2>3. CASE j # 1
    <3>1. j - 1 \in 1..(Len(jobs) - 1) /\ (j - 1) + 1 = j
      BY <1>2, <2>3
    <3>2. Tail(jobs)[j - 1] = jobs[j]
      BY <1>2, <3>1
    <3> QED
      BY <1>2, <2>1, <3>1, <3>2 DEF InJobs
  <2> QED
    BY <2>2, <2>3
<1>4. Range(Head(jobs)) \subseteq InJobs(jobs)
  BY <1>2 DEF InJobs
<1>5. InJobs(Tail(jobs)) \subseteq InJobs(jobs)
  <2> SUFFICES ASSUME NEW x \in InJobs(Tail(jobs))
               PROVE  x \in InJobs(jobs)
    OBVIOUS
  <2>1. PICK j \in 1..(Len(jobs) - 1) : x \in Range(Tail(jobs)[j])
    BY <1>2 DEF InJobs
  <2>2. j + 1 \in 1..Len(jobs) /\ x \in Range(jobs[j + 1])
    BY <1>2, <2>1
  <2> QED
    BY <1>2, <2>2 DEF InJobs
<1> QED
  BY <1>2, <1>3, <1>4, <1>5 DEF J

\* The addresses a job asks for.
LEMMA JobAddresses ==
  ASSUME NEW args \in Seq(ReadAddresses \cup {BadAddress}), NEW size,
         NEW job \in Jobs(args, size)
  PROVE  /\ Len(job) \in Nat \ {0} /\ DOMAIN job = 1..Len(job)
         /\ \A x \in DOMAIN job : /\ job[x] \in DOMAIN args /\ args[job[x]] \in ReadAddresses
                                  /\ args[job[x]] # BadAddress
                                  /\ Len(job) > 1 => 4 + args[job[x]].size <= Room(size)
<1>1. job \in Seq(Asked(args)) /\ job # <<>>
  BY DEF Jobs
<1>2. Len(job) \in Nat \ {0} /\ DOMAIN job = 1..Len(job)
  BY <1>1
<1>3. ASSUME NEW x \in DOMAIN job
      PROVE  /\ job[x] \in DOMAIN args /\ args[job[x]] \in ReadAddresses
             /\ args[job[x]] # BadAddress
             /\ Len(job) > 1 => 4 + args[job[x]].size <= Room(size)
  <2>1. job[x] \in Asked(args)
    BY <1>1
  <2>2. job[x] \in DOMAIN args /\ args[job[x]] # BadAddress
    BY <2>1 DEF Asked
  <2>3. args[job[x]] \in ReadAddresses
    BY <2>2
  <2>4. Len(job) > 1 => job[x] \in Fitting(args, size)
    BY DEF Jobs
  <2> QED
    BY <2>2, <2>3, <2>4 DEF Fitting
<1> QED
  BY <1>2, <1>3

\* What a request for a job denotes.
LEMMA RequestType ==
  ASSUME NEW args \in Seq(ReadAddresses \cup {BadAddress}), NEW size \in PDUSizes,
         NEW job \in Jobs(args, size), NEW items, items = [i \in DOMAIN job |-> S7Any(args[job[i]])]
  PROVE  /\ DOMAIN items = 1..Len(job) /\ Len(items) = Len(job)
         /\ \A i \in 1..Len(job) : /\ items[i] = S7Any(args[job[i]])
                                   /\ Denotes(items[i]) \in Stretches
<1>1. Len(job) \in Nat /\ DOMAIN job = 1..Len(job)
  BY JobAddresses
<1>2. \A i \in 1..Len(job) : items[i] = S7Any(args[job[i]]) /\ args[job[i]] \in Addresses
  BY <1>1, JobAddresses DEF ReadAddresses
<1>3. \A i \in 1..Len(job) : Denotes(items[i]) \in Stretches
  BY <1>2, DenotesType
<1>4. DOMAIN items = 1..Len(job)
  BY <1>1
<1>5. Len(items) = Len(job)
  BY <1>1, <1>4
<1> QED
  BY <1>2, <1>3, <1>4, <1>5

\* The whole answer has the items that were asked for.
LEMMA WholeOfItems ==
  ASSUME NEW n \in Nat, NEW items, DOMAIN items = 1..n, Len(items) = n, NEW size \in Nat,
         \A i \in 1..n : Denotes(items[i]) \in Stretches,
         NEW whole, whole = ReadAnswer(items, size)
  PROVE  /\ whole \in Seq(Items)
         /\ whole # Refused =>
              /\ DOMAIN whole = 1..n /\ ResponseSize(items) <= size
              /\ \A i \in 1..n : /\ whole[i].bytes = Denotes(items[i])
                                 /\ items[i].bits => items[i].count = 1
  BY WholeAnswer

\* The result an answer's item x gives.
Item(answer, x) ==
  IF answer = None \/ x > Len(answer) \/ ~answer[x].ok THEN Failed
  ELSE Success(<<answer[x].bytes>>)

\* What the item of an answer makes of an address's result.
LEMMA ItemIsExact ==
  ASSUME NEW args \in Seq(ReadAddresses \cup {BadAddress}), NEW size \in PDUSizes,
         NEW job \in Jobs(args, size), Len(job) > 1 \/ args[job[1]].size <= ReadPayload(size),
         NEW items, DOMAIN items = 1..Len(job), Len(items) = Len(job),
         \A i \in 1..Len(job) : items[i] = S7Any(args[job[i]]) /\ Denotes(items[i]) \in Stretches,
         NEW whole, whole = ReadAnswer(items, size),
         NEW answer, answer = None \/ answer \in {whole} \cup Damaged(whole),
         NEW x \in DOMAIN job
  PROVE  Exact(args[job[x]], Item(answer, x), size)
<1> DEFINE n == Len(job)
           a == args[job[x]]
<1>1. /\ n \in Nat \ {0} /\ x \in 1..n /\ a \in ReadAddresses /\ a # BadAddress
      /\ n > 1 => 4 + a.size <= Room(size)
  BY JobAddresses
<1>2. /\ a \in Addresses /\ a.size \in Nat \ {0}
  BY <1>1 DEF ReadAddresses, Addresses
<1>3. /\ DOMAIN items = 1..n /\ Len(items) = n
      /\ \A i \in 1..n : Denotes(items[i]) \in Stretches
      /\ items[x] = S7Any(a)
  BY <1>1
<1>4. size \in Nat
  BY Payloads
<1>5. /\ whole \in Seq(Items)
      /\ whole # Refused =>
           /\ DOMAIN whole = 1..n /\ ResponseSize(items) <= size
           /\ whole[x].bytes = Denotes(items[x]) /\ (items[x].bits => items[x].count = 1)
  <2> HIDE DEF n, a
  <2>1. n \in Nat
    BY <1>1
  <2>2. /\ DOMAIN items = 1..n /\ Len(items) = n
        /\ \A i \in 1..n : Denotes(items[i]) \in Stretches
    BY <1>3
  <2>3. /\ whole \in Seq(Items)
        /\ whole # Refused =>
             /\ DOMAIN whole = 1..n /\ ResponseSize(items) <= size
             /\ \A i \in 1..n : /\ whole[i].bytes = Denotes(items[i])
                                /\ items[i].bits => items[i].count = 1
    BY <1>4, <2>1, <2>2, WholeOfItems
  <2> QED
    BY <1>1, <2>3
<1>6. CASE Item(answer, x) = Failed
  BY <1>6, NoneIsNoResult DEF Exact, Failed
<1>7. CASE Item(answer, x) # Failed
  <2> DEFINE s == answer[x].bytes
  <2>1. /\ answer # None /\ ~(x > Len(answer)) /\ Item(answer, x) = Success(<<s>>)
    BY <1>7 DEF Item
  <2>2. /\ answer \in Seq(Items) /\ DOMAIN answer \subseteq DOMAIN whole
        /\ \A i \in DOMAIN answer :
             /\ answer[i].bytes = [whole[i].bytes EXCEPT !.len = answer[i].bytes.len]
             /\ answer[i].bytes.len <= whole[i].bytes.len
    BY <1>5, <2>1, DamagedAnswer
  <2>3. x \in DOMAIN answer
    BY <1>1, <2>1, <2>2
  <2>4. x \in DOMAIN whole /\ whole # Refused
    BY <2>2, <2>3 DEF Refused
  <2>5. answer[x] \in Items
    BY <2>2, <2>3
  <2>6. s \in Stretches /\ s.len \in Nat
    BY <2>5 DEF Items, Stretches
  <2>7. /\ S7Any(a).bits => S7Any(a).count = 1
        /\ s = [Denotes(S7Any(a)) EXCEPT !.len = s.len] /\ s.len <= Denotes(S7Any(a)).len
    BY <1>3, <1>5, <2>2, <2>3, <2>4
  <2> HIDE DEF s
  <2>8. a.size <= 65535
    <3>1. CASE n > 1
      BY <1>1, <1>2, <3>1, Payloads
    <3>2. CASE ~(n > 1)
      <4>1. n = 1 /\ x = 1
        <5> HIDE DEF n, a
        <5> QED
          BY <1>1, <3>2
      <4> QED
        BY <1>2, <4>1, Payloads
    <3> QED
      BY <3>1, <3>2
  <2>9. Denotes(S7Any(a)).len = a.size
    BY <1>1, <2>7, <2>8, ItemLength
  <2>10. s.len \in 0..a.size
    BY <1>2, <2>6, <2>7, <2>9
  <2>11. a.size <= ReadPayload(size)
    <3>1. CASE n > 1
      <4>1. ResponseSize(items) \in Nat /\ ResponseSize(items) >= 14 + 4 * n + a.size
        BY <1>1, <1>3, <2>9, ResponseIsLong
      <4>2. 14 + 4 * n + a.size <= size
        BY <1>1, <1>2, <1>4, <1>5, <2>4, <4>1
      <4> QED
        BY <1>1, <1>2, <3>1, <4>2, BatchedIsShort
    <3>2. CASE ~(n > 1)
      <4>1. n = 1 /\ x = 1
        <5> HIDE DEF n, a
        <5> QED
          BY <1>1, <3>2
      <4> QED
        BY <4>1
    <3> QED
      BY <3>1, <3>2
  <2>12. ~(a.size > ReadPayload(size))
    BY <1>2, <2>11, Payloads
  <2>13. Addressable(a, a.size) => s = [Wanted(a) EXCEPT !.len = s.len]
    BY <1>1, <2>7, <2>8, ReadDenotes
  <2>14. <<s>> \in Seq(Stretches) /\ Success(<<s>>).parts = <<s>>
    BY <2>6 DEF Success
  <2>15. Addressable(a, a.size) =>
           \E m \in 0..a.size : /\ Success(<<s>>).parts = <<[Wanted(a) EXCEPT !.len = m]>>
                                /\ a.size > ReadPayload(size) => m = a.size
    BY <2>10, <2>12, <2>13, <2>14
  <2>16. Success(<<s>>) \in Results
    BY <2>14, NoneIsNoResult
  <2> QED
    BY <1>1, <2>1, <2>15, <2>16 DEF Exact, s
<1> QED
  BY <1>6, <1>7

\* Where ReadBatch takes a call.
AfterBatch(c, answer) ==
  [NextJob(c, BatchResults(c, answer)) EXCEPT !.broke = @ \/ answer = None]

\* Nothing that an exchange does makes a transport connected.
Falls == \A k \in Links : connected'[k] => connected[k]

\* An exchange can only take the transport down.
LEMMA TrafficFalls ==
  ASSUME Shape, Traffic, UNCHANGED transport
  PROVE  Falls
  BY DEF Shape, Traffic, Answered, Unanswered, Falls

\* What may come back for a batch.
BatchAnswers(c, size) ==
  LET whole == ReadAnswer([i \in DOMAIN Head(c.jobs) |-> S7Any(c.args[Head(c.jobs)[i]])], size)
  IN  {whole} \cup Damaged(whole)

\* What ReadBatch does, the answer being of this batch and no other.
LEMMA BatchStep ==
  ASSUME Shape, Connected, NEW p \in Procs, ReadBatch(p)
  PROVE  \E answer : /\ Set(p, AfterBatch(op[p], answer))
                     /\ \/ answer = None /\ ~connected'[transport]
                        \/ answer \in BatchAnswers(op[p], pdu[transport])
<1> DEFINE whole == ReadAnswer([i \in DOMAIN Head(op[p].jobs) |->
                                  S7Any(op[p].args[Head(op[p].jobs)[i]])], pdu[transport])
           d(answer) == AfterBatch(op[p], answer)
<1>1. {whole} \cup Damaged(whole) = BatchAnswers(op[p], pdu[transport])
  BY DEF BatchAnswers
<1>2. \/ Unsent /\ Set(p, d(None))
      \/ \E answer \in {whole} \cup Damaged(whole) :
           Answered(answer) /\ Set(p, d(Head(Append(wire[transport], answer))))
      \/ \E late \in BOOLEAN : Unanswered(whole, late) /\ Set(p, d(None))
  BY DEF ReadBatch, Exchange, AfterBatch
<1> HIDE DEF d, whole
<1>3. CASE Unsent /\ Set(p, d(None))
  BY <1>3 DEF Unsent, d
<1>4. ASSUME NEW answer \in {whole} \cup Damaged(whole), Answered(answer),
             Set(p, d(Head(Append(wire[transport], answer))))
      PROVE  Set(p, d(answer))
  <2>1. wire[transport] = <<>>
    BY <1>4 DEF Answered, Connected, Shape
  <2>2. Head(Append(<<>>, answer)) = answer
    OBVIOUS
  <2> QED
    BY <1>4, <2>1, <2>2
<1>5. CASE \E late \in BOOLEAN : Unanswered(whole, late) /\ Set(p, d(None))
  <2>1. Set(p, d(None)) /\ ~connected'[transport]
    BY <1>5 DEF Unanswered, Shape
  <2> QED
    BY <2>1 DEF d
<1> QED
  BY <1>1, <1>2, <1>3, <1>4, <1>5 DEF d

\* What NextJob sets.
LEMMA NextJobParts ==
  ASSUME NEW c, NEW results, DOMAIN c = Fields
  PROVE  LET n == NextJob(c, results)
         IN  /\ DOMAIN n = Fields /\ n.at = c.at /\ n.kind = c.kind /\ n.args = c.args
             /\ n.results = results /\ n.jobs = Tail(c.jobs) /\ n.done = 0 /\ n.parts = <<>>
             /\ n.rounds = 0 /\ n.broke = c.broke
  BY DEF NextJob, Fields

\* The head job is over, with a result of each of its addresses.
LEMMA JobIsOver ==
  ASSUME NEW size \in PDUSizes, NEW c, Progress(c, size), c.jobs # <<>>,
         NEW d, d.args = c.args, d.jobs = Tail(c.jobs), DOMAIN d.results = DOMAIN c.results,
         d.done = 0, d.parts = <<>>, d.rounds = 0,
         \A r \in DOMAIN c.args :
           \/ Exact(c.args[r], d.results[r], size)
           \/ r \notin Range(Head(c.jobs)) /\ d.results[r] = c.results[r]
  PROVE  Progress(d, size)
<1>1. /\ c.args \in Seq(ReadAddresses \cup {BadAddress}) /\ c.jobs \in Seq(Jobs(c.args, size))
      /\ DOMAIN c.results = DOMAIN c.args
      /\ \A i \in DOMAIN c.args : \/ c.results[i] = None /\ i \in InJobs(c.jobs)
                                  \/ Exact(c.args[i], c.results[i], size)
  BY DEF Progress
<1>2. /\ Tail(c.jobs) \in Seq(Jobs(c.args, size))
      /\ InJobs(c.jobs) = Range(Head(c.jobs)) \cup InJobs(Tail(c.jobs))
  BY <1>1, JobFields
<1>3. \A i \in DOMAIN c.args : \/ d.results[i] = None /\ i \in InJobs(Tail(c.jobs))
                               \/ Exact(c.args[i], d.results[i], size)
  BY <1>1, <1>2
<1>4. <<>> \in Seq(Stretches)
  OBVIOUS
<1> QED
  BY <1>1, <1>2, <1>3, <1>4 DEF Progress

\* A batch brings a good result for each of its addresses.
LEMMA BatchIsGood ==
  ASSUME NEW size \in PDUSizes, NEW c, DOMAIN c = Fields, Progress(c, size), c.jobs # <<>>,
         Len(Head(c.jobs)) > 1 \/ c.args[Head(c.jobs)[1]].size <= ReadPayload(size),
         NEW answer, answer = None \/ answer \in BatchAnswers(c, size)
  PROVE  /\ Progress(AfterBatch(c, answer), size)
         /\ AfterBatch(c, answer).broke => c.broke \/ answer = None
         /\ None \notin BatchAnswers(c, size)
<1> DEFINE job == Head(c.jobs)
           items == [i \in DOMAIN job |-> S7Any(c.args[job[i]])]
           whole == ReadAnswer(items, size)
           d == AfterBatch(c, answer)
           e == NextJob(c, BatchResults(c, answer))
<1>1. c.args \in Seq(ReadAddresses \cup {BadAddress}) /\ c.jobs \in Seq(Jobs(c.args, size))
      /\ DOMAIN c.results = DOMAIN c.args
  BY DEF Progress
<1>2. job \in Jobs(c.args, size)
  BY <1>1, JobFields
<1>3. /\ DOMAIN items = 1..Len(job) /\ Len(items) = Len(job)
      /\ \A i \in 1..Len(job) : items[i] = S7Any(c.args[job[i]]) /\ Denotes(items[i]) \in Stretches
  BY <1>1, <1>2, RequestType
<1>4. whole = ReadAnswer(items, size) /\ BatchAnswers(c, size) = {whole} \cup Damaged(whole)
  BY DEF BatchAnswers
<1> HIDE DEF items, whole
<1>5. \A x \in DOMAIN job : Exact(c.args[job[x]], Item(answer, x), size)
  <2> SUFFICES ASSUME NEW x \in DOMAIN job
               PROVE  Exact(c.args[job[x]], Item(answer, x), size)
    OBVIOUS
  <2> HIDE DEF job
  <2>1. Len(job) > 1 \/ c.args[job[1]].size <= ReadPayload(size)
    BY DEF job
  <2> QED
    BY <1>1, <1>2, <1>3, <1>4, <2>1, ItemIsExact
<1>6. /\ DOMAIN e = Fields /\ e.args = c.args /\ e.results = BatchResults(c, answer)
      /\ e.jobs = Tail(c.jobs) /\ e.done = 0 /\ e.parts = <<>> /\ e.rounds = 0 /\ e.broke = c.broke
  BY NextJobParts
<1>7. d = [e EXCEPT !.broke = @ \/ answer = None]
  BY DEF AfterBatch
<1> HIDE DEF d, e
<1>8. /\ d.args = c.args /\ d.results = BatchResults(c, answer)
      /\ d.jobs = Tail(c.jobs) /\ d.done = 0 /\ d.parts = <<>> /\ d.rounds = 0
      /\ d.broke = (c.broke \/ answer = None)
  BY <1>6, <1>7 DEF Fields
<1>9. BatchResults(c, answer) =
        [r \in DOMAIN c.results |->
           IF \E i \in DOMAIN job : job[i] = r
           THEN Item(answer, CHOOSE i \in DOMAIN job : job[i] = r) ELSE c.results[r]]
  BY DEF BatchResults, Item
<1> HIDE DEF job
<1>10. ASSUME NEW r \in DOMAIN c.args
       PROVE  \/ Exact(c.args[r], d.results[r], size)
              \/ r \notin Range(job) /\ d.results[r] = c.results[r]
  <2>1. CASE \E i \in DOMAIN job : job[i] = r
    <3> DEFINE x == CHOOSE i \in DOMAIN job : job[i] = r
    <3>1. x \in DOMAIN job /\ job[x] = r
      BY <2>1
    <3>2. d.results[r] = Item(answer, x)
      BY <1>1, <1>8, <1>9, <2>1
    <3> HIDE DEF x
    <3> QED
      BY <1>5, <3>1, <3>2
  <2>2. CASE ~\E i \in DOMAIN job : job[i] = r
    BY <1>1, <1>8, <1>9, <2>2 DEF Range
  <2> QED
    BY <2>1, <2>2
<1>11. DOMAIN d.results = DOMAIN c.results
  BY <1>8, <1>9
<1>12. Progress(d, size)
  BY <1>8, <1>10, <1>11, JobIsOver DEF job
<1>13. None \notin BatchAnswers(c, size)
  <2> DEFINE k == Len(job)
  <2>1. k \in Nat /\ DOMAIN items = 1..k /\ Len(items) = k
        /\ \A i \in 1..k : Denotes(items[i]) \in Stretches
    BY <1>1, <1>2, <1>3, JobAddresses
  <2>2. size \in Nat
    BY Payloads
  <2> HIDE DEF k
  <2>3. whole \in Seq(Items)
    BY <1>4, <2>1, <2>2, WholeOfItems
  <2>4. {whole} \cup Damaged(whole) \subseteq Seq(Items)
    BY <2>3, DamagedAnswer
  <2> QED
    BY <1>4, <2>4, NoneIsNoResult
<1> QED
  BY <1>8, <1>12, <1>13 DEF d

\* The stretches a chunked read has covered stay stretches.
LEMMA JoinType ==
  ASSUME NEW parts \in Seq(Stretches), NEW s \in Stretches
  PROVE  Join(parts, s) \in Seq(Stretches)
<1> DEFINE k == Len(parts)
<1>1. CASE Join(parts, s) = Append(parts, s)
  BY <1>1
<1>2. CASE Join(parts, s) # Append(parts, s)
  <2>1. parts # <<>> /\ Join(parts, s) = [parts EXCEPT ![k].len = parts[k].len + s.len]
    BY <1>2 DEF Join
  <2>2. k \in DOMAIN parts /\ parts[k] \in Stretches
    BY <2>1
  <2>3. [parts[k] EXCEPT !.len = parts[k].len + s.len] \in Stretches
    BY <2>2 DEF Stretches
  <2> HIDE DEF k
  <2>4. Join(parts, s) = [parts EXCEPT ![k] = [parts[k] EXCEPT !.len = parts[k].len + s.len]]
    BY <2>1, <2>2
  <2> DEFINE t == [parts[k] EXCEPT !.len = parts[k].len + s.len]
  <2> HIDE DEF t
  <2> QED
    BY <2>2, <2>3, <2>4 DEF t
<1> QED
  BY <1>1, <1>2

\* How many bytes the next chunk asks for.
ChunkSize(a, c, size) ==
  IF a.size - c.done > ReadPayload(size) THEN ReadPayload(size) ELSE a.size - c.done

\* What may come back for a chunk.
ChunkAnswers(a, d, n, size) ==
  LET whole == ReadAnswer(<<S7Any(Chunk(a, d, n))>>, size)
  IN  {whole} \cup Damaged(whole)

\* What ReadChunk does, the answer being of this chunk and no other.
LEMMA ChunkStep ==
  ASSUME Shape, Connected, NEW p \in Procs, ReadChunk(p),
         NEW a, a = op[p].args[Head(op[p].jobs)[1]],
         NEW n, n = ChunkSize(a, op[p], pdu[transport])
  PROVE  \E answer :
           /\ Set(p, AfterChunk(op[p], a.size, ReadPayload(pdu[transport]), answer, n))
           /\ \/ answer = None /\ ~connected'[transport]
              \/ answer \in ChunkAnswers(a, op[p].done, n, pdu[transport])
<1> DEFINE whole == ReadAnswer(<<S7Any(Chunk(a, op[p].done, n))>>, pdu[transport])
           d(answer) == AfterChunk(op[p], a.size, ReadPayload(pdu[transport]), answer, n)
<1>1. \/ Unsent /\ Set(p, d(None))
      \/ \E answer \in {whole} \cup Damaged(whole) :
           Answered(answer) /\ Set(p, d(Head(Append(wire[transport], answer))))
      \/ \E late \in BOOLEAN : Unanswered(whole, late) /\ Set(p, d(None))
  <2> HIDE DEF d
  <2> QED
    BY DEF ReadChunk, Exchange, ChunkSize, d
<1>2. {whole} \cup Damaged(whole) = ChunkAnswers(a, op[p].done, n, pdu[transport])
  BY DEF ChunkAnswers
<1> HIDE DEF d, whole
<1>3. CASE Unsent /\ Set(p, d(None))
  BY <1>3 DEF Unsent, d
<1>4. ASSUME NEW answer \in {whole} \cup Damaged(whole), Answered(answer),
             Set(p, d(Head(Append(wire[transport], answer))))
      PROVE  Set(p, d(answer))
  <2>1. wire[transport] = <<>>
    BY <1>4 DEF Answered, Connected, Shape
  <2>2. Head(Append(<<>>, answer)) = answer
    OBVIOUS
  <2> QED
    BY <1>4, <2>1, <2>2
<1>5. CASE \E late \in BOOLEAN : Unanswered(whole, late) /\ Set(p, d(None))
  <2>1. Set(p, d(None)) /\ ~connected'[transport]
    BY <1>5 DEF Unanswered, Shape
  <2> QED
    BY <2>1 DEF d
<1> QED
  BY <1>2, <1>1, <1>3, <1>4, <1>5 DEF d

\* The first bytes of a stretch.
Cut(s, len) == [s EXCEPT !.len = len]

\* What a chunked read has after k bytes, and the m bytes that its next request of n brings.
SoFar(a, k) == IF k = 0 THEN <<>> ELSE <<[Wanted(a) EXCEPT !.len = k]>>

Piece(a, k, n, m) == Cut(Stretch(a.area, IF a.area = "DB" THEN a.db ELSE 0, a.off + k, n), m)

Reached(a, k) == <<[Wanted(a) EXCEPT !.len = k]>>

\* The bytes of one more request follow those that have come.
LEMMA ChunkJoins ==
  ASSUME NEW a \in Addresses, Addressable(a, a.size), NEW d \in Nat, NEW m \in Nat \ {0},
         NEW n \in Nat, d + n <= a.size, m <= n
  PROVE  Join(SoFar(a, d), Piece(a, d, n, m)) = Reached(a, d + m)
<1> DEFINE db == IF a.area = "DB" THEN a.db ELSE 0
           v == Wanted(a)
           s == Piece(a, d, n, m)
           parts == SoFar(a, d)
<1>1. v = Stretch(a.area, db, a.off, a.size) /\ a.off \in Nat
  BY DEF Wanted, Addresses
<1>2. s = Stretch(a.area, db, a.off + d, m)
  BY DEF Stretch, Cut, Piece
<1>3. parts = IF d = 0 THEN <<>> ELSE <<[v EXCEPT !.len = d]>>
  BY DEF SoFar
<1> HIDE DEF v, db, s, parts
<1>4. Moved(v, a.off + d, m) = Stretch(a.area, db, a.off + d, m)
  BY <1>1, MovedStretch
<1>5. Join(parts, Moved(v, a.off + d, m)) = <<[v EXCEPT !.len = d + m]>>
  BY <1>1, <1>3, JoinNext
<1>6. Join(parts, s) = <<[v EXCEPT !.len = d + m]>>
  BY <1>2, <1>4, <1>5
<1> QED
  BY <1>6 DEF v, s, parts, Reached

\* What may come back for items.
Responses(items, size) ==
  LET whole == ReadAnswer(items, size)
  IN  {whole} \cup Damaged(whole)

\* The whole answer to one item.
LEMMA OneItemWhole ==
  ASSUME NEW items, DOMAIN items = 1..1, Len(items) = 1, Denotes(items[1]) \in Stretches,
         NEW size \in Nat, NEW whole, whole = ReadAnswer(items, size)
  PROVE  /\ whole \in Seq(Items)
         /\ whole # Refused => DOMAIN whole = 1..1 /\ whole[1].bytes = Denotes(items[1])
<1> DEFINE k == 1
<1>1. k \in Nat /\ DOMAIN items = 1..k /\ Len(items) = k
      /\ \A i \in 1..k : Denotes(items[i]) \in Stretches
  OBVIOUS
<1> HIDE DEF k
<1>2. /\ whole \in Seq(Items)
      /\ whole # Refused =>
           /\ DOMAIN whole = 1..k /\ ResponseSize(items) <= size
           /\ \A i \in 1..k : /\ whole[i].bytes = Denotes(items[i])
                              /\ items[i].bits => items[i].count = 1
  BY <1>1, WholeOfItems
<1> QED
  BY <1>2 DEF k

\* The answer to a request of one item.
LEMMA OneItem ==
  ASSUME NEW items, DOMAIN items = 1..1, Len(items) = 1, Denotes(items[1]) \in Stretches,
         NEW size \in Nat, NEW answer \in Responses(items, size)
  PROVE  /\ answer \in Seq(Items)
         /\ answer # Refused =>
              /\ answer[1] \in Items
              /\ answer[1].bytes = Cut(Denotes(items[1]), answer[1].bytes.len)
              /\ answer[1].bytes.len <= Denotes(items[1]).len
<1> DEFINE whole == ReadAnswer(items, size)
<1>1. answer \in {whole} \cup Damaged(whole)
  BY DEF Responses
<1>2. /\ whole \in Seq(Items)
      /\ whole # Refused => DOMAIN whole = 1..1 /\ whole[1].bytes = Denotes(items[1])
  BY OneItemWhole
<1> HIDE DEF whole
<1>3. /\ answer \in Seq(Items) /\ DOMAIN answer \subseteq DOMAIN whole
      /\ \A i \in DOMAIN answer :
           /\ answer[i].bytes = [whole[i].bytes EXCEPT !.len = answer[i].bytes.len]
           /\ answer[i].bytes.len <= whole[i].bytes.len
  BY <1>1, <1>2, DamagedAnswer
<1>4. ASSUME answer # Refused
      PROVE  /\ answer[1] \in Items
             /\ answer[1].bytes = Cut(Denotes(items[1]), answer[1].bytes.len)
             /\ answer[1].bytes.len <= Denotes(items[1]).len
  <2>1. answer # <<>> /\ answer \in Seq(Items)
    BY <1>3, <1>4 DEF Refused
  <2>2. 1 \in DOMAIN answer /\ answer[1] \in Items
    BY <2>1
  <2>3. 1 \in DOMAIN whole /\ whole # Refused
    BY <1>3, <2>2 DEF Refused
  <2>4. whole[1].bytes = Denotes(items[1])
    BY <1>2, <2>3
  <2> QED
    BY <1>3, <2>2, <2>4 DEF Cut
<1> QED
  BY <1>3, <1>4

\* A chunk that came with bytes.
LEMMA ChunkBytes ==
  ASSUME NEW a \in Addresses, NEW d \in Nat, NEW n \in Nat \ {0}, n <= 65535, NEW size \in Nat,
         NEW answer \in ChunkAnswers(a, d, n, size)
  PROVE  /\ answer \in Seq(Items)
         /\ answer # Refused =>
              LET s == answer[1].bytes
              IN  /\ s \in Stretches /\ s.len <= n
                  /\ Addressable(a, d + n) =>
                       s = Cut(Stretch(a.area, IF a.area = "DB" THEN a.db ELSE 0, a.off + d, n),
                               s.len)
<1> DEFINE item == S7Any(Chunk(a, d, n))
           items == <<item>>
<1>1. /\ Denotes(item) \in Stretches /\ Denotes(item).len = n
      /\ Addressable(a, d + n) =>
           Denotes(item) = Stretch(a.area, IF a.area = "DB" THEN a.db ELSE 0, a.off + d, n)
  BY ChunkDenotes
<1> HIDE DEF item
<1>2. items[1] = item
  OBVIOUS
<1>3. DOMAIN items = 1..1 /\ Len(items) = 1
  OBVIOUS
<1>4. answer \in Responses(items, size)
  BY DEF ChunkAnswers, Responses, item
<1> HIDE DEF items
<1>5. /\ answer \in Seq(Items)
      /\ answer # Refused =>
           /\ answer[1] \in Items
           /\ answer[1].bytes = Cut(Denotes(item), answer[1].bytes.len)
           /\ answer[1].bytes.len <= Denotes(item).len
  <2>1. Denotes(items[1]) \in Stretches
    BY <1>1, <1>2
  <2> QED
    <3>1. /\ answer \in Seq(Items)
          /\ answer # Refused =>
               /\ answer[1] \in Items
               /\ answer[1].bytes = Cut(Denotes(items[1]), answer[1].bytes.len)
               /\ answer[1].bytes.len <= Denotes(items[1]).len
      BY <1>3, <1>4, <2>1, OneItem
    <3> QED
      BY <1>2, <3>1
<1>6. answer # Refused => answer[1].bytes \in Stretches
  BY <1>5 DEF Items
<1> QED
  BY <1>1, <1>5, <1>6

\* The results with r for address i.
WithResult(c, i, r) == [c.results EXCEPT ![i] = r]

\* A chunked read ends with result r for its address.
LEMMA ChunkedEnds ==
  ASSUME NEW size \in PDUSizes, NEW c, DOMAIN c = Fields, Progress(c, size), c.jobs # <<>>,
         Len(Head(c.jobs)) = 1, NEW i, i = Head(c.jobs)[1], NEW r, Exact(c.args[i], r, size)
  PROVE  /\ Progress(NextJob(c, WithResult(c, i, r)), size)
         /\ NextJob(c, WithResult(c, i, r)).broke = c.broke
         /\ DOMAIN NextJob(c, WithResult(c, i, r)) = Fields
<1> DEFINE results == WithResult(c, i, r)
           d == NextJob(c, results)
<1>1. DOMAIN c.results = DOMAIN c.args /\ DOMAIN results = DOMAIN c.results
  BY DEF Progress, WithResult
<1>2. \A k \in DOMAIN c.args : results[k] = IF k = i THEN r ELSE c.results[k]
  BY <1>1 DEF WithResult
<1> HIDE DEF results
<1>3. /\ DOMAIN d = Fields /\ d.args = c.args /\ d.results = results /\ d.jobs = Tail(c.jobs)
      /\ d.done = 0 /\ d.parts = <<>> /\ d.rounds = 0 /\ d.broke = c.broke
  BY NextJobParts
<1> HIDE DEF d
<1>4. \A k \in Range(Head(c.jobs)) : k = i
  <2>1. Head(c.jobs) \in Jobs(c.args, size)
    BY JobFields DEF Progress
  <2>2. DOMAIN Head(c.jobs) = 1..Len(Head(c.jobs))
    BY <2>1, JobAddresses DEF Progress
  <2> QED
    BY <2>2 DEF Range
<1>5. \A k \in DOMAIN c.args : \/ Exact(c.args[k], d.results[k], size)
                               \/ k \notin Range(Head(c.jobs)) /\ d.results[k] = c.results[k]
  BY <1>2, <1>3, <1>4
<1>6. Progress(d, size)
  BY <1>1, <1>3, <1>5, JobIsOver
<1> QED
  BY <1>3, <1>6 DEF d, results

\* A chunked read after one more chunk.
Further(c, bytes, n) ==
  [c EXCEPT !.parts = Join(@, bytes), !.done = @ + bytes.len, !.rounds = @ + 1,
            !.short = @ + IF bytes.len < n THEN 1 ELSE 0]

\* What Further sets.
LEMMA FurtherFields ==
  ASSUME NEW c, DOMAIN c = Fields, NEW bytes, NEW n
  PROVE  LET f == Further(c, bytes, n)
         IN  /\ DOMAIN f = Fields /\ f.at = c.at /\ f.kind = c.kind /\ f.args = c.args
             /\ f.results = c.results /\ f.jobs = c.jobs /\ f.broke = c.broke
             /\ f.parts = Join(c.parts, bytes) /\ f.done = c.done + bytes.len
             /\ f.rounds = c.rounds + 1
  BY DEF Further, Fields

\* Where ReadChunk takes a call, what it may be answered, and what it is for.
AfterAnswer(c, size, answer) ==
  LET a == c.args[Head(c.jobs)[1]]
  IN  AfterChunk(c, a.size, ReadPayload(size), answer, ChunkSize(a, c, size))

AnswersOf(c, size) ==
  LET a == c.args[Head(c.jobs)[1]]
  IN  ChunkAnswers(a, c.done, ChunkSize(a, c, size), size)

Long(c, size) == c.args[Head(c.jobs)[1]].size > ReadPayload(size)

\* A chunk takes a read on by the bytes it brings, or ends the job with a good result.
LEMMA ChunkIsGood ==
  ASSUME NEW size \in PDUSizes, NEW c, DOMAIN c = Fields, Progress(c, size), c.jobs # <<>>,
         Len(Head(c.jobs)) = 1, Long(c, size),
         NEW answer, answer = None \/ answer \in AnswersOf(c, size),
         NEW d, d = AfterAnswer(c, size, answer)
  PROVE  /\ Progress(d, size) /\ (d.broke => c.broke \/ answer = None)
         /\ None \notin AnswersOf(c, size)
<1> DEFINE i == Head(c.jobs)[1]
           a == c.args[i]
           n == ChunkSize(a, c, size)
           most == ReadPayload(size)
           fail == NextJob(c, WithResult(c, i, Failed))
           s == answer[1].bytes
           f == Further(c, s, n)
<1>1. /\ c.args \in Seq(ReadAddresses \cup {BadAddress}) /\ c.jobs \in Seq(Jobs(c.args, size))
      /\ DOMAIN c.results = DOMAIN c.args
      /\ c.done \in Nat /\ c.rounds \in Nat /\ c.parts \in Seq(Stretches)
      /\ c.done = 0 => c.parts = <<>> /\ c.rounds = 0
      /\ c.done > 0 => Chunked(c, size)
  BY DEF Progress
<1>2. Head(c.jobs) \in Jobs(c.args, size)
  BY <1>1, JobFields
<1>3. i \in DOMAIN c.args /\ a \in ReadAddresses /\ a # BadAddress
  <2>1. 1 \in DOMAIN Head(c.jobs)
    BY <1>1, <1>2, JobAddresses
  <2> QED
    BY <1>1, <1>2, <2>1, JobAddresses
<1>4. /\ a.size > most
      /\ answer # None => answer \in ChunkAnswers(a, c.done, n, size)
      /\ c.done > 0 => /\ c.done < a.size /\ c.rounds < a.size \div most + 10
                       /\ Addressable(a, a.size) => c.parts = <<[Wanted(a) EXCEPT !.len = c.done]>>
  BY <1>1 DEF Chunked, Long, AnswersOf
<1>5. AnswersOf(c, size) = ChunkAnswers(a, c.done, n, size)
  BY DEF AnswersOf
<1>6. n = IF a.size - c.done > most THEN most ELSE a.size - c.done
  BY DEF ChunkSize
<1>7. d = IF answer = None THEN [fail EXCEPT !.broke = TRUE]
          ELSE IF answer = Refused \/ ~answer[1].ok \/ s.len = 0 THEN fail
          ELSE IF f.done >= a.size THEN NextJob(c, WithResult(c, i, Success(f.parts)))
          ELSE IF f.rounds >= a.size \div most + 10 THEN fail
          ELSE f
  BY DEF AfterAnswer, AfterChunk, Further, WithResult
<1>8. Exact(a, Failed, size)
  BY NoneIsNoResult DEF Exact, Failed
<1>9. Progress(fail, size) /\ fail.broke = c.broke /\ DOMAIN fail = Fields
  BY <1>8, ChunkedEnds
<1>10. ASSUME NEW g, g.args = c.args, g.jobs = c.jobs, g.done < a.size,
              g.rounds < a.size \div most + 10,
              Addressable(a, a.size) => g.parts = <<[Wanted(a) EXCEPT !.len = g.done]>>
       PROVE  Chunked(g, size)
  <2>1. a.size > most /\ a = c.args[Head(c.jobs)[1]] /\ c.jobs # <<>> /\ Len(Head(c.jobs)) = 1
    BY <1>4
  <2>2. a = g.args[Head(g.jobs)[1]]
    BY <1>10
  <2> HIDE DEF a
  <2> QED
    BY <1>10, <2>1, <2>2 DEF Chunked
<1>11. ASSUME NEW r, Exact(a, r, size)
       PROVE  /\ Progress(NextJob(c, WithResult(c, i, r)), size)
              /\ NextJob(c, WithResult(c, i, r)).broke = c.broke
  BY <1>11, ChunkedEnds
<1> HIDE DEF i, a, n, most, fail, f, s
<1>12. a \in Addresses /\ a.size \in Nat \ {0}
  BY <1>3 DEF ReadAddresses, Addresses
<1>13. most \in Nat /\ 20 <= most /\ most <= 65515 /\ size \in Nat
  BY Payloads DEF most
<1>14. c.done < a.size /\ c.done + n <= a.size /\ n \in Nat \ {0} /\ n <= 65535
  <2>1. c.done < a.size
    BY <1>1, <1>4, <1>12
  <2> QED
    BY <1>1, <1>6, <1>12, <1>13, <2>1
<1>15. Addressable(a, a.size) =>
         c.parts = IF c.done = 0 THEN <<>> ELSE <<[Wanted(a) EXCEPT !.len = c.done]>>
  BY <1>1, <1>4
<1>16. None \notin AnswersOf(c, size)
  <2> DEFINE k == c.done
  <2>1. k \in Nat
    BY <1>1
  <2> HIDE DEF k
  <2>2. \A x \in ChunkAnswers(a, k, n, size) : x \in Seq(Items)
    BY <1>12, <1>13, <1>14, <2>1, ChunkBytes
  <2> QED
    BY <1>5, <2>2, NoneIsNoResult DEF k
<1>17. CASE answer = None
  <2>1. d = [fail EXCEPT !.broke = TRUE]
    BY <1>7, <1>17
  <2>2. Progress(d, size)
    BY <1>9, <2>1 DEF Progress, Chunked, Fields
  <2> QED
    BY <1>16, <1>17, <2>2
<1>18. CASE answer # None /\ d = fail
  BY <1>9, <1>16, <1>18
<1>19. CASE answer # None /\ d # fail
  <2>1. /\ answer \in ChunkAnswers(a, c.done, n, size) /\ answer # Refused /\ s.len # 0
        /\ \/ f.done >= a.size /\ d = NextJob(c, WithResult(c, i, Success(f.parts)))
           \/ /\ ~(f.done >= a.size) /\ ~(f.rounds >= a.size \div most + 10)
              /\ d = f
    BY <1>4, <1>7, <1>19
  <2>2. /\ s \in Stretches /\ s.len <= n
        /\ Addressable(a, c.done + n) =>
             s = Cut(Stretch(a.area, IF a.area = "DB" THEN a.db ELSE 0, a.off + c.done, n), s.len)
    <3>1. LET b == answer[1].bytes
          IN  /\ b \in Stretches /\ b.len <= n
              /\ Addressable(a, c.done + n) =>
                   b = Cut(Stretch(a.area, IF a.area = "DB" THEN a.db ELSE 0, a.off + c.done, n), b.len)
      <4> DEFINE k == c.done
      <4>1. k \in Nat /\ answer \in ChunkAnswers(a, k, n, size)
        BY <1>1, <2>1
      <4> HIDE DEF k
      <4>2. LET b == answer[1].bytes
            IN  /\ b \in Stretches /\ b.len <= n
                /\ Addressable(a, k + n) =>
                     b = Cut(Stretch(a.area, IF a.area = "DB" THEN a.db ELSE 0, a.off + k, n), b.len)
        BY <1>12, <1>13, <1>14, <2>1, <4>1, ChunkBytes
      <4> QED
        BY <4>2 DEF k
    <3> QED
      BY <3>1 DEF s
  <2>3. s.len \in Nat \ {0}
    BY <2>1, <2>2 DEF Stretches
  <2>4. /\ DOMAIN f = Fields /\ f.at = c.at /\ f.kind = c.kind /\ f.args = c.args
        /\ f.results = c.results /\ f.jobs = c.jobs /\ f.broke = c.broke
        /\ f.parts = Join(c.parts, s) /\ f.done = c.done + s.len /\ f.rounds = c.rounds + 1
    BY FurtherFields DEF f, s
  <2>5. f.parts \in Seq(Stretches) /\ f.done \in Nat /\ f.done > 0 /\ f.rounds \in Nat
        /\ f.done <= a.size
    <3>1. f.parts \in Seq(Stretches)
      BY <1>1, <2>2, <2>4, JoinType
    <3> DEFINE k == c.done
               m == s.len
    <3>2. /\ k \in Nat /\ c.rounds \in Nat /\ m \in Nat \ {0} /\ m <= n /\ k + n <= a.size
          /\ n \in Nat /\ a.size \in Nat
      BY <1>1, <1>12, <1>14, <2>2, <2>3
    <3>3. f.done = k + m /\ f.rounds = c.rounds + 1
      BY <2>4
    <3> HIDE DEF k, m
    <3>4. k + m \in Nat /\ k + m > 0 /\ k + m <= a.size /\ c.rounds + 1 \in Nat
      BY <3>2
    <3> QED
      BY <3>1, <3>3, <3>4
  <2>6. Addressable(a, a.size) => f.parts = <<[Wanted(a) EXCEPT !.len = f.done]>>
    <3> SUFFICES ASSUME Addressable(a, a.size)
                 PROVE  f.parts = <<[Wanted(a) EXCEPT !.len = f.done]>>
      OBVIOUS
    <3>1. Addressable(a, c.done + n)
      <4>1. a.off \in Nat
        BY <1>12 DEF Addresses
      <4> QED
        BY <1>1, <1>12, <1>14, <4>1 DEF Addressable
    <3>2. n \in Nat /\ s = Cut(Stretch(a.area, IF a.area = "DB" THEN a.db ELSE 0, a.off + c.done, n), s.len)
      BY <1>14, <2>2, <3>1
    <3>3. Join(c.parts, s) = <<[Wanted(a) EXCEPT !.len = c.done + s.len]>>
      <4> DEFINE m == s.len
                 parts == c.parts
                 k == c.done
      <4>1. m \in Nat \ {0} /\ m <= n /\ k \in Nat /\ k + n <= a.size
        BY <1>1, <1>14, <2>2, <2>3
      <4>2. parts = IF k = 0 THEN <<>> ELSE <<[Wanted(a) EXCEPT !.len = k]>>
        BY <1>15
      <4>3. s = Cut(Stretch(a.area, IF a.area = "DB" THEN a.db ELSE 0, a.off + k, n), m)
        BY <3>2
      <4> HIDE DEF m, parts, k
      <4>4. n \in Nat /\ a \in Addresses /\ Addressable(a, a.size)
        BY <1>12, <3>2
      <4>5. Join(SoFar(a, k), Piece(a, k, n, m)) = Reached(a, k + m)
        BY <4>1, <4>4, ChunkJoins
      <4>6. Join(parts, s) = <<[Wanted(a) EXCEPT !.len = k + m]>>
        BY <4>2, <4>3, <4>5 DEF SoFar, Piece, Reached
      <4> QED
        BY <4>6 DEF m, parts, k
    <3> QED
      BY <2>4, <3>3
  <2> HIDE DEF s, f
  <2>7. CASE f.done >= a.size /\ d = NextJob(c, WithResult(c, i, Success(f.parts)))
    <3>1. f.done = a.size /\ a.size \in 0..a.size
      BY <1>12, <2>5, <2>7
    <3>2. Success(f.parts) \in Results /\ Success(f.parts).parts = f.parts
      BY <2>5, NoneIsNoResult DEF Success
    <3>3. Exact(a, Success(f.parts), size)
      BY <1>3, <2>6, <3>1, <3>2 DEF Exact
    <3>4. Progress(d, size) /\ d.broke = c.broke
      BY <1>11, <2>7, <3>3
    <3> QED
      BY <1>16, <3>4
  <2>8. CASE d = f /\ ~(f.done >= a.size) /\ ~(f.rounds >= a.size \div most + 10)
    <3>1. f.done < a.size
      BY <1>12, <2>5, <2>8
    <3>2. f.rounds < a.size \div most + 10
      <4>1. a.size \div most \in Nat
        BY <1>12, <1>13
      <4> QED
        BY <2>5, <2>8, <4>1
    <3>3. Chunked(f, size)
      BY <1>10, <2>4, <2>6, <3>1, <3>2
    <3>4. Progress(f, size)
      BY <1>1, <2>4, <2>5, <3>3 DEF Progress
    <3> QED
      BY <1>16, <2>4, <2>8, <3>4
  <2> QED
    BY <2>1, <2>7, <2>8
<1> QED
  BY <1>16, <1>17, <1>18, <1>19

\* ChunkStep in these words.
LEMMA AnswerStep ==
  ASSUME Shape, Connected, NEW p \in Procs, ReadChunk(p)
  PROVE  /\ op[p].jobs # <<>> /\ Len(Head(op[p].jobs)) = 1 /\ Long(op[p], pdu[transport])
         /\ \E answer : /\ Set(p, AfterAnswer(op[p], pdu[transport], answer))
                        /\ \/ answer = None /\ ~connected'[transport]
                           \/ answer \in AnswersOf(op[p], pdu[transport])
<1> DEFINE c == op[p]
           size == pdu[transport]
           a == c.args[Head(c.jobs)[1]]
           n == ChunkSize(a, c, size)
<1>1. \E answer : /\ Set(p, AfterChunk(c, a.size, ReadPayload(size), answer, n))
                  /\ \/ answer = None /\ ~connected'[transport]
                     \/ answer \in ChunkAnswers(a, c.done, n, size)
  BY ChunkStep
<1>2. /\ \A answer : AfterAnswer(c, size, answer)
                       = AfterChunk(c, a.size, ReadPayload(size), answer, n)
      /\ AnswersOf(c, size) = ChunkAnswers(a, c.done, n, size)
      /\ Long(c, size) <=> a.size > ReadPayload(size)
  BY DEF AfterAnswer, AnswersOf, Long
<1>3. c.jobs # <<>> /\ Len(Head(c.jobs)) = 1 /\ a.size > ReadPayload(size)
  BY DEF ReadChunk
<1> HIDE DEF c, size, a, n
<1>4. PICK answer : /\ Set(p, AfterChunk(c, a.size, ReadPayload(size), answer, n))
                    /\ \/ answer = None /\ ~connected'[transport]
                       \/ answer \in ChunkAnswers(a, c.done, n, size)
  BY <1>1
<1>5. Set(p, AfterAnswer(c, size, answer))
  BY <1>2, <1>4
<1> QED
  BY <1>2, <1>3, <1>4, <1>5 DEF c, size

\* A read in progress or ended is not disturbed while the client's transport is the same one and
\* does not become connected.
LEMMA ReadStays ==
  ASSUME NEW q, GoodRead(op[q]), op'[q] = op[q], pdu'[transport'] = pdu[transport],
         connected'[transport'] => connected[transport]
  PROVE  GoodRead(op[q])'
<1> DEFINE c == op[q]
           size == pdu[transport]
<1>1. Progress(c, size) /\ c.at \in {"read", "done"}
      /\ (c.at = "read" /\ c.broke => ~connected[transport])
      /\ (c.at = "done" => c.jobs = <<>> /\ (c.broke => c.failed))
  BY DEF GoodRead
<1>2. op'[q] = c /\ pdu'[transport'] = size
  OBVIOUS
<1> HIDE DEF c, size
<1>3. Progress(op'[q], pdu'[transport'])
  BY <1>1, <1>2
<1> QED
  BY <1>1, <1>2, <1>3 DEF GoodRead

\* A step of one goroutine leaves the others' reads good.
LEMMA OthersRead ==
  ASSUME IInv, Reading, NEW p \in Procs, \A q \in Procs : q # p => op'[q] = op[q],
         \/ mu \in {None, p}
         \/ /\ pdu'[transport'] = pdu[transport]
            /\ connected'[transport'] => connected[transport],
         op'[p].kind = "read" => GoodRead(op[p])',
         op'[p].at = "read" => op'[p].kind = "read"
  PROVE  Reading'
<1> SUFFICES ASSUME NEW q \in Procs, q # p
             PROVE  /\ op'[q].kind = "read" => GoodRead(op[q])'
                    /\ op'[q].at = "read" => op'[q].kind = "read"
  BY DEF Reading, At
<1>1. op'[q] = op[q]
  OBVIOUS
<1>2. op[q].at = "read" => op[q].kind = "read"
  BY DEF Reading, At
<1>3. CASE op[q].kind # "read"
  BY <1>1, <1>2, <1>3
<1>4. CASE op[q].kind = "read"
  <2>1. GoodRead(op[q])
    BY <1>4 DEF Reading
  <2>2. op[q].at \in Busy
    BY <2>1 DEF GoodRead, Busy
  <2>3. mu = q
    BY <2>2 DEF IInv, Locked
  <2>4. pdu'[transport'] = pdu[transport] /\ (connected'[transport'] => connected[transport])
    BY <2>3, NoneAssumption
  <2>5. GoodRead(op[q])'
    BY <1>1, <2>1, <2>4, ReadStays
  <2> QED
    BY <1>1, <1>2, <2>5
<1> QED
  BY <1>3, <1>4

\* The round trips of a read.
LEMMA ReadKeepsReading ==
  ASSUME ReadInv, NEW p \in Procs, ReadBatch(p) \/ ReadChunk(p)
  PROVE  Reading'
<1> DEFINE c == op[p]
           d == op'[p]
           size == pdu[transport]
<1>1. Exchanged(p) /\ c.at = "read" /\ d.at = "read"
  BY ReadBatchExchanges, ReadChunkExchanges DEF ReadInv, IInv, LinkInv
<1>2. /\ Locked' /\ UNCHANGED <<transport, pdu>> /\ d.kind = c.kind
      /\ \A q \in Procs : q # p => op'[q] = op[q]
  BY <1>1, ExchangeKeepsLock DEF ReadInv
<1>3. Falls /\ transport \in Links
  BY <1>1, <1>2, TrafficFalls DEF Exchanged, ReadInv, IInv, LinkInv, Shape
<1>4. /\ GoodRead(c) /\ c.kind = "read" /\ DOMAIN c = Fields /\ size \in PDUSizes /\ mu = p
      /\ Shape /\ Connected
  BY <1>1 DEF ReadInv, Reading, At, IInv, LinkInv, Shape, Locked, Busy
<1>5. Progress(c, size) /\ (c.broke => ~connected[transport])
  BY <1>1, <1>4 DEF GoodRead
<1>6. Progress(d, size) /\ (d.broke => c.broke \/ ~connected'[transport])
  <2>1. CASE ReadBatch(p)
    <3> DEFINE job == Head(c.jobs)
    <3>1. c.jobs # <<>> /\ (Len(job) > 1 \/ c.args[job[1]].size <= ReadPayload(size))
      BY <2>1 DEF ReadBatch
    <3>2. PICK answer : /\ Set(p, AfterBatch(c, answer))
                        /\ \/ answer = None /\ ~connected'[transport]
                           \/ answer \in BatchAnswers(c, size)
      BY <1>4, <2>1, BatchStep
    <3>3. d = AfterBatch(c, answer)
      BY <1>4, <3>2, SetOthers
    <3>4. answer = None \/ answer \in BatchAnswers(c, size)
      BY <3>2
    <3> HIDE DEF c, d, size
    <3>5. /\ Progress(AfterBatch(c, answer), size)
          /\ AfterBatch(c, answer).broke => c.broke \/ answer = None
          /\ None \notin BatchAnswers(c, size)
      BY <1>4, <1>5, <3>1, <3>4, BatchIsGood
    <3> QED
      BY <3>2, <3>3, <3>5
  <2>2. CASE ReadChunk(p)
    <3>1. c.jobs # <<>> /\ Len(Head(c.jobs)) = 1 /\ Long(c, size)
      BY <1>4, <2>2, AnswerStep
    <3>2. PICK answer : /\ Set(p, AfterAnswer(c, size, answer))
                        /\ \/ answer = None /\ ~connected'[transport]
                           \/ answer \in AnswersOf(c, size)
      BY <1>4, <2>2, AnswerStep
    <3>3. d = AfterAnswer(c, size, answer)
      BY <1>4, <3>2, SetOthers
    <3> HIDE DEF c, d, size
    <3>4. /\ Progress(d, size) /\ (d.broke => c.broke \/ answer = None)
          /\ None \notin AnswersOf(c, size)
      BY <1>4, <1>5, <3>1, <3>2, <3>3, ChunkIsGood
    <3> QED
      BY <3>2, <3>4
  <2> QED
    BY <2>1, <2>2
<1>7. GoodRead(op[p])'
  <2>1. d.broke => ~connected'[transport]
    BY <1>3, <1>5, <1>6 DEF Falls
  <2> QED
    BY <1>1, <1>2, <1>6, <2>1 DEF GoodRead
<1> QED
  BY <1>1, <1>2, <1>4, <1>7, OthersRead DEF ReadInv

\* What BeginRead takes a call to.
BegunRead(plan) ==
  [Idle EXCEPT !.at = "read", !.kind = "read", !.args = plan.addresses, !.jobs = plan.jobs,
               !.results = [i \in DOMAIN plan.addresses |->
                              IF plan.addresses[i] = BadAddress THEN Failed ELSE None]]

\* A read that begins has a result for each address that did not parse.
LEMMA BegunFields ==
  ASSUME NEW plan
  PROVE  LET c == BegunRead(plan)
         IN  /\ c.at = "read" /\ c.kind = "read" /\ c.args = plan.addresses /\ c.jobs = plan.jobs
             /\ c.results = [i \in DOMAIN plan.addresses |->
                               IF plan.addresses[i] = BadAddress THEN Failed ELSE None]
             /\ c.done = 0 /\ c.parts = <<>> /\ c.rounds = 0 /\ ~c.broke
<1> DEFINE results == [i \in DOMAIN plan.addresses |->
                         IF plan.addresses[i] = BadAddress THEN Failed ELSE None]
           c == [Idle EXCEPT !.at = "read", !.kind = "read", !.args = plan.addresses,
                             !.jobs = plan.jobs, !.results = results]
<1>1. BegunRead(plan) = c
  BY DEF BegunRead
<1> HIDE DEF results
<1>2. /\ c.at = "read" /\ c.kind = "read" /\ c.args = plan.addresses /\ c.jobs = plan.jobs
      /\ c.results = results /\ c.done = 0 /\ c.parts = <<>> /\ c.rounds = 0 /\ ~c.broke
  BY DEF Idle
<1> HIDE DEF c
<1> QED
  BY <1>1, <1>2 DEF results

\* The addresses and batches of a plan.
LEMMA PlanType ==
  ASSUME NEW plan \in Plans
  PROVE  /\ plan.size \in PDUSizes /\ plan.addresses \in Seq(ReadAddresses \cup {BadAddress})
         /\ plan.jobs \in Seq(Jobs(plan.addresses, plan.size))
         /\ Asked(plan.addresses) \subseteq InJobs(plan.jobs)
<1>1. PICK requests \in Reads, size \in PDUSizes : plan = Plan(requests, size)
  BY DEF Plans
<1> DEFINE addresses == [i \in 1..Len(requests) |-> ReadAddress(requests[i])]
           n == Len(requests)
<1>2. plan.size = size /\ plan.addresses = addresses /\ plan.jobs = Batches(addresses, size)
  BY <1>1 DEF Plan
<1>3. n \in Nat /\ \A i \in 1..n : requests[i].text \in Texts \cup {BadAddress}
  BY ReadsAssumption
<1>4. \A i \in 1..n : ReadAddress(requests[i]) \in ReadAddresses \cup {BadAddress}
  BY <1>3, ReadAddressType
<1>5. /\ DOMAIN addresses = 1..n /\ Len(addresses) = n
      /\ \A i \in 1..n : addresses[i] = ReadAddress(requests[i])
      /\ addresses \in Seq(ReadAddresses \cup {BadAddress})
  <2> HIDE DEF n
  <2>1. addresses = [i \in 1..n |-> ReadAddress(requests[i])]
    BY DEF n
  <2> HIDE DEF addresses
  <2> QED
    BY <1>3, <1>4, <2>1
<1> HIDE DEF addresses, n
<1>6. Room(size) \in Nat
  BY Payloads
<1>7. \A i \in 1..n : addresses[i] # BadAddress => addresses[i].size \in Nat
  <2>1. \A a \in ReadAddresses : a.size \in Nat
    BY DEF ReadAddresses, Addresses
  <2> QED
    BY <1>4, <1>5, <2>1
<1>8. /\ Batches(addresses, size) \in Seq(Jobs(addresses, size))
      /\ Asked(addresses) \subseteq InJobs(Batches(addresses, size))
  BY <1>3, <1>5, <1>6, <1>7, BatchesType
<1> QED
  BY <1>2, <1>5, <1>8

\* The beginning of a read, and its end.
LEMMA BeginReadKeepsReading ==
  ASSUME ReadInv, NEW p \in Procs, BeginRead(p)
  PROVE  Reading'
<1>1. PICK plan \in Plans : plan.size = pdu[transport] /\ Set(p, BegunRead(plan))
  BY DEF BeginRead, BegunRead
<1> DEFINE c == BegunRead(plan)
           size == pdu[transport]
           args == plan.addresses
<1>2. /\ op'[p] = c /\ \A q \in Procs : q # p => op'[q] = op[q]
  BY <1>1, SetOthers DEF ReadInv, IInv, LinkInv
<1>3. mu = None /\ UNCHANGED <<transport, connected, pdu>>
  BY DEF BeginRead, Lock
<1>4. /\ size \in PDUSizes /\ args \in Seq(ReadAddresses \cup {BadAddress})
      /\ plan.jobs \in Seq(Jobs(args, size)) /\ Asked(args) \subseteq InJobs(plan.jobs)
  BY <1>1, PlanType
<1>5. /\ c.at = "read" /\ c.kind = "read" /\ c.args = args /\ c.jobs = plan.jobs
      /\ c.results = [i \in DOMAIN args |-> IF args[i] = BadAddress THEN Failed ELSE None]
      /\ c.done = 0 /\ c.parts = <<>> /\ c.rounds = 0 /\ ~c.broke
  BY BegunFields
<1> HIDE DEF c, size, args
<1>6. ASSUME NEW i \in DOMAIN args
      PROVE  \/ c.results[i] = None /\ i \in InJobs(c.jobs)
             \/ Exact(args[i], c.results[i], size)
  <2>1. CASE args[i] = BadAddress
    <3>1. c.results[i] = Failed
      BY <1>5, <2>1
    <3> QED
      BY <3>1, NoneIsNoResult DEF Exact, Failed
  <2>2. CASE args[i] # BadAddress
    <3>1. c.results[i] = None /\ i \in Asked(args)
      BY <1>5, <2>2 DEF Asked
    <3> QED
      BY <1>4, <1>5, <3>1
  <2> QED
    BY <2>1, <2>2
<1>7. DOMAIN c.results = DOMAIN args /\ <<>> \in Seq(Stretches)
  BY <1>5
<1>8. Progress(c, size)
  BY <1>4, <1>5, <1>6, <1>7 DEF Progress
<1>9. GoodRead(op[p])'
  BY <1>2, <1>3, <1>5, <1>8 DEF GoodRead, size
<1> QED
  BY <1>2, <1>3, <1>5, <1>9, OthersRead DEF ReadInv

LEMMA EndReadKeepsReading ==
  ASSUME ReadInv, NEW p \in Procs, EndRead(p)
  PROVE  Reading'
<1> DEFINE c == op[p]
           d == [c EXCEPT !.at = "done", !.failed = ~connected[transport]]
<1>1. /\ Set(p, d) /\ c.at = "read" /\ c.jobs = <<>>
      /\ UNCHANGED <<transport, connected, pdu, mu>>
  BY DEF EndRead, At
<1>2. GoodRead(c) /\ c.kind = "read" /\ DOMAIN c = Fields
  BY <1>1 DEF ReadInv, Reading, At, IInv, LinkInv, Shape
<1>3. /\ d.at = "done" /\ d.kind = "read" /\ d.failed = ~connected[transport]
      /\ d.args = c.args /\ d.jobs = c.jobs /\ d.results = c.results /\ d.done = c.done
      /\ d.rounds = c.rounds /\ d.parts = c.parts /\ d.broke = c.broke
  BY <1>2 DEF Fields
<1>4. /\ op'[p] = d /\ \A q \in Procs : q # p => op'[q] = op[q]
  BY <1>1, SetOthers DEF ReadInv, IInv, LinkInv
<1> HIDE DEF c, d
<1>5. Progress(d, pdu[transport])
  <2>1. Progress(c, pdu[transport])
    BY <1>2 DEF GoodRead
  <2> QED
    BY <1>3, <2>1 DEF Progress, Chunked
<1>6. d.broke => d.failed
  BY <1>1, <1>2, <1>3 DEF GoodRead
<1>7. GoodRead(op[p])'
  BY <1>1, <1>3, <1>4, <1>5, <1>6 DEF GoodRead
<1> QED
  BY <1>1, <1>3, <1>4, <1>7, OthersRead DEF ReadInv

\* A step of a goroutine that is in no read.
LEMMA OtherKeepsReading ==
  ASSUME ReadInv, NEW p \in Procs, \A q \in Procs : q # p => op'[q] = op[q],
         \/ mu \in {None, p}
         \/ /\ pdu'[transport'] = pdu[transport]
            /\ connected'[transport'] => connected[transport],
         op'[p].kind # "read", op'[p].at # "read"
  PROVE  Reading'
  BY OthersRead DEF ReadInv

\* A step of a write.
LEMMA WriteKeepsReading ==
  ASSUME ReadInv, IInv', NEW p \in Procs, BeginWrite(p) \/ ReadHeader(p) \/ Write(p)
  PROVE  Reading'
<1>1. op'[p].kind = "write" /\ mu \in {None, p} /\ \E c : Set(p, c)
  <2>1. CASE BeginWrite(p)
    <3>1. \E w \in Writes : op'[p] = Begun(w)
      BY <2>1, BeginWriteKeepsLinks DEF ReadInv, IInv
    <3> QED
      BY <2>1, <3>1, BegunIsGood DEF BeginWrite, Lock
  <2>2. CASE ReadHeader(p) \/ Write(p)
    <3>1. Exchanged(p) /\ (At(p, "header") \/ At(p, "write"))
      BY <2>2, HeaderExchanges, WriteExchanges DEF ReadInv, IInv, LinkInv, ReadHeader, Write
    <3>2. op'[p].kind = op[p].kind
      BY <3>1, ExchangeKeepsLock DEF ReadInv
    <3>3. op[p].kind = "write" /\ mu = p
      BY <3>1 DEF ReadInv, IInv, Writing, Locked, Busy, At
    <3> QED
      BY <3>1, <3>2, <3>3 DEF Exchanged, Turn
  <2> QED
    BY <2>1, <2>2
<1>2. op'[p].at # "read"
  BY <1>1 DEF IInv, Writing, GoodWrite
<1>3. \A q \in Procs : q # p => op'[q] = op[q]
  BY <1>1, SetOthers DEF ReadInv, IInv, LinkInv
<1> QED
  BY <1>1, <1>2, <1>3, OtherKeepsReading

\* The steps that replace the transport: no read is under way.
LEMMA ConnectionKeepsReading ==
  ASSUME ReadInv, NEW p \in Procs,
         Return(p) \/ DialFails(p) \/ Install(p) \/ Dial(p) \/ Reconnect(p)
  PROVE  Reading'
<1>1. \E c : Set(p, c)
  BY DEF Return, DialFails, Install, Dial, Reconnect
<1>2. \A q \in Procs : q # p => op'[q] = op[q]
  BY <1>1, SetOthers DEF ReadInv, IInv, LinkInv
<1>3. op'[p].kind # "read" /\ op'[p].at # "read"
  <2>1. CASE Return(p) \/ DialFails(p) \/ Install(p)
    <3>1. Set(p, Idle)
      BY <2>1 DEF Return, DialFails, Install
    <3>2. op'[p] = Idle
      BY <3>1, SetOthers DEF ReadInv, IInv, LinkInv
    <3> QED
      BY <3>2, IdleFields
  <2>2. CASE Reconnect(p)
    BY <2>2, ReconnectKeepsLinks DEF ReadInv, IInv
  <2>3. CASE Dial(p)
    <3>1. op'[p].at = "install" /\ op'[p].kind = op[p].kind
      BY <2>3, DialKeepsLinks DEF ReadInv, IInv
    <3>2. op[p].kind # "read"
      BY <2>3 DEF Dial, At, ReadInv, Reading, GoodRead
    <3> QED
      BY <3>1, <3>2
  <2> QED
    BY <2>1, <2>2, <2>3
<1>4. \/ mu \in {None, p}
      \/ /\ pdu'[transport'] = pdu[transport]
         /\ connected'[transport'] => connected[transport]
  <2>1. CASE Return(p) \/ DialFails(p)
    BY <2>1 DEF Return, DialFails
  <2>2. CASE Install(p) \/ Reconnect(p)
    BY <2>2 DEF Install, Reconnect
  <2>3. CASE Dial(p)
    <3>1. pdu'[transport] = pdu[transport] /\ transport' = transport
      BY <2>3, DialKeepsLinks DEF ReadInv, IInv, Dial
    <3>2. PICK k \in Links : link[k] = "unused" /\ connected' = [connected EXCEPT ![k] = TRUE]
      BY <2>3 DEF Dial
    <3>3. k # transport
      BY <3>2 DEF ReadInv, IInv, LinkInv, Connected
    <3>4. connected'[transport] = connected[transport]
      BY <3>2, <3>3 DEF ReadInv, IInv, LinkInv, Shape
    <3> QED
      BY <3>1, <3>4
  <2> QED
    BY <2>1, <2>2, <2>3
<1> QED
  BY <1>2, <1>3, <1>4, OtherKeepsReading

\* Steps that change no call.
LEMMA CallsReadOn ==
  ASSUME ReadInv, op' = op,
         \/ mu = None
         \/ /\ pdu'[transport'] = pdu[transport]
            /\ connected'[transport'] => connected[transport]
  PROVE  Reading'
<1> SUFFICES ASSUME NEW q \in Procs
             PROVE  /\ op'[q].kind = "read" => GoodRead(op[q])'
                    /\ op'[q].at = "read" => op'[q].kind = "read"
  BY DEF Reading, At
<1>1. /\ op[q].at = "read" => op[q].kind = "read"
      /\ op[q].kind = "read" => GoodRead(op[q])
  BY DEF ReadInv, Reading, At
<1>2. ASSUME op[q].kind = "read"
      PROVE  GoodRead(op[q])'
  <2>1. mu = q
    BY <1>1, <1>2 DEF GoodRead, Busy, ReadInv, IInv, Locked
  <2>2. pdu'[transport'] = pdu[transport] /\ (connected'[transport'] => connected[transport])
    BY <2>1, NoneAssumption
  <2> QED
    BY <1>1, <1>2, <2>2, ReadStays
<1> QED
  BY <1>1, <1>2

\* The initial states and the steps.
LEMMA InitReads == Init => ReadInv
<1> SUFFICES ASSUME Init
             PROVE  Reading
  BY InitInv DEF ReadInv
<1> QED
  BY IdleFields DEF Init, Reading, At

LEMMA NextReads == ReadInv /\ [Next]_vars => ReadInv'
<1> SUFFICES ASSUME ReadInv, [Next]_vars
             PROVE  ReadInv'
  OBVIOUS
<1>1. IInv'
  BY NextInv DEF ReadInv
<1>2. ASSUME NEW p \in Procs, BeginRead(p) \/ BeginWrite(p)
      PROVE  Reading'
  BY <1>1, <1>2, BeginReadKeepsReading, WriteKeepsReading
<1>3. ASSUME NEW p \in Procs, Step(p)
      PROVE  Reading'
  BY <1>1, <1>3, ReadKeepsReading, EndReadKeepsReading, WriteKeepsReading, ConnectionKeepsReading
     DEF Step
<1>4. ASSUME NEW p \in Procs, Close(p) \/ SetDisconnected(p)
      PROVE  Reading'
  BY <1>4, CallsReadOn DEF Close, SetDisconnected
<1>5. ASSUME NEW p \in Procs, Reconnect(p)
      PROVE  Reading'
  BY <1>5, ConnectionKeepsReading
<1>6. ASSUME NEW k \in Links, Break(k)
      PROVE  Reading'
  BY <1>6, CallsReadOn DEF Break
<1>7. ASSUME UNCHANGED vars
      PROVE  Reading'
  <2>1. /\ op' = op /\ pdu'[transport'] = pdu[transport]
        /\ connected'[transport'] => connected[transport]
    BY <1>7 DEF vars
  <2> QED
    BY <2>1, CallsReadOn
<1> QED
  BY <1>1, <1>2, <1>3, <1>4, <1>5, <1>6, <1>7 DEF Next, ReadInv

\* The inductive invariant of the reads: every result that is there is an error or just the first
\* bytes of what its address asks for, and every result that is missing is one that a batch still
\* to be sent will bring; a chunked read has the bytes up to where it is.
THEOREM ReadInvariant == Spec => []ReadInv
<1>1. ReadInv /\ [Next]_vars => ReadInv'
  BY NextReads
<1> QED
  BY InitReads, <1>1, PTL DEF Spec

\* What a read that has ended has to show.
LEMMA ReadExact ==
  ASSUME NEW c, GoodRead(c), c.at = "done", NEW i \in DOMAIN c.args
  PROVE  /\ c.results[i] # None
         /\ c.results[i].ok /\ Addressable(c.args[i], c.args[i].size) =>
              /\ SameStart(c.results[i].parts, Wanted(c.args[i]))
              /\ c.results[i].parts[1].len <= c.args[i].size
              /\ c.args[i].size > ReadPayload(pdu[transport]) =>
                   c.results[i].parts[1].len = c.args[i].size
<1> DEFINE a == c.args[i]
           r == c.results[i]
           size == pdu[transport]
           v == Wanted(a)
<1>1. Progress(c, size) /\ c.jobs = <<>>
  BY DEF GoodRead
<1>2. InJobs(c.jobs) = {}
  BY <1>1 DEF InJobs
<1>3. Exact(a, r, size)
  BY <1>1, <1>2 DEF Progress
<1>4. r # None
  BY <1>3, NoneIsNoResult DEF Exact
<1>5. ASSUME r.ok, Addressable(a, a.size)
      PROVE  /\ SameStart(r.parts, v) /\ r.parts[1].len <= a.size
             /\ a.size > ReadPayload(size) => r.parts[1].len = a.size
  <2>1. a \in ReadAddresses \cup {BadAddress} /\ a # BadAddress
    BY <1>1, <1>3, <1>5 DEF Progress, Exact
  <2>2. a.size \in Nat
    BY <2>1 DEF ReadAddresses, Addresses
  <2> HIDE DEF a, r, size
  <2>3. PICK m \in 0..a.size : /\ r.parts = <<[v EXCEPT !.len = m]>>
                               /\ a.size > ReadPayload(size) => m = a.size
    BY <1>3, <1>5 DEF Exact
  <2>4. v = Stretch(a.area, IF a.area = "DB" THEN a.db ELSE 0, a.off, a.size)
    BY DEF Wanted
  <2>5. [v EXCEPT !.len = m].len = m /\ [[v EXCEPT !.len = m] EXCEPT !.len = v.len] = v
    BY <2>4 DEF Stretch
  <2> HIDE DEF v
  <2>6. Len(r.parts) = 1 /\ r.parts[1] = [v EXCEPT !.len = m]
    BY <2>3
  <2>7. SameStart(r.parts, v)
    BY <2>5, <2>6 DEF SameStart
  <2>8. r.parts[1].len = m
    BY <2>5, <2>6
  <2>9. r.parts[1].len <= a.size
    BY <2>2, <2>3, <2>8
  <2> QED
    BY <2>3, <2>7, <2>8, <2>9
<1> QED
  BY <1>4, <1>5

\* The property follows from the invariant.
LEMMA ReadsOfInv == ReadInv => ReadsExact
<1> SUFFICES ASSUME ReadInv
             PROVE  ReadsExact
  OBVIOUS
<1>1. ASSUME NEW p \in Procs, op[p].at = "done", op[p].kind = "read"
      PROVE  GoodRead(op[p]) /\ (op[p].broke => op[p].failed)
  BY <1>1 DEF ReadInv, Reading, GoodRead
<1> QED
  BY <1>1, ReadExact DEF ReadsExact

\* However a read is cut into batches and chunks, and whatever the PLC answers: an address's
\* result is there, and one without an error holds that address's own bytes, in order and without
\* a gap; all of them in a chunked read; and a read that met a broken link says so beside the
\* results (s7/client.go, ReadWithTypes, readBatch, readAddress).
THEOREM ReadsStayExact == Spec => []ReadsExact
  BY ReadInvariant, ReadsOfInv, PTL

-----------------------------------------------------------------------------
(* The requests a read may still make *)

\* What a job may take, for the addresses of its call; and what jobs take, from base on.
Needs(args, job, most) ==
  IF Len(job) = 1 /\ args[job[1]].size > most THEN args[job[1]].size \div most + 10 ELSE 1

Total(args, jobs, most, base) ==
  FoldLeft(LAMBDA sum, job : sum + Needs(args, job, most), base, jobs)

\* The partial sums of a total.
Totals(P, args, jobs, most, base) ==
  /\ P \in [0..Len(jobs) -> Int] /\ P[0] = base
  /\ \A k \in 1..Len(jobs) : P[k] = P[k - 1] + Needs(args, jobs[k], most)

\* A total is the last of its partial sums.
LEMMA TotalIs ==
  ASSUME NEW args, NEW most, NEW J, NEW jobs \in Seq(J), \A job \in J : Needs(args, job, most) \in Nat,
         NEW base \in Int
  PROVE  \E P : Totals(P, args, jobs, most, base) /\ Total(args, jobs, most, base) = P[Len(jobs)]
<1> DEFINE n == Len(jobs)
           g == [i \in 1..n |-> Needs(args, jobs[i], most)]
<1>1. n \in Nat /\ DOMAIN jobs = 1..n /\ \A i \in 1..n : Needs(args, jobs[i], most) \in Nat
  BY DEF n
<1>2. g \in [1..n -> Int] /\ \A i \in 1..n : g[i] = Needs(args, jobs[i], most)
  BY <1>1
<1>3. Total(args, jobs, most, base) = RunningSum(n, base, g)[1..n]
  <2> DEFINE G == CHOOSE f : f = [s \in SUBSET DOMAIN jobs |->
                     IF s = {} THEN base
                     ELSE f[s \ {Max(s)}] + Needs(args, jobs[Max(s)], most)]
  <2>1. Total(args, jobs, most, base) = G[DOMAIN jobs]
    BY DEF Total, FoldLeft, MapThenFoldSet
  <2>2. \A s \in SUBSET (1..n) : s # {} => Needs(args, jobs[Max(s)], most) = g[Max(s)]
    <3>1. \A s \in SUBSET (1..n) : s # {} => Max(s) \in 1..n
      BY <1>1, MaxOf
    <3> QED
      BY <1>2, <3>1
  <2> HIDE DEF g
  <2>3. \A f : SumsUp(f, n, base, g)
               <=> f = [s \in SUBSET DOMAIN jobs |->
                     IF s = {} THEN base
                     ELSE f[s \ {Max(s)}] + Needs(args, jobs[Max(s)], most)]
    BY <1>1, <2>2 DEF SumsUp
  <2>4. RunningSum(n, base, g) = G
    BY <2>3 DEF RunningSum
  <2> HIDE DEF G
  <2> QED
    BY <1>1, <2>1, <2>4
<1> HIDE DEF g, n
<1>4. PICK F : /\ F = RunningSum(n, base, g)
               /\ F[1..0] = base
               /\ \A k \in 0..n : F[1..k] \in Int
               /\ \A k \in 1..n : F[1..k] = F[1..(k - 1)] + g[k]
  <2>1. n \in Nat
    BY <1>1
  <2>2. g \in [1..n -> Int]
    BY <1>2
  <2> QED
    BY <2>1, <2>2, SumFold
<1> DEFINE P == [k \in 0..n |-> F[1..k]]
<1>5. P \in [0..n -> Int] /\ P[0] = base /\ P[n] = F[1..n]
  BY <1>1, <1>4
<1>6. \A k \in 1..n : P[k] = P[k - 1] + Needs(args, jobs[k], most)
  <2> SUFFICES ASSUME NEW k \in 1..n PROVE P[k] = P[k - 1] + Needs(args, jobs[k], most)
    OBVIOUS
  <2>1. k \in 0..n /\ k - 1 \in 0..n
    BY <1>1
  <2> QED
    BY <1>2, <1>4, <2>1
<1> HIDE DEF P
<1>7. Totals(P, args, jobs, most, base)
  BY <1>5, <1>6 DEF Totals, n
<1>8. Total(args, jobs, most, base) = P[Len(jobs)]
  BY <1>3, <1>4, <1>5 DEF n
<1> QED
  BY <1>7, <1>8

\* The sum of what is left falls apart into the job at the head and the others.
LEMMA TotalOfTail ==
  ASSUME NEW args, NEW most, NEW J, NEW jobs \in Seq(J), jobs # <<>>,
         \A job \in J : Needs(args, job, most) \in Nat, NEW base \in Int
  PROVE  /\ Total(args, jobs, most, base)
              = base + Needs(args, Head(jobs), most) + Total(args, Tail(jobs), most, 0)
         /\ Total(args, Tail(jobs), most, 0) \in Nat
<1> DEFINE n == Len(jobs)
           m == Len(Tail(jobs))
<1>1. PICK P : Totals(P, args, jobs, most, base) /\ Total(args, jobs, most, base) = P[Len(jobs)]
  BY TotalIs
<1>2. Tail(jobs) \in Seq(J)
  OBVIOUS
<1>3. PICK Q : /\ Totals(Q, args, Tail(jobs), most, 0)
               /\ Total(args, Tail(jobs), most, 0) = Q[Len(Tail(jobs))]
  <2> DEFINE rest == Tail(jobs)
             none == 0
  <2>1. rest \in Seq(J) /\ none \in Int
    BY <1>2
  <2> HIDE DEF rest, none
  <2>2. \E Q : Totals(Q, args, rest, most, none) /\ Total(args, rest, most, none) = Q[Len(rest)]
    BY <2>1, TotalIs
  <2> QED
    BY <2>2 DEF rest, none
<1>4. /\ n \in Nat \ {0} /\ m = n - 1 /\ m \in Nat /\ Tail(jobs) \in Seq(J) /\ Head(jobs) = jobs[1]
      /\ \A k \in 1..m : Tail(jobs)[k] = jobs[k + 1]
  OBVIOUS
<1>5. Totals(P, args, jobs, most, base) /\ Total(args, jobs, most, base) = P[n]
  BY <1>1
<1>6. Totals(Q, args, Tail(jobs), most, 0) /\ Total(args, Tail(jobs), most, 0) = Q[m]
  BY <1>3
<1>7. /\ P \in [0..n -> Int] /\ P[0] = base
      /\ \A k \in 1..n : P[k] = P[k - 1] + Needs(args, jobs[k], most)
      /\ Q \in [0..m -> Int] /\ Q[0] = 0
      /\ \A k \in 1..m : Q[k] = Q[k - 1] + Needs(args, jobs[k + 1], most)
      /\ \A k \in 1..n : Needs(args, jobs[k], most) \in Nat
  <2>1. \A k \in 1..n : jobs[k] \in J
    OBVIOUS
  <2> QED
    BY <1>4, <1>5, <1>6, <2>1 DEF Totals
<1> HIDE DEF n, m
<1> DEFINE S == {k \in 0..m : P[k + 1] = P[1] + Q[k] /\ Q[k] \in Nat}
<1>8. 0 \in S
  BY <1>4, <1>7
<1>9. ASSUME NEW k \in 1..m, k - 1 \in S
      PROVE  k \in S
  <2>1. k \in 1..n /\ k + 1 \in 1..n /\ (k + 1) - 1 = k /\ (k - 1) + 1 = k
    BY <1>4
  <2>2. P[k] = P[1] + Q[k - 1] /\ Q[k - 1] \in Nat
    BY <1>9, <2>1
  <2>3. P[k + 1] = P[k] + Needs(args, jobs[k + 1], most) /\ Needs(args, jobs[k + 1], most) \in Nat
    BY <1>7, <2>1
  <2>4. Q[k] = Q[k - 1] + Needs(args, jobs[k + 1], most)
    BY <1>7
  <2>5. P[1] \in Int
    BY <1>4, <1>7
  <2> QED
    BY <2>2, <2>3, <2>4, <2>5
<1>10. m \in S
  <2> HIDE DEF S
  <2>1. \A k \in 1..m : k - 1 \in S => k \in S
    BY <1>9
  <2>2. \A k \in 0..m : k \in S
    BY <1>4, <1>8, <2>1, PrefixInduction
  <2> QED
    BY <1>4, <2>2
<1>11. P[n] = P[1] + Q[m] /\ Q[m] \in Nat
  BY <1>4, <1>10
<1>12. P[1] = base + Needs(args, jobs[1], most) /\ P[1] \in Int
  BY <1>4, <1>7
<1> QED
  BY <1>4, <1>5, <1>6, <1>11, <1>12 DEF n, m

\* A job takes one request at least.
LEMMA NeedsOne ==
  ASSUME NEW size \in PDUSizes, NEW args \in Seq(ReadAddresses \cup {BadAddress}),
         NEW job \in Jobs(args, size)
  PROVE  /\ Needs(args, job, ReadPayload(size)) \in Nat
         /\ Needs(args, job, ReadPayload(size)) >= 1
<1> DEFINE most == ReadPayload(size)
           a == args[job[1]]
<1>1. most \in Nat /\ 20 <= most
  BY Payloads
<1>2. a \in ReadAddresses
  BY JobAddresses
<1>3. a.size \in Nat
  BY <1>2 DEF ReadAddresses, Addresses
<1>4. Needs(args, job, most) = IF Len(job) = 1 /\ a.size > most THEN a.size \div most + 10 ELSE 1
  BY DEF Needs
<1> HIDE DEF most, a
<1>5. a.size \div most \in Nat
  BY <1>1, <1>3
<1> QED
  BY <1>4, <1>5 DEF most

\* What a read may still ask for, as a total.
LEMMA ReadLeft ==
  ASSUME NEW c, c.at = "read"
  PROVE  RequestsLeft(c) = Total(c.args, c.jobs, ReadPayload(pdu[transport]), 0 - c.rounds)
  BY DEF RequestsLeft, Requests, Total, Needs

\* A request takes one off what is left, when it ends the job at the head or is one of its rounds.
LEMMA LeftFalls ==
  ASSUME NEW c, c.at = "read", NEW d, d.at = "read", d.args = c.args,
         NEW size, size = pdu[transport], size \in PDUSizes,
         Progress(c, size), c.jobs # <<>>,
         c.rounds < Needs(c.args, Head(c.jobs), ReadPayload(size)),
         \/ d.jobs = Tail(c.jobs) /\ d.rounds = 0
         \/ /\ d.jobs = c.jobs /\ d.rounds = c.rounds + 1
            /\ d.rounds < Needs(c.args, Head(c.jobs), ReadPayload(size))
  PROVE  RequestsLeft(d) < RequestsLeft(c) /\ RequestsLeft(d) >= 0
<1> DEFINE args == c.args
           jobs == c.jobs
           most == ReadPayload(size)
           J == Jobs(args, size)
           r == c.rounds
           need == Needs(args, Head(jobs), most)
           rest == Total(args, Tail(jobs), most, 0)
<1>1. args \in Seq(ReadAddresses \cup {BadAddress}) /\ jobs \in Seq(J) /\ r \in Nat /\ jobs # <<>>
  BY DEF Progress
<1>2. \A job \in J : Needs(args, job, most) \in Nat
  BY <1>1, NeedsOne
<1>3. need \in Nat
  BY <1>1, <1>2, JobFields
<1>4. ASSUME NEW base \in Int
      PROVE  Total(args, jobs, most, base) = base + need + rest /\ rest \in Nat
  <2> HIDE DEF args, jobs, most, J
  <2> QED
    BY <1>1, <1>2, TotalOfTail DEF need, rest
<1>5. RequestsLeft(c) = Total(args, jobs, most, 0 - r)
  BY ReadLeft
<1>6. RequestsLeft(d) = Total(args, d.jobs, most, 0 - d.rounds)
  BY ReadLeft
<1>7. r < need
  OBVIOUS
<1>8. \/ d.jobs = Tail(jobs) /\ d.rounds = 0
      \/ d.jobs = jobs /\ d.rounds = r + 1 /\ r + 1 < need
  OBVIOUS
<1> HIDE DEF args, jobs, most, J, r, need, rest
<1>9. RequestsLeft(c) = (0 - r) + need + rest /\ rest \in Nat
  <2>1. 0 - r \in Int
    BY <1>1
  <2> QED
    BY <1>4, <1>5, <2>1
<1>10. CASE d.jobs = Tail(jobs) /\ d.rounds = 0
  <2>1. 0 - 0 = 0
    OBVIOUS
  <2>2. RequestsLeft(d) = rest
    BY <1>6, <1>10, <2>1 DEF rest
  <2> QED
    BY <1>1, <1>3, <1>7, <1>9, <2>2
<1>11. CASE d.jobs = jobs /\ d.rounds = r + 1 /\ r + 1 < need
  <2>1. 0 - (r + 1) \in Int
    BY <1>1
  <2>2. RequestsLeft(d) = (0 - (r + 1)) + need + rest
    BY <1>4, <1>6, <1>11, <2>1
  <2> QED
    BY <1>1, <1>3, <1>9, <1>11, <2>2
<1> QED
  BY <1>8, <1>10, <1>11

\* A batch takes one request, a chunk another.
LEMMA BatchTakesOne ==
  ASSUME ReadInv, NEW p \in Procs, ReadBatch(p)
  PROVE  RequestsLeft(op'[p]) < RequestsLeft(op[p]) /\ RequestsLeft(op'[p]) >= 0
<1> DEFINE c == op[p]
           d == op'[p]
           size == pdu[transport]
           job == Head(c.jobs)
<1>1. /\ c.at = "read" /\ c.jobs # <<>>
      /\ (Len(job) > 1 \/ c.args[job[1]].size <= ReadPayload(size))
  BY DEF ReadBatch, At
<1>2. /\ GoodRead(c) /\ DOMAIN c = Fields /\ size \in PDUSizes /\ Shape /\ Connected
  BY <1>1 DEF ReadInv, Reading, At, IInv, LinkInv, Shape
<1>3. Progress(c, size)
  BY <1>2 DEF GoodRead
<1>4. PICK answer : Set(p, AfterBatch(c, answer))
  BY <1>2, BatchStep
<1>5. d = AfterBatch(c, answer)
  BY <1>2, <1>4, SetOthers
<1>6. /\ d.at = "read" /\ d.args = c.args /\ d.jobs = Tail(c.jobs) /\ d.rounds = 0
  <2> DEFINE e == NextJob(c, BatchResults(c, answer))
  <2> HIDE DEF c, d
  <2>1. /\ DOMAIN e = Fields /\ e.at = c.at /\ e.args = c.args
        /\ e.jobs = Tail(c.jobs) /\ e.rounds = 0
    BY <1>2, NextJobParts
  <2>2. d = [e EXCEPT !.broke = @ \/ answer = None]
    BY <1>5 DEF AfterBatch
  <2> HIDE DEF e
  <2> QED
    BY <1>1, <2>1, <2>2 DEF Fields
<1>7. c.rounds = 0
  <2>1. c.done \in Nat /\ (c.done = 0 => c.rounds = 0) /\ (c.done > 0 => Chunked(c, size))
    BY <1>3 DEF Progress
  <2>2. Head(c.jobs) \in Jobs(c.args, size) /\ c.args \in Seq(ReadAddresses \cup {BadAddress})
    BY <1>1, <1>3, JobFields DEF Progress
  <2>3. c.args[job[1]].size \in Nat
    <3>1. c.args[job[1]] \in ReadAddresses
      BY <2>2, JobAddresses
    <3> QED
      BY <3>1 DEF ReadAddresses, Addresses
  <2>4. ReadPayload(size) \in Nat
    BY <1>2, Payloads
  <2>5. ~Chunked(c, size)
    <3> SUFFICES ASSUME Chunked(c, size)
                 PROVE  FALSE
      OBVIOUS
    <3>1. Len(job) = 1 /\ c.args[job[1]].size > ReadPayload(size)
      BY DEF Chunked
    <3> HIDE DEF job
    <3> QED
      BY <1>1, <2>3, <2>4, <3>1
  <2> QED
    BY <2>1, <2>5
<1>8. Needs(c.args, Head(c.jobs), ReadPayload(size)) \in Nat
      /\ Needs(c.args, Head(c.jobs), ReadPayload(size)) >= 1
  BY <1>1, <1>2, <1>3, JobFields, NeedsOne DEF Progress
<1>9. c.rounds < Needs(c.args, Head(c.jobs), ReadPayload(size))
  BY <1>7, <1>8
<1> HIDE DEF c, d, job
<1> QED
  BY <1>1, <1>2, <1>3, <1>6, <1>9, LeftFalls DEF c, d

\* Where a chunk's answer takes a read: to the next job, or on to the next chunk.
LEMMA AfterAnswerShape ==
  ASSUME NEW c, DOMAIN c = Fields, NEW size, NEW answer
  PROVE  LET d == AfterAnswer(c, size, answer)
             size2 == c.args[Head(c.jobs)[1]].size
         IN  /\ d.at = c.at /\ d.args = c.args
             /\ \/ d.jobs = Tail(c.jobs) /\ d.rounds = 0
                \/ /\ d.jobs = c.jobs /\ d.rounds = c.rounds + 1
                   /\ ~(d.rounds >= size2 \div ReadPayload(size) + 10)
<1> DEFINE i == Head(c.jobs)[1]
           a == c.args[i]
           n == ChunkSize(a, c, size)
           s == answer[1].bytes
           most == ReadPayload(size)
           d == AfterAnswer(c, size, answer)
           fail == NextJob(c, WithResult(c, i, Failed))
           f == Further(c, s, n)
<1>1. d = IF answer = None THEN [fail EXCEPT !.broke = TRUE]
          ELSE IF answer = Refused \/ ~answer[1].ok \/ s.len = 0 THEN fail
          ELSE IF f.done >= a.size THEN NextJob(c, WithResult(c, i, Success(f.parts)))
          ELSE IF f.rounds >= a.size \div most + 10 THEN fail
          ELSE f
  BY DEF AfterAnswer, AfterChunk, Further, WithResult
<1>2. \A r : LET e == NextJob(c, WithResult(c, i, r))
             IN  /\ DOMAIN e = Fields /\ e.at = c.at /\ e.args = c.args
                 /\ e.jobs = Tail(c.jobs) /\ e.rounds = 0
  BY NextJobParts
<1>3. f.at = c.at /\ f.args = c.args /\ f.jobs = c.jobs /\ f.rounds = c.rounds + 1
  BY FurtherFields
<1> HIDE DEF n, s, most, f, fail, d
<1>4. CASE answer = None
  <2>1. DOMAIN fail = Fields /\ fail.at = c.at /\ fail.args = c.args
        /\ fail.jobs = Tail(c.jobs) /\ fail.rounds = 0
    BY <1>2 DEF fail
  <2>2. d = [fail EXCEPT !.broke = TRUE]
    BY <1>1, <1>4
  <2>3. d.at = c.at /\ d.args = c.args /\ d.jobs = Tail(c.jobs) /\ d.rounds = 0
    BY <2>1, <2>2 DEF Fields
  <2> QED
    BY <2>3 DEF d
<1>5. CASE \E r : d = NextJob(c, WithResult(c, i, r))
  BY <1>2, <1>5 DEF d
<1>6. CASE d = f /\ ~(f.rounds >= a.size \div most + 10)
  BY <1>3, <1>6 DEF d, most
<1>7. \/ answer = None
      \/ \E r : d = NextJob(c, WithResult(c, i, r))
      \/ d = f /\ ~(f.rounds >= a.size \div most + 10)
  <2>1. fail = NextJob(c, WithResult(c, i, Failed))
    BY DEF fail
  <2> HIDE DEF i, a
  <2> QED
    BY <1>1, <2>1
<1> QED
  BY <1>4, <1>5, <1>6, <1>7

LEMMA ChunkTakesOne ==
  ASSUME ReadInv, NEW p \in Procs, ReadChunk(p)
  PROVE  RequestsLeft(op'[p]) < RequestsLeft(op[p]) /\ RequestsLeft(op'[p]) >= 0
<1> DEFINE c == op[p]
           d == op'[p]
           size == pdu[transport]
           job == Head(c.jobs)
           most == ReadPayload(size)
           bytes == c.args[Head(c.jobs)[1]].size
<1>1. c.at = "read"
  BY DEF ReadChunk, At
<1>2. /\ GoodRead(c) /\ DOMAIN c = Fields /\ size \in PDUSizes /\ Shape /\ Connected
  BY <1>1 DEF ReadInv, Reading, At, IInv, LinkInv, Shape
<1>3. Progress(c, size)
  BY <1>2 DEF GoodRead
<1>4. c.jobs # <<>> /\ Len(job) = 1 /\ Long(c, size) /\ \E answer : Set(p, AfterAnswer(c, size, answer))
  BY <1>2, AnswerStep
<1>5. PICK answer : d = AfterAnswer(c, size, answer)
  BY <1>2, <1>4, SetOthers
<1>6. bytes > most
  BY <1>4 DEF Long
<1>7. Needs(c.args, job, most) = bytes \div most + 10
  BY <1>4, <1>6 DEF Needs
<1>8. /\ d.at = c.at /\ d.args = c.args
      /\ \/ d.jobs = Tail(c.jobs) /\ d.rounds = 0
         \/ /\ d.jobs = c.jobs /\ d.rounds = c.rounds + 1
            /\ ~(d.rounds >= bytes \div most + 10)
  <2> HIDE DEF c, d, size
  <2> QED
    BY <1>2, <1>5, AfterAnswerShape
<1>9. Needs(c.args, job, most) \in Nat /\ Needs(c.args, job, most) >= 1
  <2> HIDE DEF c, d, size
  <2> QED
    BY <1>2, <1>3, <1>4, JobFields, NeedsOne DEF Progress
<1>10. c.rounds \in Nat /\ c.rounds < Needs(c.args, job, most)
  <2>1. c.done \in Nat /\ c.rounds \in Nat /\ (c.done = 0 => c.rounds = 0)
        /\ (c.done > 0 => Chunked(c, size))
    BY <1>3 DEF Progress
  <2>2. Chunked(c, size) => c.rounds < bytes \div most + 10
    BY DEF Chunked
  <2> HIDE DEF c, d, size, job, most, bytes
  <2> QED
    BY <1>7, <1>9, <2>1, <2>2
<1> HIDE DEF bytes, job
<1>11. \/ d.jobs = Tail(c.jobs) /\ d.rounds = 0
       \/ d.jobs = c.jobs /\ d.rounds = c.rounds + 1 /\ d.rounds < Needs(c.args, job, most)
  <2> HIDE DEF c, d, most
  <2> QED
    BY <1>7, <1>8, <1>9, <1>10
<1> HIDE DEF c, d
<1> QED
  BY <1>1, <1>2, <1>3, <1>4, <1>8, <1>10, <1>11, LeftFalls DEF c, d, job

\* The header of a string declares 254 characters at most.
LEMMA StringSizes ==
  ASSUME NEW type, NEW max \in Nat, max <= 254
  PROVE  /\ StringSize(type, max) \in Nat /\ StringSize(type, 254) \in Nat
         /\ StringSize(type, max) <= StringSize(type, 254)
  BY DEF StringSize, HeaderSize

\* Reading a header takes one of the requests left, each chunk of a write another.
LEMMA HeaderTakesOne ==
  ASSUME ReadInv, NEW p \in Procs, ReadHeader(p), op'[p].at \in {"read", "header", "write"}
  PROVE  RequestsLeft(op'[p]) < RequestsLeft(op[p]) /\ RequestsLeft(op'[p]) >= 0
<1> DEFINE c == op[p]
           d == op'[p]
           type == c.target.type
           n == c.args.n
           count == IF n = 0 THEN 1 ELSE n
<1>1. c.at = "header"
  BY DEF ReadHeader, At
<1>2. /\ Shape /\ DOMAIN c = Fields /\ GoodWrite(c)
  BY <1>1 DEF ReadInv, Writing, At, IInv, LinkInv, Shape
<1>3. PICK whole, answer : d = AfterHeader(c, whole, answer)
  BY <1>2, HeaderStep, SetOthers
<1>4. c.done = 0 /\ n \in Nat
  BY <1>1, <1>2, WritesAssumption DEF GoodWrite
<1>5. \E max \in {Declared, 254} :
        d.at = "write" /\ d.done = c.done /\ d.data = count * StringSize(type, max)
  <2> DEFINE read == answer = whole /\ whole # Refused
             max == IF read THEN Declared ELSE 254
             next == [c EXCEPT !.broke = answer = None]
             data == count * StringSize(type, max)
             e == [next EXCEPT !.at = "write", !.fell = ~read, !.data = data]
             x == EndWrite(next, TRUE)
  <2>1. DOMAIN next = Fields /\ next.done = c.done
    BY <1>2 DEF Fields
  <2>2. d = IF ~read /\ n > 0 THEN x ELSE e
    BY <1>3 DEF AfterHeader
  <2>3. max \in {Declared, 254}
    OBVIOUS
  <2> HIDE DEF next, data, read
  <2>4. x.at = "done"
    BY <2>1 DEF EndWrite, Fields
  <2>5. e.at = "write" /\ e.done = c.done /\ e.data = data
    BY <2>1 DEF Fields
  <2> HIDE DEF x, e, d
  <2>6. d.at # "done"
    BY DEF d
  <2>7. d = e
    BY <2>2, <2>4, <2>6
  <2> HIDE DEF max, count
  <2> QED
    BY <2>3, <2>5, <2>7 DEF data
<1>6. PICK max \in {Declared, 254} :
        d.at = "write" /\ d.done = c.done /\ d.data = count * StringSize(type, max)
  BY <1>5
<1>7. RequestsLeft(d) = d.data - d.done
  <2> HIDE DEF d
  <2> QED
    BY <1>6 DEF RequestsLeft
<1>8. RequestsLeft(c) = 1 + (n + 1) * StringSize(type, 254)
  <2> HIDE DEF c
  <2> QED
    BY <1>1 DEF RequestsLeft, c
<1> DEFINE s == StringSize(type, max)
           t == StringSize(type, 254)
<1>9. s \in Nat /\ t \in Nat /\ s <= t
  BY DeclaredAssumption, StringSizes
<1>10. count \in Nat /\ count <= n + 1 /\ n + 1 \in Nat
  BY <1>4
<1> HIDE DEF c, d, n, count, s, t, type
<1>11. count * s <= (n + 1) * s /\ count * s \in Nat /\ s * (n + 1) = (n + 1) * s
  BY <1>9, <1>10, Times
<1>12. s * (n + 1) <= t * (n + 1) /\ (n + 1) * t = t * (n + 1) /\ t * (n + 1) \in Nat
  BY <1>9, <1>10, Times
<1>13. RequestsLeft(d) = count * s - 0 /\ RequestsLeft(c) = 1 + (n + 1) * t
  BY <1>4, <1>6, <1>7, <1>8 DEF s, t
<1> DEFINE u == count * s
           v == (n + 1) * s
           w == (n + 1) * t
<1>14. /\ u <= v /\ u \in Nat /\ v <= w /\ w \in Nat /\ v = s * (n + 1) /\ s * (n + 1) \in Nat
       /\ RequestsLeft(d) = u - 0 /\ RequestsLeft(c) = 1 + w
  BY <1>9, <1>10, <1>11, <1>12, <1>13, Times
<1>15. v \in Nat
  BY <1>14
<1> HIDE DEF u, v, w
<1> QED
  BY <1>14, <1>15 DEF c, d

LEMMA WriteTakesOne ==
  ASSUME ReadInv, NEW p \in Procs, Write(p), op'[p].at \in {"read", "header", "write"}
  PROVE  RequestsLeft(op'[p]) < RequestsLeft(op[p]) /\ RequestsLeft(op'[p]) >= 0
<1> DEFINE c == op[p]
           d == op'[p]
           most == WritePayload(pdu[transport])
           n == Room2(c, most)
           item == WriteItem(c, most, n)
<1>1. c.at = "write"
  BY DEF Write, At
<1>2. /\ Shape /\ Connected /\ DOMAIN c = Fields /\ GoodWrite(c) /\ pdu[transport] \in PDUSizes
  BY <1>1 DEF ReadInv, Writing, At, IInv, LinkInv, Shape
<1>3. PICK answer, sent : d = AfterWrite(c, item, n, answer, sent)
  BY <1>2, WriteStep, SetOthers
<1>4. /\ c.data \in Nat /\ c.done \in Nat /\ c.done < c.data
      /\ c.done > 0 => c.data > most
  BY <1>1, <1>2 DEF GoodWrite
<1>5. n \in Nat \ {0} /\ c.done + n <= c.data
  <2>1. most \in Nat \ {0}
    BY <1>2, PayloadSize
  <2> QED
    BY <1>4, <2>1, NextChunk
<1>6. d.at = "write" /\ d.data = c.data /\ d.done = c.done + n
  <2> DEFINE parts == IF sent = Refused THEN c.wrote ELSE Join(c.wrote, sent[1].bytes)
             wrote == [c EXCEPT !.wrote = parts, !.broke = @ \/ answer = None]
             e == [wrote EXCEPT !.done = c.done + n]
  <2>1. d = IF answer \in {None, Refused} THEN EndWrite(wrote, TRUE)
            ELSE IF c.done + n = c.data THEN EndWrite(wrote, FALSE)
            ELSE e
    BY <1>3 DEF AfterWrite
  <2> HIDE DEF parts
  <2>2. DOMAIN wrote = Fields /\ wrote.at = "write" /\ wrote.data = c.data
    BY <1>1, <1>2 DEF Fields
  <2> HIDE DEF wrote, n
  <2>3. \A failed : EndWrite(wrote, failed).at = "done"
    BY <2>2 DEF EndWrite, Fields
  <2>4. e.at = "write" /\ e.data = c.data /\ e.done = c.done + n
    BY <2>2 DEF Fields
  <2> HIDE DEF e, d
  <2>5. d.at # "done"
    BY DEF d
  <2>6. d = e
    BY <2>1, <2>3, <2>5
  <2> QED
    BY <2>4, <2>6
<1> HIDE DEF c, d, n
<1>7. RequestsLeft(d) = d.data - d.done /\ RequestsLeft(c) = c.data - c.done
  BY <1>1, <1>6 DEF RequestsLeft
<1>8. d.data - d.done = c.data - (c.done + n)
  BY <1>6
<1> QED
  BY <1>4, <1>5, <1>7, <1>8 DEF c, d

\* A step takes a request of the call that makes it, and none of the others'.
LEMMA StepTakesOne ==
  ASSUME ReadInv, [Next]_vars, NEW p \in Procs, op[p].at \in {"read", "header", "write"},
         op'[p].at \in {"read", "header", "write"}, op'[p] # op[p]
  PROVE  RequestsLeft(op'[p]) < RequestsLeft(op[p]) /\ RequestsLeft(op'[p]) >= 0
<1> DEFINE Under == {"read", "header", "write"}
<1>1. Shape
  BY DEF ReadInv, IInv, LinkInv
<1>2. ASSUME NEW q \in Procs, NEW c, Set(q, c)
      PROVE  q = p /\ op'[p] = c
  BY <1>1, <1>2, SetOthers
<1>3. ASSUME NEW q \in Procs, BeginRead(q) \/ BeginWrite(q) \/ Reconnect(q)
      PROVE  FALSE
  <2>1. op[q].at = "idle" /\ \E c : Set(q, c)
    BY <1>3 DEF BeginRead, BeginWrite, Reconnect, Lock, At
  <2> QED
    BY <1>2, <2>1
<1>4. ASSUME NEW q \in Procs, EndRead(q) \/ Return(q) \/ Dial(q) \/ DialFails(q) \/ Install(q)
      PROVE  FALSE
  <2>1. CASE EndRead(q)
    <3> DEFINE d == [op[q] EXCEPT !.at = "done", !.failed = ~connected[transport]]
    <3>1. Set(q, d) /\ d.at = "done"
      BY <1>1, <2>1 DEF EndRead, Shape, Fields
    <3> HIDE DEF d
    <3>2. op'[p].at = "done"
      BY <1>2, <3>1
    <3> QED
      BY <3>2
  <2>2. CASE Return(q) \/ Dial(q) \/ DialFails(q) \/ Install(q)
    <3>1. op[q].at \in {"done", "dial", "install"} /\ \E c : Set(q, c)
      BY <2>2 DEF Return, Dial, DialFails, Install, At
    <3> QED
      BY <1>2, <3>1
  <2> QED
    BY <1>4, <2>1, <2>2
<1>5. ASSUME NEW q \in Procs, Close(q) \/ SetDisconnected(q)
      PROVE  FALSE
  BY <1>5 DEF Close, SetDisconnected
<1>6. ASSUME NEW k \in Links, Break(k)
      PROVE  FALSE
  BY <1>6 DEF Break
<1>7. ASSUME NEW q \in Procs, ReadBatch(q) \/ ReadChunk(q) \/ ReadHeader(q) \/ Write(q)
      PROVE  q = p
  <2>1. Exchanged(q)
    BY <1>7, ReadBatchExchanges, ReadChunkExchanges, HeaderExchanges, WriteExchanges
       DEF ReadInv, IInv, LinkInv
  <2>2. \E c : Set(q, c)
    BY <2>1 DEF Exchanged, Turn
  <2> QED
    BY <1>2, <2>2
<1>8. ~UNCHANGED vars
  BY DEF vars
<1>9. ReadBatch(p) \/ ReadChunk(p) \/ ReadHeader(p) \/ Write(p)
  BY <1>3, <1>4, <1>5, <1>6, <1>7, <1>8 DEF Next, Step
<1> QED
  BY <1>9, BatchTakesOne, ChunkTakesOne, HeaderTakesOne, WriteTakesOne

\* Every round trip of a call takes one of the requests it may still make, and leaves no less than
\* none: whatever the PLC answers, short, refused, late or not at all, a read or write ends after
\* as many as its arguments and the PDU size allow (s7/client.go, readAddress and its bound on the
\* chunks, writeAddress, encodeStringWithRead).
THEOREM CallsComeToAnEnd == Spec => CallsEnd
<1> DEFINE Falling == \A p \in Procs :
             /\ op[p].at \in {"read", "header", "write"}
             /\ op'[p].at \in {"read", "header", "write"}
             /\ op'[p] # op[p]
             => RequestsLeft(op'[p]) < RequestsLeft(op[p]) /\ RequestsLeft(op'[p]) >= 0
<1>1. ReadInv /\ [Next]_vars => [Falling]_vars
  BY StepTakesOne
<1>2. CallsEnd <=> [][Falling]_vars
  BY PTL DEF CallsEnd
<1> QED
  BY ReadInvariant, <1>1, <1>2, PTL DEF Spec

-----------------------------------------------------------------------------
(* The types of the variables *)

Answers == Seq(Seq(Items))

Places == {"idle", "read", "header", "write", "done", "dial", "install"}

\* What a call holds, whatever it is; only a read has results and stretches of its own.
Kept(c) ==
  /\ c.at \in Places
  /\ c.short \in Nat /\ c.wrote \in Seq(Stretches) /\ c.new \in {0} \cup Links
  /\ c.fell \in BOOLEAN /\ c.failed \in BOOLEAN /\ c.broke \in BOOLEAN
  /\ c.kind = "read" => c.data = 0
  /\ c.kind # "read" => c.results = <<>> /\ c.parts = <<>> /\ c.rounds = 0
  /\ c.kind \notin {"read", "write"} => c.done = 0 /\ c.data = 0

Holding ==
  /\ mu \in Procs \cup {None}
  /\ wire \in [Links -> Answers]
  /\ \A p \in Procs : Kept(op[p])

TypeInv == ReadInv /\ Holding

\* A round trip for which the whole answer is this one.
Passes(whole) ==
  \/ Unsent
  \/ \E answer : Answered(answer)
  \/ \E late \in BOOLEAN : Unanswered(whole, late)

\* What an exchange leaves on the link: what was there before, or one answer more that is late.
LEMMA WireStays ==
  ASSUME Shape, Connected, wire \in [Links -> Answers], NEW whole \in Seq(Items), Passes(whole)
  PROVE  wire' \in [Links -> Answers]
<1>1. transport \in Links /\ DOMAIN wire = Links
  BY DEF Shape
<1>2. CASE Unsent
  BY <1>2 DEF Unsent
<1>3. ASSUME NEW answer, Answered(answer)
      PROVE  wire' = wire
  <2>1. wire[transport] = <<>>
    BY <1>1, <1>3 DEF Answered, Connected
  <2>2. Tail(Append(<<>>, answer)) = <<>>
    OBVIOUS
  <2>3. wire' = [wire EXCEPT ![transport] = <<>>]
    BY <1>3, <2>1, <2>2 DEF Answered
  <2> QED
    BY <1>1, <2>1, <2>3
<1>4. ASSUME NEW late \in BOOLEAN, Unanswered(whole, late)
      PROVE  wire' \in [Links -> Answers]
  <2> DEFINE w == Append(wire[transport], whole)
  <2>1. wire[transport] \in Answers
    BY <1>1
  <2>2. w \in Answers
    BY <2>1 DEF Answers
  <2>3. wire' = [wire EXCEPT ![transport] = w] \/ wire' = wire
    BY <1>4 DEF Unanswered
  <2> HIDE DEF w
  <2> QED
    BY <2>2, <2>3
<1> QED
  BY <1>2, <1>3, <1>4 DEF Passes

\* The PLC's answer to a read of a stretch is one item, or a refusal.
LEMMA OneAnswer ==
  ASSUME NEW a, Denotes(S7Any(a)) \in Stretches, NEW size \in PDUSizes
  PROVE  ReadAnswer(<<S7Any(a)>>, size) \in Seq(Items)
<1> DEFINE items == <<S7Any(a)>>
<1>1. DOMAIN items = 1..1 /\ Len(items) = 1 /\ items[1] = S7Any(a) /\ 1 \in Nat
  OBVIOUS
<1>2. \A i \in 1..1 : i = 1
  OBVIOUS
<1> HIDE DEF items
<1>3. \A i \in 1..1 : Denotes(items[i]) \in Stretches
  BY <1>1, <1>2
<1>4. size \in Nat
  BY Payloads
<1>5. ReadAnswer(items, size) \in Seq(Items)
  BY <1>1, <1>3, <1>4, WholeAnswer
<1> QED
  BY <1>5 DEF items

\* The requests that the PLC answers.
LEMMA BatchPasses ==
  ASSUME Shape, Connected, wire \in [Links -> Answers], NEW p \in Procs, ReadBatch(p),
         pdu[transport] \in PDUSizes, Progress(op[p], pdu[transport])
  PROVE  wire' \in [Links -> Answers]
<1> DEFINE c == op[p]
           job == Head(c.jobs)
           items == [i \in DOMAIN job |-> S7Any(c.args[job[i]])]
           size == pdu[transport]
           whole == ReadAnswer(items, size)
<1>1. c.jobs # <<>>
  BY DEF ReadBatch
<1>2. Passes(whole)
  <2> HIDE DEF whole
  <2> QED
    BY DEF ReadBatch, Exchange, Passes, whole
<1>3. c.args \in Seq(ReadAddresses \cup {BadAddress}) /\ c.jobs \in Seq(Jobs(c.args, size))
  BY DEF Progress
<1> HIDE DEF c, size
<1>4. job \in Jobs(c.args, size)
  BY <1>1, <1>3, JobFields
<1> HIDE DEF job
<1>5. Len(job) \in Nat
  BY <1>3, <1>4, JobAddresses
<1>6. /\ DOMAIN items = 1..Len(job) /\ Len(items) = Len(job)
      /\ \A i \in 1..Len(job) : Denotes(items[i]) \in Stretches
  BY <1>3, <1>4, RequestType DEF size
<1> HIDE DEF items
<1>7. whole \in Seq(Items)
  <2>1. size \in Nat
    BY Payloads DEF size
  <2> QED
    BY <1>5, <1>6, <2>1, WholeAnswer
<1> QED
  BY <1>2, <1>7, WireStays

LEMMA ChunkPasses ==
  ASSUME Shape, Connected, wire \in [Links -> Answers], NEW p \in Procs, ReadChunk(p),
         pdu[transport] \in PDUSizes, Progress(op[p], pdu[transport])
  PROVE  wire' \in [Links -> Answers]
<1> DEFINE c == op[p]
           job == Head(c.jobs)
           a == c.args[job[1]]
           size == pdu[transport]
           most == ReadPayload(size)
           n == IF a.size - c.done > most THEN most ELSE a.size - c.done
           whole == ReadAnswer(<<S7Any(Chunk(a, c.done, n))>>, size)
<1>1. c.jobs # <<>> /\ Len(job) = 1 /\ a.size > most
  BY DEF ReadChunk
<1>2. Passes(whole)
  <2> HIDE DEF whole
  <2> QED
    BY DEF ReadChunk, Exchange, Passes, whole
<1>3. /\ c.args \in Seq(ReadAddresses \cup {BadAddress}) /\ c.jobs \in Seq(Jobs(c.args, size))
      /\ c.done \in Nat /\ (c.done > 0 => Chunked(c, size))
  BY DEF Progress
<1>4. Chunked(c, size) => c.done < a.size
  BY DEF Chunked
<1> HIDE DEF c, size
<1>5. job \in Jobs(c.args, size)
  BY <1>1, <1>3, JobFields
<1> HIDE DEF job
<1>6. a \in ReadAddresses
  <2>1. 1 \in DOMAIN job
    BY <1>1, <1>3, <1>5, JobAddresses
  <2> QED
    BY <1>3, <1>5, <2>1, JobAddresses
<1>7. a \in Addresses /\ a.size \in Nat
  BY <1>6 DEF ReadAddresses, Addresses
<1> HIDE DEF a
<1>8. most \in Nat /\ 20 <= most /\ most <= 65515
  BY Payloads DEF size
<1> HIDE DEF most
<1>9. n \in Nat \ {0} /\ n <= 65535
  BY <1>1, <1>3, <1>4, <1>7, <1>8
<1> HIDE DEF n
<1>10. Denotes(S7Any(Chunk(a, c.done, n))) \in Stretches
  BY <1>3, <1>7, <1>9, ChunkDenotes
<1>11. whole \in Seq(Items)
  BY <1>10, OneAnswer DEF size
<1> HIDE DEF whole
<1> QED
  BY <1>2, <1>11, WireStays

LEMMA HeaderPasses ==
  ASSUME Shape, Connected, wire \in [Links -> Answers], NEW p \in Procs, ReadHeader(p),
         pdu[transport] \in PDUSizes, GoodWrite(op[p])
  PROVE  wire' \in [Links -> Answers]
<1> DEFINE c == op[p]
           a == c.target
           n == HeaderSize(a.type)
           size == pdu[transport]
           whole == ReadAnswer(<<S7Any(Chunk(a, 0, n))>>, size)
<1>1. Passes(whole)
  <2> HIDE DEF whole
  <2> QED
    BY DEF ReadHeader, Exchange, Passes, whole
<1>2. c.at = "header"
  BY DEF ReadHeader, At
<1>3. a \in Addresses
  BY <1>2, GoodTarget DEF GoodWrite
<1>4. n \in Nat \ {0} /\ n <= 65535 /\ 0 \in Nat
  BY DEF HeaderSize
<1> HIDE DEF c, a, n, size
<1>5. Denotes(S7Any(Chunk(a, 0, n))) \in Stretches
  BY <1>3, <1>4, ChunkDenotes
<1>6. whole \in Seq(Items)
  BY <1>5, OneAnswer DEF size
<1> HIDE DEF whole
<1> QED
  BY <1>1, <1>6, WireStays

\* The PLC's answer to a write.
LEMMA WritePasses ==
  ASSUME Shape, Connected, wire \in [Links -> Answers], NEW p \in Procs, Write(p),
         pdu[transport] \in PDUSizes, GoodWrite(op[p]),
         NEW most, most = WritePayload(pdu[transport]), NEW n, n = Room2(op[p], most)
  PROVE  /\ WriteAnswer(WriteItem(op[p], most, n), n) \in Seq(Items)
         /\ wire' \in [Links -> Answers]
<1> DEFINE c == op[p]
           a == c.target
           item == WriteItem(c, most, n)
           whole == WriteAnswer(item, n)
<1>1. Passes(whole)
  <2>1. whole = LET k == IF c.data - c.done > most THEN most ELSE c.data - c.done
                    i == S7Any(IF c.data <= most THEN c.target ELSE Chunk(c.target, c.done, k))
                IN  WriteAnswer(i, k)
    BY DEF Room2, WriteItem
  <2> HIDE DEF whole
  <2>2. \/ Unsent
        \/ \E answer : Answered(answer)
        \/ \E late \in BOOLEAN : Unanswered(whole, late)
    BY <2>1 DEF Write, Exchange
  <2> QED
    BY <2>2 DEF Passes
<1>2. c.at = "write"
  BY DEF Write, At
<1>3. /\ a \in Addresses /\ c.data \in Nat /\ c.done \in Nat /\ c.done < c.data
      /\ c.done > 0 => c.data > most
  BY <1>2, GoodTarget DEF GoodWrite
<1>4. most \in Nat \ {0} /\ most <= 65535
  <2>1. pdu[transport] \in Nat /\ pdu[transport] <= 65535
    BY Payloads
  <2> QED
    BY <2>1, PayloadSize DEF WritePayload
<1> HIDE DEF c, a
<1>5. n \in Nat \ {0} /\ n <= 65535
  <2>1. n = IF c.data - c.done > most THEN most ELSE c.data - c.done
    BY DEF Room2, c
  <2> QED
    BY <1>3, <1>4, <2>1
<1>6. Denotes(item) \in Stretches
  <2>1. Denotes(S7Any(a)) \in Stretches
    BY <1>3, DenotesType
  <2>2. Denotes(S7Any(Chunk(a, c.done, n))) \in Stretches
    BY <1>3, <1>5, ChunkDenotes
  <2>3. item = S7Any(a) \/ item = S7Any(Chunk(a, c.done, n))
    BY DEF WriteItem, a
  <2> HIDE DEF item
  <2> QED
    BY <2>1, <2>2, <2>3
<1> HIDE DEF item
<1> DEFINE s == [Denotes(item) EXCEPT !.len = n]
<1>7. s \in Stretches
  BY <1>5, <1>6 DEF Stretches
<1>8. whole = <<[ok |-> TRUE, bytes |-> s]>>
  BY DEF WriteAnswer
<1> HIDE DEF s
<1>9. [ok |-> TRUE, bytes |-> s] \in Items
  BY <1>7 DEF Items
<1>10. whole \in Seq(Items)
  BY <1>8, <1>9
<1> HIDE DEF whole
<1>11. wire' \in [Links -> Answers]
  BY <1>1, <1>10, WireStays
<1> QED
  BY <1>10, <1>11 DEF whole, item, c

\* Whatever a round trip of a read sets beside what the read has so far.
Carried(c, d) ==
  /\ d.at = c.at /\ d.kind = c.kind /\ d.data = c.data /\ d.wrote = c.wrote /\ d.new = c.new
  /\ d.fell = c.fell /\ d.failed = c.failed
  /\ d.short \in Nat /\ d.broke \in BOOLEAN

LEMMA ReadIsKept ==
  ASSUME NEW c, Kept(c), c.kind = "read", NEW d, Carried(c, d)
  PROVE  Kept(d)
  BY DEF Kept, Carried

\* The job at the head is over.
LEMMA JobIsCarried ==
  ASSUME NEW c, DOMAIN c = Fields, Kept(c), NEW results
  PROVE  LET d == NextJob(c, results)
         IN  /\ Carried(c, d) /\ DOMAIN d = Fields
             /\ \A broke \in BOOLEAN : Carried(c, [d EXCEPT !.broke = broke])
<1> DEFINE d == NextJob(c, results)
<1>1. c.broke \in BOOLEAN
  BY DEF Kept
<1>2. /\ DOMAIN d = Fields /\ d.at = c.at /\ d.kind = c.kind /\ d.data = c.data
      /\ d.wrote = c.wrote /\ d.new = c.new /\ d.fell = c.fell /\ d.failed = c.failed
      /\ d.short = 0 /\ d.broke = c.broke
  BY DEF NextJob, Fields
<1> HIDE DEF d
<1>3. Carried(c, d)
  BY <1>1, <1>2 DEF Carried
<1>4. ASSUME NEW broke \in BOOLEAN
      PROVE  Carried(c, [d EXCEPT !.broke = broke])
  <2> DEFINE e == [d EXCEPT !.broke = broke]
  <2>1. /\ e.at = d.at /\ e.kind = d.kind /\ e.data = d.data /\ e.wrote = d.wrote /\ e.new = d.new
        /\ e.fell = d.fell /\ e.failed = d.failed /\ e.short = d.short /\ e.broke = broke
    BY <1>2 DEF Fields
  <2> HIDE DEF e
  <2>2. Carried(c, e)
    BY <1>2, <2>1 DEF Carried
  <2> QED
    BY <2>2 DEF e
<1> QED
  BY <1>2, <1>3, <1>4 DEF d

LEMMA BatchIsCarried ==
  ASSUME NEW c, DOMAIN c = Fields, Kept(c), NEW answer
  PROVE  Carried(c, AfterBatch(c, answer))
<1> DEFINE d == NextJob(c, BatchResults(c, answer))
           broke == c.broke \/ answer = None
<1>1. d.broke = c.broke
  BY NextJobParts
<1>2. AfterBatch(c, answer) = [d EXCEPT !.broke = broke]
  BY <1>1 DEF AfterBatch
<1>3. broke \in BOOLEAN
  OBVIOUS
<1>4. \A b \in BOOLEAN : Carried(c, [d EXCEPT !.broke = b])
  BY JobIsCarried
<1> HIDE DEF d, broke
<1> QED
  BY <1>2, <1>3, <1>4

LEMMA ChunkIsCarried ==
  ASSUME NEW c, DOMAIN c = Fields, Kept(c), NEW size, NEW answer
  PROVE  Carried(c, AfterAnswer(c, size, answer))
<1> DEFINE i == Head(c.jobs)[1]
           a == c.args[i]
           n == ChunkSize(a, c, size)
           s == answer[1].bytes
           most == ReadPayload(size)
           d == AfterAnswer(c, size, answer)
           fail == NextJob(c, WithResult(c, i, Failed))
           f == Further(c, s, n)
<1>1. d = IF answer = None THEN [fail EXCEPT !.broke = TRUE]
          ELSE IF answer = Refused \/ ~answer[1].ok \/ s.len = 0 THEN fail
          ELSE IF f.done >= a.size THEN NextJob(c, WithResult(c, i, Success(f.parts)))
          ELSE IF f.rounds >= a.size \div most + 10 THEN fail
          ELSE f
  BY DEF AfterAnswer, AfterChunk, Further, WithResult
<1>2. \A r : Carried(c, NextJob(c, WithResult(c, i, r)))
  BY JobIsCarried
<1>3. Carried(c, [fail EXCEPT !.broke = TRUE])
  <2>1. \A b \in BOOLEAN : Carried(c, [fail EXCEPT !.broke = b])
    BY JobIsCarried
  <2> HIDE DEF fail
  <2> QED
    BY <2>1
<1>4. Carried(c, f)
  <2>1. c.short \in Nat /\ c.broke \in BOOLEAN
    BY DEF Kept
  <2>2. /\ f.at = c.at /\ f.kind = c.kind /\ f.data = c.data /\ f.wrote = c.wrote /\ f.new = c.new
        /\ f.fell = c.fell /\ f.failed = c.failed /\ f.broke = c.broke
        /\ f.short = c.short + IF s.len < n THEN 1 ELSE 0
    <3> HIDE DEF s, n
    <3> QED
      BY DEF Further, Fields
  <2> HIDE DEF f
  <2>3. f.short \in Nat
    BY <2>1, <2>2
  <2> QED
    BY <2>1, <2>2, <2>3 DEF Carried
<1>5. Carried(c, fail)
  BY <1>2
<1> HIDE DEF n, s, most, f, fail, d, i, a
<1> QED
  BY <1>1, <1>2, <1>3, <1>4, <1>5 DEF d

\* The string's header, and a write's requests.
LEMMA HeaderIsKept ==
  ASSUME NEW c, DOMAIN c = Fields, Kept(c), c.kind = "write", NEW whole, NEW answer
  PROVE  Kept(AfterHeader(c, whole, answer))
<1> DEFINE count == IF c.args.n = 0 THEN 1 ELSE c.args.n
           read == answer = whole /\ whole # Refused
           data == count * StringSize(c.target.type, IF read THEN Declared ELSE 254)
           d == AfterHeader(c, whole, answer)
<1>1. /\ d.kind = c.kind /\ d.short = c.short /\ d.wrote = c.wrote /\ d.new = c.new
      /\ d.results = c.results /\ d.parts = c.parts /\ d.rounds = c.rounds
      /\ d.at \in {"done", "write"} /\ d.broke \in BOOLEAN
      /\ d.failed \in {c.failed, TRUE} /\ d.fell \in {c.fell, TRUE, FALSE}
  BY DEF AfterHeader, EndWrite, Fields
<1> HIDE DEF d
<1>2. c.failed \in BOOLEAN /\ c.fell \in BOOLEAN
  BY DEF Kept
<1> QED
  BY <1>1, <1>2 DEF Kept, Places, d

LEMMA FirstItem ==
  ASSUME NEW items \in Seq(Items), Len(items) = 1
  PROVE  items[1].bytes \in Stretches
<1>1. \A i \in 1..Len(items) : items[i] \in Items
  OBVIOUS
<1>2. items[1] \in Items
  BY <1>1
<1> QED
  BY <1>2 DEF Items

LEMMA WriteIsKept ==
  ASSUME NEW c, DOMAIN c = Fields, Kept(c), c.kind = "write", c.at = "write",
         NEW item, NEW n, NEW answer, NEW whole \in Seq(Items), Len(whole) = 1,
         NEW sent \in {whole, Refused}
  PROVE  Kept(AfterWrite(c, item, n, answer, sent))
<1> DEFINE d == AfterWrite(c, item, n, answer, sent)
           wrote == IF sent = Refused THEN c.wrote ELSE Join(c.wrote, sent[1].bytes)
<1>1. /\ d.kind = c.kind /\ d.short = c.short /\ d.new = c.new /\ d.fell = c.fell
      /\ d.results = c.results /\ d.parts = c.parts /\ d.rounds = c.rounds
      /\ d.at \in {"done", "write"} /\ d.broke \in BOOLEAN /\ d.wrote = wrote
      /\ d.failed \in {c.failed, TRUE, FALSE}
  <2> HIDE DEF wrote
  <2> DEFINE w == [c EXCEPT !.wrote = wrote, !.broke = c.broke \/ answer = None]
  <2>1. d = IF answer \in {None, Refused} THEN EndWrite(w, TRUE)
            ELSE IF c.done + n = c.data THEN EndWrite(w, FALSE)
            ELSE [w EXCEPT !.done = c.done + n]
    BY DEF AfterWrite, wrote
  <2> HIDE DEF d
  <2>2. /\ DOMAIN w = Fields /\ w.kind = c.kind /\ w.short = c.short /\ w.new = c.new
        /\ w.fell = c.fell /\ w.results = c.results /\ w.parts = c.parts /\ w.rounds = c.rounds
        /\ w.at = c.at /\ w.broke \in BOOLEAN /\ w.wrote = wrote /\ w.failed = c.failed
    BY DEF Fields
  <2> HIDE DEF w
  <2> QED
    BY <2>1, <2>2 DEF EndWrite, Fields
<1>2. wrote \in Seq(Stretches)
  <2>1. c.wrote \in Seq(Stretches)
    BY DEF Kept
  <2>2. whole[1].bytes \in Stretches
    BY FirstItem
  <2>3. CASE sent = Refused
    BY <2>1, <2>3
  <2>4. CASE sent # Refused
    BY <2>1, <2>2, <2>4, JoinType
  <2> QED
    BY <2>3, <2>4
<1> HIDE DEF d, wrote
<1>3. c.failed \in BOOLEAN
  BY DEF Kept
<1> QED
  BY <1>1, <1>2, <1>3 DEF Kept, Places, d

\* The calls that begin, and a goroutine outside every call.
LEMMA FreshIsKept ==
  /\ Kept(Idle) /\ \A w : Kept(Begun(w)) /\ \A plan : Kept(BegunRead(plan))
  /\ Kept([Idle EXCEPT !.at = "dial", !.kind = "reconnect"])
<1>1. <<>> \in Seq(Stretches)
  OBVIOUS
<1>2. Kept(Idle)
  BY <1>1 DEF Kept, Idle, Places
<1>3. ASSUME NEW w
      PROVE  Kept(Begun(w))
  <2> DEFINE c == Begun(w)
             a == WriteAddress(w)
             n == Encoded(a, w)
             ofStrings == w.kind = "string" /\ a.bit = None /\ a.type \in StringTypes
             b == [Idle EXCEPT !.kind = "write", !.args = w, !.target = a]
  <2>1. c = IF a = BadAddress THEN EndWrite(b, TRUE)
            ELSE IF ofStrings THEN [b EXCEPT !.at = "header"]
            ELSE IF n = 0 THEN EndWrite(b, TRUE)
            ELSE [b EXCEPT !.at = "write", !.data = n]
    BY DEF Begun
  <2> HIDE DEF c, n, ofStrings, a
  <2>2. /\ DOMAIN b = Fields /\ b.kind = "write" /\ b.at = "idle" /\ b.short = 0 /\ b.new = 0
        /\ b.wrote = <<>> /\ b.results = <<>> /\ b.parts = <<>> /\ b.rounds = 0
        /\ ~b.fell /\ ~b.failed /\ ~b.broke
        /\ b.fell \in BOOLEAN /\ b.failed \in BOOLEAN /\ b.broke \in BOOLEAN
    BY DEF Idle, Fields
  <2> HIDE DEF b
  <2>3. /\ c.kind = "write" /\ c.at \in {"header", "write", "done"} /\ c.short = 0 /\ c.new = 0
        /\ c.wrote = <<>> /\ c.results = <<>> /\ c.parts = <<>> /\ c.rounds = 0
        /\ c.fell \in BOOLEAN /\ c.failed \in BOOLEAN /\ c.broke \in BOOLEAN
    BY <2>1, <2>2 DEF EndWrite, Fields
  <2>4. Kept(c)
    BY <1>1, <2>3 DEF Kept, Places
  <2> QED
    BY <2>4 DEF c
<1>4. ASSUME NEW plan
      PROVE  Kept(BegunRead(plan))
  <2> DEFINE results == [i \in DOMAIN plan.addresses |->
                           IF plan.addresses[i] = BadAddress THEN Failed ELSE None]
             c == [Idle EXCEPT !.at = "read", !.kind = "read", !.args = plan.addresses,
                               !.jobs = plan.jobs, !.results = results]
  <2>1. BegunRead(plan) = c
    BY DEF BegunRead
  <2> HIDE DEF results
  <2>2. /\ c.kind = "read" /\ c.at = "read" /\ c.short = 0 /\ c.new = 0 /\ c.data = 0
        /\ c.wrote = <<>> /\ c.fell \in BOOLEAN /\ c.failed \in BOOLEAN /\ c.broke \in BOOLEAN
    BY DEF Idle
  <2> HIDE DEF c
  <2> QED
    BY <1>1, <2>1, <2>2 DEF Kept, Places
<1>5. Kept([Idle EXCEPT !.at = "dial", !.kind = "reconnect"])
  BY <1>1 DEF Kept, Idle, Places
<1> QED
  BY <1>2, <1>3, <1>4, <1>5

\* A step of one goroutine.
LEMMA HoldsOn ==
  ASSUME ReadInv, Holding, NEW p \in Procs, NEW c, Set(p, c), Kept(c),
         mu' \in {p, None, mu}, wire' \in [Links -> Answers]
  PROVE  Holding'
<1>1. op'[p] = c /\ \A q \in Procs : q # p => op'[q] = op[q]
  BY SetOthers DEF ReadInv, IInv, LinkInv
<1>2. mu' \in Procs \cup {None} /\ \A q \in Procs : Kept(op'[q])
  BY <1>1 DEF Holding
<1> QED
  BY <1>2 DEF Holding

\* What the invariant says of p's call.
LEMMA CallFacts ==
  ASSUME ReadInv, Holding, NEW p \in Procs
  PROVE  /\ Shape /\ Connected /\ wire \in [Links -> Answers] /\ pdu[transport] \in PDUSizes
         /\ DOMAIN op[p] = Fields /\ Kept(op[p])
         /\ At(p, "read") => op[p].kind = "read"
         /\ op[p].kind = "read" => Progress(op[p], pdu[transport])
         /\ At(p, "header") \/ At(p, "write") => op[p].kind = "write" /\ GoodWrite(op[p])
<1>1. Shape /\ Connected /\ wire \in [Links -> Answers] /\ Kept(op[p])
  BY DEF ReadInv, IInv, LinkInv, Holding
<1>2. pdu[transport] \in PDUSizes /\ DOMAIN op[p] = Fields
  BY <1>1 DEF Shape
<1>3. /\ At(p, "read") => op[p].kind = "read"
      /\ op[p].kind = "read" => Progress(op[p], pdu[transport])
  BY DEF ReadInv, Reading, GoodRead
<1>4. At(p, "header") \/ At(p, "write") => op[p].kind = "write" /\ GoodWrite(op[p])
  BY DEF ReadInv, IInv, Writing
<1> QED
  BY <1>1, <1>2, <1>3, <1>4

LEMMA ReadHolds ==
  ASSUME ReadInv, Holding, NEW p \in Procs, ReadBatch(p) \/ ReadChunk(p)
  PROVE  Holding'
<1> DEFINE c == op[p]
           size == pdu[transport]
<1>1. At(p, "read") /\ UNCHANGED mu
  BY DEF ReadBatch, ReadChunk
<1>2. /\ Shape /\ Connected /\ wire \in [Links -> Answers] /\ size \in PDUSizes
      /\ DOMAIN c = Fields /\ Kept(c) /\ c.kind = "read" /\ Progress(c, size)
  BY <1>1, CallFacts
<1>3. wire' \in [Links -> Answers]
  BY <1>2, BatchPasses, ChunkPasses
<1>4. \E d : Set(p, d) /\ Carried(c, d)
  <2>1. CASE ReadBatch(p)
    <3>1. \E answer : Set(p, AfterBatch(c, answer))
      BY <1>2, <2>1, BatchStep
    <3>2. \A answer : Carried(c, AfterBatch(c, answer))
      BY <1>2, BatchIsCarried
    <3> HIDE DEF c
    <3> QED
      BY <3>1, <3>2
  <2>2. CASE ReadChunk(p)
    <3>1. \E answer : Set(p, AfterAnswer(c, size, answer))
      BY <1>2, <2>2, AnswerStep
    <3>2. \A answer : Carried(c, AfterAnswer(c, size, answer))
      BY <1>2, ChunkIsCarried
    <3> HIDE DEF c, size
    <3> QED
      BY <3>1, <3>2
  <2> QED
    BY <2>1, <2>2
<1>5. PICK d : Set(p, d) /\ Carried(c, d)
  BY <1>4
<1>6. Kept(d)
  BY <1>2, <1>5, ReadIsKept
<1> QED
  BY <1>1, <1>3, <1>5, <1>6, HoldsOn

LEMMA HeaderHolds ==
  ASSUME ReadInv, Holding, NEW p \in Procs, ReadHeader(p)
  PROVE  Holding'
<1> DEFINE c == op[p]
<1>1. At(p, "header") /\ UNCHANGED mu /\ \E whole, answer : Set(p, AfterHeader(c, whole, answer))
  BY HeaderStep
<1>2. /\ Shape /\ Connected /\ wire \in [Links -> Answers] /\ pdu[transport] \in PDUSizes
      /\ DOMAIN c = Fields /\ Kept(c) /\ c.kind = "write" /\ GoodWrite(c)
  BY <1>1, CallFacts
<1>3. wire' \in [Links -> Answers]
  BY <1>2, HeaderPasses
<1>4. \A whole, answer : Kept(AfterHeader(c, whole, answer))
  BY <1>2, HeaderIsKept
<1> HIDE DEF c
<1> QED
  BY <1>1, <1>3, <1>4, HoldsOn

LEMMA WriteHolds ==
  ASSUME ReadInv, Holding, NEW p \in Procs, Write(p)
  PROVE  Holding'
<1> DEFINE c == op[p]
           most == WritePayload(pdu[transport])
           n == Room2(c, most)
           item == WriteItem(c, most, n)
           whole == WriteAnswer(item, n)
<1>1. At(p, "write") /\ UNCHANGED mu
  BY DEF Write
<1>2. /\ Shape /\ Connected /\ wire \in [Links -> Answers] /\ pdu[transport] \in PDUSizes
      /\ DOMAIN c = Fields /\ Kept(c) /\ c.kind = "write" /\ c.at = "write" /\ GoodWrite(c)
  BY <1>1, CallFacts DEF At
<1>3. whole \in Seq(Items) /\ wire' \in [Links -> Answers]
  BY <1>2, WritePasses
<1>4. Len(whole) = 1
  BY DEF WriteAnswer
<1>5. \E answer, sent : Set(p, AfterWrite(c, item, n, answer, sent)) /\ sent \in {whole, Refused}
  BY <1>2, WriteStep
<1> HIDE DEF c, n, item, whole
<1>6. PICK answer, sent : /\ Set(p, AfterWrite(c, item, n, answer, sent))
                          /\ sent \in {whole, Refused}
  BY <1>5
<1>7. Kept(AfterWrite(c, item, n, answer, sent))
  BY <1>2, <1>3, <1>4, <1>6, WriteIsKept
<1> QED
  BY <1>1, <1>3, <1>6, <1>7, HoldsOn

\* The beginning and the end of a call.
LEMMA BeginHolds ==
  ASSUME ReadInv, Holding, NEW p \in Procs,
         BeginRead(p) \/ BeginWrite(p) \/ EndRead(p) \/ Return(p)
  PROVE  Holding'
<1>1. mu' \in {p, None, mu} /\ wire' \in [Links -> Answers]
  BY DEF BeginRead, BeginWrite, EndRead, Return, Lock, Holding
<1>2. CASE BeginRead(p)
  <2>1. \E plan : Set(p, BegunRead(plan))
    BY <1>2 DEF BeginRead, BegunRead
  <2> QED
    BY <1>1, <2>1, FreshIsKept, HoldsOn
<1>3. CASE BeginWrite(p)
  <2>1. \E w : Set(p, Begun(w))
    BY <1>3 DEF BeginWrite, Begun
  <2> QED
    BY <1>1, <2>1, FreshIsKept, HoldsOn
<1>4. CASE EndRead(p)
  <2> DEFINE c == op[p]
             d == [c EXCEPT !.at = "done", !.failed = ~connected[transport]]
  <2>1. At(p, "read") /\ Set(p, d)
    BY <1>4 DEF EndRead
  <2>2. DOMAIN c = Fields /\ Kept(c) /\ c.kind = "read"
    BY <2>1, CallFacts
  <2>3. /\ d.at = "done" /\ d.kind = c.kind /\ d.data = c.data /\ d.wrote = c.wrote
        /\ d.new = c.new /\ d.fell = c.fell /\ d.short = c.short /\ d.broke = c.broke
        /\ d.failed \in BOOLEAN
    BY <2>2 DEF Fields
  <2> HIDE DEF c, d
  <2>4. Kept(d)
    BY <2>2, <2>3 DEF Kept, Places
  <2> QED
    BY <1>1, <2>1, <2>4, HoldsOn
<1>5. CASE Return(p)
  BY <1>1, <1>5, FreshIsKept, HoldsOn DEF Return
<1> QED
  BY <1>2, <1>3, <1>4, <1>5

\* What lies unread on a link that is closed goes with it.
LEMMA CloseHolds ==
  ASSUME Holding, CloseTransport(transport)
  PROVE  wire' \in [Links -> Answers]
<1>1. <<>> \in Answers
  BY DEF Answers
<1> QED
  BY <1>1 DEF Holding, CloseTransport

\* The steps that replace the transport.
LEMMA ConnectionHolds ==
  ASSUME ReadInv, Holding, NEW p \in Procs,
         DialFails(p) \/ Install(p) \/ Dial(p) \/ Reconnect(p)
  PROVE  Holding'
<1>1. mu' = mu /\ wire' \in [Links -> Answers]
  BY CloseHolds DEF DialFails, Install, Dial, Reconnect, Holding
<1>2. CASE DialFails(p) \/ Install(p) \/ Reconnect(p)
  <2>1. Set(p, Idle) \/ Set(p, [Idle EXCEPT !.at = "dial", !.kind = "reconnect"])
    BY <1>2 DEF DialFails, Install, Reconnect
  <2> QED
    BY <1>1, <2>1, FreshIsKept, HoldsOn
<1>3. CASE Dial(p)
  <2> DEFINE c == op[p]
             d(k) == [c EXCEPT !.at = "install", !.new = k]
  <2>1. PICK k \in Links : Set(p, d(k))
    BY <1>3 DEF Dial
  <2>2. DOMAIN c = Fields /\ Kept(c)
    BY CallFacts
  <2>3. /\ d(k).at = "install" /\ d(k).new = k /\ d(k).kind = c.kind /\ d(k).data = c.data
        /\ d(k).wrote = c.wrote /\ d(k).fell = c.fell /\ d(k).short = c.short
        /\ d(k).broke = c.broke /\ d(k).failed = c.failed /\ d(k).results = c.results
        /\ d(k).parts = c.parts /\ d(k).rounds = c.rounds /\ d(k).done = c.done
    BY <2>2 DEF Fields
  <2> HIDE DEF c, d
  <2>4. Kept(d(k))
    BY <2>2, <2>3 DEF Kept, Places
  <2> QED
    BY <1>1, <2>1, <2>4, HoldsOn
<1> QED
  BY <1>2, <1>3

LEMMA InitTypes == Init => TypeInv
<1> SUFFICES ASSUME Init
             PROVE  Holding
  BY InitReads DEF TypeInv
<1>1. <<>> \in Answers
  BY DEF Answers
<1>2. mu = None /\ wire \in [Links -> Answers] /\ \A p \in Procs : op[p] = Idle
  BY <1>1 DEF Init
<1> QED
  BY <1>2, FreshIsKept DEF Holding

LEMMA NextTypes == TypeInv /\ [Next]_vars => TypeInv'
<1> SUFFICES ASSUME ReadInv, Holding, [Next]_vars
             PROVE  Holding'
  BY NextReads DEF TypeInv
<1>1. ASSUME NEW p \in Procs, BeginRead(p) \/ BeginWrite(p)
      PROVE  Holding'
  BY <1>1, BeginHolds
<1>2. ASSUME NEW p \in Procs, Step(p)
      PROVE  Holding'
  BY <1>2, ReadHolds, HeaderHolds, WriteHolds, BeginHolds, ConnectionHolds DEF Step
<1>3. ASSUME NEW p \in Procs, Close(p) \/ SetDisconnected(p)
      PROVE  Holding'
  <2>1. mu' = mu /\ op' = op /\ wire' \in [Links -> Answers]
    BY <1>3, CloseHolds DEF Close, SetDisconnected, Holding
  <2> QED
    BY <2>1 DEF Holding
<1>4. ASSUME NEW p \in Procs, Reconnect(p)
      PROVE  Holding'
  BY <1>4, ConnectionHolds
<1>5. ASSUME NEW k \in Links, Break(k)
      PROVE  Holding'
  BY <1>5 DEF Break, Holding
<1>6. ASSUME UNCHANGED vars
      PROVE  Holding'
  BY <1>6 DEF vars, Holding
<1> QED
  BY <1>1, <1>2, <1>3, <1>4, <1>5, <1>6 DEF Next

\* The invariant of the types: of the reads' results and of what lies on the wire, beside what
\* the reads and the writes keep to.
THEOREM TypeInvariant == Spec => []TypeInv
<1>1. TypeInv /\ [Next]_vars => TypeInv'
  BY NextTypes
<1> QED
  BY InitTypes, <1>1, PTL DEF Spec

LEMMA StretchesHaveTypes ==
  ASSUME NEW parts \in Seq(Stretches)
  PROVE  Each(parts, IsStretch)
<1>1. \A i \in DOMAIN parts : parts[i] \in Stretches
  OBVIOUS
<1> QED
  BY <1>1 DEF Each, IsStretch

LEMMA AnswersHaveTypes ==
  ASSUME NEW answers \in Answers
  PROVE  Each(answers, IsAnswer)
<1>1. \A j \in DOMAIN answers : answers[j] \in Seq(Items)
  BY DEF Answers
<1>2. ASSUME NEW j \in DOMAIN answers
      PROVE  IsAnswer(answers[j])
  <2> DEFINE r == answers[j]
  <2>1. r \in Seq(Items)
    BY <1>1
  <2> HIDE DEF r
  <2>2. \A i \in DOMAIN r : r[i] \in Items
    BY <2>1
  <2>3. IsAnswer(r)
    BY <2>2 DEF IsAnswer, Each, IsItem, Items
  <2> QED
    BY <2>3 DEF r
<1> QED
  BY <1>2 DEF Each

LEMMA ResultsHaveTypes ==
  ASSUME NEW c, NEW size, Progress(c, size)
  PROVE  Each(c.results, IsResult)
<1>1. ASSUME NEW i \in DOMAIN c.results
      PROVE  IsResult(c.results[i])
  <2> DEFINE r == c.results[i]
  <2>1. r = None \/ r \in Results
    BY DEF Progress, Exact
  <2> HIDE DEF r
  <2>2. ASSUME r \in Results
        PROVE  IsResult(r)
    <3>1. r.ok \in BOOLEAN /\ r.parts \in Seq(Stretches)
      BY <2>2 DEF Results
    <3>2. Each(r.parts, IsStretch)
      BY <3>1, StretchesHaveTypes
    <3> QED
      BY <3>1, <3>2 DEF IsResult
  <2>3. IsResult(r)
    BY <2>1, <2>2 DEF IsResult
  <2> QED
    BY <2>3 DEF r
<1> QED
  BY <1>1 DEF Each

\* The types of one call.
LEMMA CallHasTypes ==
  ASSUME TypeInv, NEW p \in Procs, NEW c, c = op[p]
  PROVE  /\ c.at \in {"idle", "read", "header", "write", "done", "dial", "install"}
         /\ Each(c.results, IsResult) /\ Each(c.parts, IsStretch) /\ Each(c.wrote, IsStretch)
         /\ {c.done, c.rounds, c.short, c.data} \subseteq Nat
         /\ c.new \in {0} \cup Links /\ {c.fell, c.failed, c.broke} \subseteq BOOLEAN
<1>1. /\ Kept(c) /\ (c.kind = "read" => Progress(c, pdu[transport]))
      /\ (c.kind = "write" => c.done \in Nat /\ c.data \in Nat)
  <2>1. Kept(c) /\ (c.kind = "read" => Progress(c, pdu[transport]))
    BY CallFacts DEF TypeInv
  <2>2. c.kind = "write" => GoodWrite(c)
    BY DEF TypeInv, ReadInv, IInv, Writing
  <2> QED
    BY <2>1, <2>2 DEF GoodWrite
<1>2. Each(c.wrote, IsStretch)
  BY <1>1, StretchesHaveTypes DEF Kept
<1>3. Each(<<>>, IsResult) /\ Each(<<>>, IsStretch)
  BY DEF Each
<1>4. c.kind = "read" =>
        /\ Each(c.results, IsResult) /\ Each(c.parts, IsStretch)
        /\ c.done \in Nat /\ c.rounds \in Nat
  <2>1. SUFFICES ASSUME c.kind = "read"
                 PROVE  /\ Each(c.results, IsResult) /\ Each(c.parts, IsStretch)
                        /\ c.done \in Nat /\ c.rounds \in Nat
    OBVIOUS
  <2>2. Progress(c, pdu[transport])
    BY <1>1, <2>1
  <2>3. c.parts \in Seq(Stretches) /\ c.done \in Nat /\ c.rounds \in Nat
    BY <2>2 DEF Progress
  <2> QED
    BY <2>2, <2>3, ResultsHaveTypes, StretchesHaveTypes
<1>5. /\ c.at \in Places /\ c.short \in Nat /\ c.new \in {0} \cup Links
      /\ c.fell \in BOOLEAN /\ c.failed \in BOOLEAN /\ c.broke \in BOOLEAN
      /\ c.kind = "read" => c.data = 0
      /\ c.kind # "read" => c.results = <<>> /\ c.parts = <<>> /\ c.rounds = 0
      /\ c.kind \notin {"read", "write"} => c.done = 0 /\ c.data = 0
  BY <1>1 DEF Kept
<1>6. Each(c.results, IsResult) /\ Each(c.parts, IsStretch)
  BY <1>3, <1>4, <1>5
<1>7. c.done \in Nat /\ c.rounds \in Nat /\ c.short \in Nat /\ c.data \in Nat
  BY <1>1, <1>4, <1>5
<1> QED
  BY <1>2, <1>5, <1>6, <1>7 DEF Places

LEMMA TypesOfInv == TypeInv => TypeOK
<1> SUFFICES ASSUME TypeInv
             PROVE  TypeOK
  OBVIOUS
<1>1. /\ transport \in Links /\ connected \in [Links -> BOOLEAN]
      /\ link \in [Links -> {"unused", "open", "broken", "closed"}]
      /\ pdu \in [Links -> PDUSizes] /\ overlap \in BOOLEAN
  BY DEF TypeInv, ReadInv, IInv, LinkInv, Shape
<1>2. mu \in Procs \cup {None} /\ \A k \in Links : wire[k] \in Answers
  BY DEF TypeInv, Holding
<1>3. \A k \in Links : Each(wire[k], IsAnswer)
  BY <1>2, AnswersHaveTypes
<1> QED
  BY <1>1, <1>2, <1>3, CallHasTypes DEF TypeOK

\* The variables have their types, whatever the PLC answers and however its answers are cut: what
\* lies on the wire are answers, a read's results are missing, failed or stretches of the PLC's
\* memory, and what a call has counted is never negative (s7/client.go, s7/transport.go).
THEOREM TypesHold == Spec => []TypeOK
  BY TypeInvariant, TypesOfInv, PTL

=============================================================================
