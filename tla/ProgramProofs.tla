---------------------------- MODULE ProgramProofs ----------------------------
(***************************************************************************)
(* Theorems about Program: whichever processes are started, interleaved    *)
(* and killed, what is printed answers every request from one base, and a  *)
(* whole base is answered without undefined behaviour.                     *)
(***************************************************************************)
EXTENDS Program, Integers, FiniteSetTheorems, TLAPS

AnyBase == Bases \cup {NoBase}
FileType == [exists : BOOLEAN, fields : Seq(AnyBase), torn : BOOLEAN]
MakerType == [pc : {"idle", "load", "opened"}, base : AnyBase]
AnyRequest == UNION {Elements(query.stat_requests) : query \in Queries}
AnswerType ==
  {[id |-> r.id, type |-> r.type, found |-> f] : r \in AnyRequest, f \in BOOLEAN}
ReaderType ==
  [pc : {"idle", "load", "reading", "read", "answering", "printed", "thrown", "undefined"},
   query : Queries \cup {<< >>}, next : Nat \ {0}, result : Seq(AnswerType),
   catalogue_ : AnyBase, map_render_ : AnyBase, router_ : AnyBase, null : BOOLEAN,
   loaded : FileType, cut : BOOLEAN]

TypeOK ==
  /\ base_file \in FileType
  /\ maker \in MakerType
  /\ reader \in ReaderType
  /\ reader.pc # "idle" => reader.query \in Queries

(* The fields are of one base, and all three are there only if make_base   *)
(* has written it to the end.                                              *)
OneBase(fields, done) ==
  /\ \A i, j \in DOMAIN fields : fields[i] = fields[j]
  /\ Len(fields) >= 3 => fields[3] \in done

(* While make_base writes, the base it writes is the one in the file.      *)
FileFromOneBase ==
  /\ OneBase(base_file.fields, completed)
  /\ maker.pc = "opened" =>
       /\ Len(base_file.fields) < 3
       /\ \A i \in DOMAIN base_file.fields : base_file.fields[i] = maker.base

(* What was read so far of a file nobody truncated is what is in it.       *)
ReadsAPrefix ==
  reader.pc = "reading" /\ ~reader.cut =>
    /\ Len(reader.loaded.fields) <= Len(base_file.fields)
    /\ \A i \in DOMAIN reader.loaded.fields : reader.loaded.fields[i] = base_file.fields[i]

ReadFromOneBase == ~reader.cut => OneBase(reader.loaded.fields, completed)

NothingLoaded ==
  /\ reader.catalogue_ = NoBase /\ reader.map_render_ = NoBase
  /\ reader.router_ = NoBase /\ reader.null

FileLoaded ==
  /\ reader.map_render_ = Field(reader.loaded, 1)
  /\ reader.catalogue_ = Field(reader.loaded, 2)
  /\ reader.router_ = Field(reader.loaded, 3)

LoadedFromFile ==
  /\ reader.pc = "load" => reader.loaded.fields = << >>
  /\ reader.pc \in {"load", "reading", "read"} =>
       NothingLoaded /\ reader.next = 1 /\ reader.result = << >>
  /\ reader.pc \in {"answering", "printed"} =>
       IF Parses(reader.loaded) THEN FileLoaded /\ ~reader.null ELSE NothingLoaded

(* The requests before the next one are answered, as the catalogue says.   *)
AnsweredSoFar ==
  reader.pc \in {"answering", "printed"} /\ ~reader.cut =>
    /\ Len(reader.result) = Cardinality(AskedBy(reader.next - 1))
    /\ \A i \in Asked : i < reader.next =>
         /\ reader.result[Cardinality(AskedBy(i))] = Says(reader.catalogue_, Requests[i])
         /\ Requests[i].type = "Route" => reader.catalogue_ \in completed

AllAnswered == reader.pc = "printed" => reader.next > Len(Requests)

PInv ==
  /\ TypeOK /\ FileFromOneBase /\ ReadsAPrefix /\ ReadFromOneBase
  /\ LoadedFromFile /\ AnsweredSoFar /\ AllAnswered /\ UndefinedOnlyWithoutBase

-----------------------------------------------------------------------------
LEMMA Empty == << >> \in Seq(AnyBase) /\ << >> \in Seq(AnswerType) /\ DOMAIN << >> = {} /\ Len(<< >>) = 0
OBVIOUS

LEMMA FileFields ==
  ASSUME NEW exists \in BOOLEAN, NEW fields \in Seq(AnyBase), NEW torn \in BOOLEAN
  PROVE  /\ File(exists, fields, torn) \in FileType
         /\ File(exists, fields, torn).exists = exists
         /\ File(exists, fields, torn).fields = fields
         /\ File(exists, fields, torn).torn = torn
BY DEF File, FileType

LEMMA NoReaderFields ==
  /\ NoReader \in ReaderType /\ NoReader.pc = "idle" /\ NoReader.loaded.fields = << >>
  /\ ~NoReader.cut /\ NoReader.next = 1 /\ NoReader.result = << >>
  /\ NoReader.catalogue_ = NoBase /\ NoReader.map_render_ = NoBase
  /\ NoReader.router_ = NoBase /\ NoReader.null
<1>1. File(FALSE, << >>, FALSE) \in FileType /\ File(FALSE, << >>, FALSE).fields = << >>
  BY FileFields, Empty
<1>2. NoBase \in AnyBase
  BY DEF AnyBase
<1>3. /\ NoReader.pc = "idle" /\ NoReader.loaded.fields = << >>
      /\ NoReader.next = 1 /\ NoReader.result = << >>
      /\ NoReader.catalogue_ = NoBase /\ NoReader.map_render_ = NoBase
      /\ NoReader.router_ = NoBase
  BY <1>1 DEF NoReader
<1>4. ~NoReader.cut /\ NoReader.null
  BY DEF NoReader
<1>5. NoReader \in ReaderType
  <2>1. PICK nothing, file : nothing = << >> /\ file = File(FALSE, << >>, FALSE)
    OBVIOUS
  <2>2. NoReader = [pc |-> "idle", query |-> nothing, next |-> 1, result |-> nothing,
                    catalogue_ |-> NoBase, map_render_ |-> NoBase, router_ |-> NoBase,
                    null |-> TRUE, loaded |-> file, cut |-> FALSE]
    BY <2>1, Zenon DEF NoReader
  <2>3. /\ nothing \in Seq(AnswerType) /\ nothing \in Queries \cup {<< >>}
        /\ file \in FileType
    BY <1>1, <2>1, Empty
  <2> HIDE DEF NoBase
  <2> QED BY <1>2, <2>2, <2>3 DEF ReaderType
<1> QED BY <1>3, <1>4, <1>5

LEMMA OneBaseEmpty == \A done : OneBase(<< >>, done)
BY Empty DEF OneBase

LEMMA OneBaseGrows ==
  ASSUME NEW fields \in Seq(AnyBase), NEW done, NEW more, OneBase(fields, done), done \subseteq more
  PROVE  OneBase(fields, more)
BY DEF OneBase

LEMMA InitHolds == Init => PInv
<1> SUFFICES ASSUME Init PROVE PInv
  OBVIOUS
<1>1. /\ base_file \in FileType /\ base_file.fields = << >>
  BY FileFields, Empty DEF Init
<1>2. maker \in MakerType /\ maker.pc = "idle"
  BY DEF Init, MakerType, AnyBase
<1>3. reader = NoReader
  BY DEF Init
<1> QED BY <1>1, <1>2, <1>3, NoReaderFields, OneBaseEmpty
        DEF PInv, TypeOK, FileFromOneBase, ReadsAPrefix, ReadFromOneBase, LoadedFromFile,
            AnsweredSoFar, AllAnswered, UndefinedOnlyWithoutBase

-----------------------------------------------------------------------------
(* The steps of make_base leave the reader, but for the flag, and only add *)
(* to what was completed.                                                  *)
ReaderPart == ReadFromOneBase /\ LoadedFromFile /\ AnsweredSoFar /\ AllAnswered
                /\ UndefinedOnlyWithoutBase

LEMMA ReaderStays ==
  ASSUME PInv, reader' = reader, completed \subseteq completed'
  PROVE  ReaderPart'
<1>1. reader.loaded.fields \in Seq(AnyBase)
  BY DEF PInv, TypeOK, ReaderType, FileType
<1>2. ReadFromOneBase'
  BY <1>1, OneBaseGrows DEF PInv, ReadFromOneBase
<1>3. LoadedFromFile'
  BY DEF PInv, LoadedFromFile, NothingLoaded, FileLoaded
<1>4. AnsweredSoFar'
  BY DEF PInv, AnsweredSoFar, Asked, AskedBy, Requests
<1>5. AllAnswered' /\ UndefinedOnlyWithoutBase'
  BY DEF PInv, AllAnswered, UndefinedOnlyWithoutBase, Requests, Request
<1> QED BY <1>2, <1>3, <1>4, <1>5 DEF ReaderPart

LEMMA StartMakeBaseKeeps ==
  ASSUME PInv, NEW base \in Bases, StartMakeBase(base)
  PROVE  PInv'
<1>1. /\ maker' \in MakerType /\ maker'.pc = "load"
      /\ UNCHANGED <<base_file, reader, completed>>
  BY DEF StartMakeBase, MakerType, AnyBase
<1>2. TypeOK' /\ FileFromOneBase' /\ ReadsAPrefix'
  BY <1>1 DEF PInv, TypeOK, FileFromOneBase, ReadsAPrefix
<1> QED BY <1>1, <1>2, ReaderStays DEF PInv, ReaderPart

LEMMA MakerEndsKeeps ==
  ASSUME PInv, MakerEnds
  PROVE  PInv'
<1>1. /\ maker' \in MakerType /\ maker'.pc = "idle"
      /\ UNCHANGED <<base_file, reader, completed>>
  BY DEF MakerEnds, MakerType, PInv, TypeOK
<1>2. TypeOK' /\ FileFromOneBase' /\ ReadsAPrefix'
  BY <1>1 DEF PInv, TypeOK, FileFromOneBase, ReadsAPrefix
<1> QED BY <1>1, <1>2, ReaderStays DEF PInv, ReaderPart

LEMMA WritePartKeeps ==
  ASSUME PInv, WritePart
  PROVE  PInv'
<1>1. /\ base_file' \in FileType /\ base_file'.fields = base_file.fields
      /\ UNCHANGED <<maker, reader, completed>>
  BY DEF WritePart, FileType, PInv, TypeOK
<1>2. TypeOK' /\ FileFromOneBase' /\ ReadsAPrefix'
  BY <1>1 DEF PInv, TypeOK, FileFromOneBase, ReadsAPrefix
<1> QED BY <1>1, <1>2, ReaderStays DEF PInv, ReaderPart

LEMMA WriteRestKeeps ==
  ASSUME PInv, WriteRest
  PROVE  PInv'
<1> DEFINE fields == base_file.fields
           new == Append(fields, maker.base)
<1>1. /\ fields \in Seq(AnyBase) /\ maker.base \in AnyBase /\ Len(fields) < 3
      /\ \A i \in DOMAIN fields : fields[i] = maker.base
  BY DEF WriteRest, PInv, TypeOK, FileType, MakerType, FileFromOneBase
<1>2. /\ new \in Seq(AnyBase) /\ Len(new) = Len(fields) + 1
      /\ \A i \in DOMAIN fields : i \in DOMAIN new /\ new[i] = fields[i]
      /\ \A i \in DOMAIN new : new[i] = maker.base
      /\ Len(new) >= 3 => 3 \in DOMAIN new
  BY <1>1
<1>3. base_file' \in FileType /\ base_file'.fields = new
  BY <1>2, FileFields DEF WriteRest
<1>4. /\ maker' \in MakerType
      /\ maker'.pc = "opened" => Len(new) < 3 /\ maker'.base = maker.base
      /\ Len(new) >= 3 => maker.base \in completed'
      /\ completed \subseteq completed' /\ reader' = reader
  <2>1. maker \in MakerType /\ maker.pc = "opened" /\ reader' = reader
    BY DEF WriteRest, PInv, TypeOK
  <2>2. CASE Len(new) < 3
    <3>1. UNCHANGED <<maker, completed>>
      BY <1>3, <2>2, Zenon DEF WriteRest
    <3> QED BY <1>2, <2>1, <2>2, <3>1
  <2>3. CASE ~(Len(new) < 3)
    <3>1. maker' = [maker EXCEPT !.pc = "idle"] /\ completed' = completed \cup {maker.base}
      BY <1>3, <2>3 DEF WriteRest
    <3>2. maker' \in MakerType /\ maker'.pc = "idle"
      BY <2>1, <3>1 DEF MakerType
    <3> QED BY <2>1, <3>1, <3>2
  <2> QED BY <2>2, <2>3
<1> HIDE DEF new
<1>5. TypeOK'
  BY <1>3, <1>4 DEF PInv, TypeOK
<1>6. FileFromOneBase'
  BY <1>2, <1>3, <1>4 DEF FileFromOneBase, OneBase
<1>7. ReadsAPrefix'
  <2>1. reader.loaded.fields \in Seq(AnyBase)
    BY DEF PInv, TypeOK, ReaderType, FileType
  <2> QED BY <1>1, <1>2, <1>3, <1>4, <2>1 DEF PInv, ReadsAPrefix
<1> QED BY <1>4, <1>5, <1>6, <1>7, ReaderStays DEF PInv, ReaderPart

(* Truncating the file under a reader sets its flag.                       *)
LEMMA OpenBaseKeeps ==
  ASSUME PInv, OpenBase
  PROVE  PInv'
<1>1. /\ base_file' \in FileType /\ base_file'.fields = << >>
  BY FileFields, Empty DEF OpenBase
<1>2. maker' \in MakerType
  BY DEF OpenBase, PInv, TypeOK, MakerType
<1>3. reader \in ReaderType
  BY DEF PInv, TypeOK
<1>4. /\ reader' \in ReaderType
      /\ reader'.pc = reader.pc /\ reader'.query = reader.query /\ reader'.next = reader.next
      /\ reader'.result = reader.result /\ reader'.catalogue_ = reader.catalogue_
      /\ reader'.map_render_ = reader.map_render_ /\ reader'.router_ = reader.router_
      /\ reader'.null = reader.null /\ reader'.loaded = reader.loaded
      /\ reader.cut => reader'.cut
      /\ reader.pc = "reading" => reader'.cut
      /\ UNCHANGED completed
  BY <1>3 DEF OpenBase, ReaderType
<1>5. TypeOK'
  BY <1>1, <1>2, <1>4 DEF PInv, TypeOK
<1>6. FileFromOneBase'
  BY <1>1, Empty, OneBaseEmpty DEF FileFromOneBase
<1>7. ReadsAPrefix' /\ ReadFromOneBase'
  BY <1>4 DEF PInv, ReadsAPrefix, ReadFromOneBase
<1>8. LoadedFromFile' /\ AllAnswered'
  BY <1>4 DEF PInv, LoadedFromFile, NothingLoaded, FileLoaded, AllAnswered, Requests
<1>9. AnsweredSoFar'
  BY <1>4 DEF PInv, AnsweredSoFar, Asked, AskedBy, Requests
<1>10. UndefinedOnlyWithoutBase'
  BY <1>4 DEF PInv, UndefinedOnlyWithoutBase, Request, Requests
<1> QED BY <1>5, <1>6, <1>7, <1>8, <1>9, <1>10 DEF PInv

-----------------------------------------------------------------------------
(* The steps of process_requests leave the file and what was completed.    *)
OthersStay == UNCHANGED <<base_file, maker, completed>>

LEMMA FileSideStays ==
  ASSUME PInv, OthersStay
  PROVE  FileFromOneBase' /\ base_file' \in FileType /\ maker' \in MakerType
BY DEF PInv, TypeOK, OthersStay, FileFromOneBase

LEMMA ReaderKilledKeeps ==
  ASSUME PInv, ReaderKilled
  PROVE  PInv'
<1>1. reader' = NoReader /\ OthersStay
  BY DEF ReaderKilled, OthersStay
<1> QED BY <1>1, FileSideStays, NoReaderFields, OneBaseEmpty
        DEF PInv, TypeOK, ReadsAPrefix, ReadFromOneBase, LoadedFromFile,
            AnsweredSoFar, AllAnswered, UndefinedOnlyWithoutBase

LEMMA StartProcessRequestsKeeps ==
  ASSUME PInv, NEW query \in Queries, StartProcessRequests(query)
  PROVE  PInv'
<1>1. reader' = [NoReader EXCEPT !.pc = "load", !.query = query] /\ OthersStay
  BY DEF StartProcessRequests, OthersStay
<1>2. /\ reader' \in ReaderType /\ reader'.pc = "load" /\ reader'.query = query
      /\ reader'.next = NoReader.next /\ reader'.result = NoReader.result
      /\ reader'.catalogue_ = NoReader.catalogue_ /\ reader'.map_render_ = NoReader.map_render_
      /\ reader'.router_ = NoReader.router_ /\ reader'.null = NoReader.null
      /\ reader'.loaded = NoReader.loaded
  <2> HIDE DEF NoReader
  <2> QED BY <1>1, NoReaderFields DEF ReaderType
<1>3. reader'.loaded.fields = << >>
  BY <1>2, NoReaderFields
<1>4. LoadedFromFile'
  BY <1>2, NoReaderFields DEF LoadedFromFile, NothingLoaded
<1> QED BY <1>1, <1>2, <1>3, <1>4, FileSideStays, OneBaseEmpty
        DEF PInv, TypeOK, ReadsAPrefix, ReadFromOneBase,
            AnsweredSoFar, AllAnswered, UndefinedOnlyWithoutBase

(* An exception or something undefined ends the process with what it had.  *)
LEMMA FailKeeps ==
  ASSUME PInv, OthersStay, reader.pc # "idle", NEW how \in {"thrown", "undefined"},
         reader' = [reader EXCEPT !.pc = how],
         how = "undefined" =>
           LET base == reader.loaded.fields IN
           \/ Parses(reader.loaded) /\ (Len(base) = 0 \/ reader.cut)
           \/ ~Parses(reader.loaded) /\ Request.type = "Route"
           \/ Len(base) > 1 /\ base[2].stopless # {}
           \/ Len(base) > 1 /\ ~base[1].palette
  PROVE  PInv'
<1>1. reader \in ReaderType
  BY DEF PInv, TypeOK
<1>2. /\ reader' \in ReaderType /\ reader'.pc = how /\ reader'.query = reader.query
      /\ reader'.next = reader.next /\ reader'.loaded = reader.loaded
      /\ reader'.cut = reader.cut
  BY <1>1 DEF ReaderType
<1>3. TypeOK'
  BY <1>2, FileSideStays DEF PInv, TypeOK
<1>4. ReadsAPrefix' /\ ReadFromOneBase' /\ LoadedFromFile' /\ AnsweredSoFar' /\ AllAnswered'
  BY <1>2 DEF PInv, OthersStay, ReadsAPrefix, ReadFromOneBase, LoadedFromFile,
              AnsweredSoFar, AllAnswered
<1>5. UndefinedOnlyWithoutBase'
  BY <1>2 DEF UndefinedOnlyWithoutBase, Request, Requests
<1> QED BY <1>3, <1>4, <1>5, FileSideStays DEF PInv

LEMMA OpenToReadKeeps ==
  ASSUME PInv, OpenToRead
  PROVE  PInv'
<1>1. OthersStay /\ reader.pc = "load"
  BY DEF OpenToRead, OthersStay
<1>2. CASE reader.query.missing = "serialization_settings"
  <2>1. reader' = [reader EXCEPT !.pc = "thrown"]
    BY <1>2 DEF OpenToRead
  <2> QED BY <1>1, <2>1, FailKeeps
<1>3. CASE reader.query.missing # "serialization_settings"
  <2>1. reader' = [reader EXCEPT !.pc = "reading", !.loaded.exists = base_file.exists]
    BY <1>3 DEF OpenToRead
  <2>2. reader \in ReaderType /\ reader.loaded \in FileType /\ base_file.exists \in BOOLEAN
    BY DEF PInv, TypeOK, ReaderType, FileType
  <2>3. /\ reader' \in ReaderType /\ reader'.pc = "reading" /\ reader'.query = reader.query
        /\ reader'.next = reader.next /\ reader'.result = reader.result
        /\ reader'.catalogue_ = reader.catalogue_ /\ reader'.map_render_ = reader.map_render_
        /\ reader'.router_ = reader.router_ /\ reader'.null = reader.null
        /\ reader'.loaded.fields = reader.loaded.fields /\ reader'.cut = reader.cut
    BY <2>1, <2>2 DEF ReaderType, FileType
  <2>4. TypeOK'
    BY <1>1, <2>3, FileSideStays DEF PInv, TypeOK
  <2>5. reader.loaded.fields = << >> /\ Len(base_file.fields) \in Nat
    BY <1>1 DEF PInv, TypeOK, FileType, LoadedFromFile
  <2>6. ReadsAPrefix' /\ ReadFromOneBase'
    BY <1>1, <2>3, <2>5, Empty, OneBaseEmpty DEF ReadsAPrefix, ReadFromOneBase, OthersStay
  <2>7. LoadedFromFile'
    BY <1>1, <2>3 DEF PInv, LoadedFromFile, NothingLoaded
  <2> QED BY <2>3, <2>4, <2>6, <2>7, FileSideStays, <1>1
          DEF PInv, AnsweredSoFar, AllAnswered, UndefinedOnlyWithoutBase
<1> QED BY <1>2, <1>3

(* A field read at the end of a prefix makes a prefix that is longer.      *)
LEMMA ReadFieldKeeps ==
  ASSUME PInv, ReadField
  PROVE  PInv'
<1> DEFINE was == reader.loaded.fields
           field == IF reader.cut THEN maker.base ELSE base_file.fields[Place]
           new == Append(was, field)
<1>1. /\ OthersStay /\ reader.pc = "reading"
      /\ reader.cut \/ Place <= Len(base_file.fields)
      /\ reader' = [reader EXCEPT !.loaded.fields = new]
  BY DEF ReadField, OthersStay
<1>2. /\ reader \in ReaderType /\ reader.loaded \in FileType /\ was \in Seq(AnyBase)
      /\ base_file.fields \in Seq(AnyBase) /\ maker.base \in AnyBase
  BY DEF PInv, TypeOK, ReaderType, FileType, MakerType
<1>3. field \in AnyBase /\ Place = Len(was) + 1 /\ Len(was) \in Nat
  BY <1>1, <1>2 DEF Place
<1> HIDE DEF field
<1>4. /\ new \in Seq(AnyBase) /\ Len(new) = Len(was) + 1
      /\ \A i \in DOMAIN new :
           \/ i \in DOMAIN was /\ new[i] = was[i]
           \/ i = Len(was) + 1 /\ new[i] = field
  <2> HIDE DEF was
  <2> QED BY <1>2, <1>3
<1> HIDE DEF was, new
<1>5. /\ reader' \in ReaderType /\ reader'.pc = "reading" /\ reader'.query = reader.query
      /\ reader'.next = reader.next /\ reader'.result = reader.result
      /\ reader'.catalogue_ = reader.catalogue_ /\ reader'.map_render_ = reader.map_render_
      /\ reader'.router_ = reader.router_ /\ reader'.null = reader.null
      /\ reader'.loaded.fields = new /\ reader'.cut = reader.cut
  BY <1>1, <1>2, <1>4 DEF ReaderType, FileType
<1>6. TypeOK'
  BY <1>1, <1>5, FileSideStays DEF PInv, TypeOK
<1>7. ReadsAPrefix'
  <2>1. ASSUME ~reader.cut
        PROVE  /\ Len(new) <= Len(base_file.fields)
               /\ \A i \in DOMAIN new : new[i] = base_file.fields[i]
    BY <1>1, <1>2, <1>3, <1>4, <2>1 DEF PInv, ReadsAPrefix, was, field
  <2> QED BY <1>1, <1>5, <2>1 DEF ReadsAPrefix, OthersStay
<1>8. ReadFromOneBase'
  <2>1. ASSUME ~reader.cut
        PROVE  OneBase(new, completed)
    <3>1. /\ OneBase(base_file.fields, completed) /\ base_file.fields \in Seq(AnyBase)
          /\ Len(new) <= Len(base_file.fields)
          /\ \A i \in DOMAIN new : new[i] = base_file.fields[i]
      BY <1>1, <1>2, <1>5, <1>7, <2>1 DEF PInv, FileFromOneBase, ReadsAPrefix, OthersStay
    <3> QED BY <1>4, <3>1 DEF OneBase
  <2> QED BY <1>1, <1>5, <2>1 DEF ReadFromOneBase, OthersStay
<1>9. LoadedFromFile'
  BY <1>1, <1>5 DEF PInv, LoadedFromFile, NothingLoaded
<1> QED BY <1>1, <1>5, <1>6, <1>7, <1>8, <1>9, FileSideStays
        DEF PInv, AnsweredSoFar, AllAnswered, UndefinedOnlyWithoutBase

LEMMA EndOfFileKeeps ==
  ASSUME PInv, EndOfFile
  PROVE  PInv'
<1>1. PICK torn \in BOOLEAN : reader' = [reader EXCEPT !.pc = "read", !.loaded.torn = torn]
  BY DEF EndOfFile
<1>2. OthersStay /\ reader.pc = "reading"
  BY DEF EndOfFile, OthersStay
<1>3. reader \in ReaderType /\ reader.loaded \in FileType
  BY DEF PInv, TypeOK, ReaderType
<1>4. /\ reader' \in ReaderType /\ reader'.pc = "read" /\ reader'.query = reader.query
      /\ reader'.next = reader.next /\ reader'.result = reader.result
      /\ reader'.catalogue_ = reader.catalogue_ /\ reader'.map_render_ = reader.map_render_
      /\ reader'.router_ = reader.router_ /\ reader'.null = reader.null
      /\ reader'.loaded.fields = reader.loaded.fields /\ reader'.cut = reader.cut
  BY <1>1, <1>3 DEF ReaderType, FileType
<1>5. TypeOK'
  BY <1>2, <1>4, FileSideStays DEF PInv, TypeOK
<1>6. ReadFromOneBase'
  BY <1>2, <1>4 DEF PInv, ReadFromOneBase, OthersStay
<1>7. LoadedFromFile'
  BY <1>2, <1>4 DEF PInv, LoadedFromFile, NothingLoaded
<1> QED BY <1>2, <1>4, <1>5, <1>6, <1>7, FileSideStays
        DEF PInv, ReadsAPrefix, AnsweredSoFar, AllAnswered, UndefinedOnlyWithoutBase

-----------------------------------------------------------------------------
(* How many requests of a known type there are up to each.                 *)
LEMMA AskedCounts ==
  ASSUME TypeOK, reader.pc # "idle"
  PROVE  /\ Len(Requests) \in Nat /\ DOMAIN Requests = 1 .. Len(Requests)
         /\ \A i \in DOMAIN Requests : Requests[i] \in AnyRequest
         /\ \A i \in Int : IsFiniteSet(AskedBy(i)) /\ Cardinality(AskedBy(i)) \in Nat
         /\ AskedBy(0) = {} /\ AskedBy(Len(Requests)) = Asked
         /\ \A i, k \in Int : i <= k => Cardinality(AskedBy(i)) <= Cardinality(AskedBy(k))
         /\ \A i \in Nat \ {0} :
              IF i \in Asked THEN Cardinality(AskedBy(i)) = Cardinality(AskedBy(i - 1)) + 1
                             ELSE AskedBy(i) = AskedBy(i - 1)
<1>1. reader.query \in Queries /\ Requests \in Seq(Elements(Requests))
  BY ProgramAssumption DEF TypeOK, Requests, IsSequence
<1>2. Len(Requests) \in Nat /\ DOMAIN Requests = 1 .. Len(Requests)
  BY <1>1
<1>3. \A i \in DOMAIN Requests : Requests[i] \in AnyRequest
  BY <1>1 DEF AnyRequest, Elements, Requests
<1>4. \A i \in Asked : i \in Nat /\ i >= 1 /\ i <= Len(Requests)
  BY <1>2 DEF Asked
<1>5. IsFiniteSet(Asked)
  <2>1. IsFiniteSet(1 .. Len(Requests))
    BY <1>2, FS_Interval
  <2>2. Asked \in SUBSET (1 .. Len(Requests))
    BY <1>2 DEF Asked
  <2> QED BY <2>1, <2>2, FS_Subset
<1>6. \A i \in Int : IsFiniteSet(AskedBy(i)) /\ Cardinality(AskedBy(i)) \in Nat
  <2> SUFFICES ASSUME NEW i \in Int
               PROVE  IsFiniteSet(AskedBy(i)) /\ Cardinality(AskedBy(i)) \in Nat
    OBVIOUS
  <2>1. AskedBy(i) \in SUBSET Asked
    BY DEF AskedBy
  <2>2. IsFiniteSet(AskedBy(i))
    BY <1>5, <2>1, FS_Subset
  <2> QED BY <2>2, FS_CardinalityType
<1>7. AskedBy(0) = {} /\ AskedBy(Len(Requests)) = Asked
  BY <1>2, <1>4 DEF AskedBy
<1>8. ASSUME NEW i \in Int, NEW k \in Int, i <= k
      PROVE  Cardinality(AskedBy(i)) <= Cardinality(AskedBy(k))
  <2>1. AskedBy(i) \in SUBSET AskedBy(k)
    BY <1>4, <1>8 DEF AskedBy
  <2> QED BY <1>6, <2>1, FS_Subset
<1>9. ASSUME NEW i \in Nat \ {0}
      PROVE  IF i \in Asked THEN Cardinality(AskedBy(i)) = Cardinality(AskedBy(i - 1)) + 1
                            ELSE AskedBy(i) = AskedBy(i - 1)
  <2>1. CASE i \in Asked
    <3>1. (\A j \in Asked : j <= i <=> j <= i - 1 \/ j = i) /\ ~(i <= i - 1) /\ i <= i
      BY <1>4
    <3>2. AskedBy(i) = AskedBy(i - 1) \cup {i} /\ i \notin AskedBy(i - 1)
      <4>1. ASSUME NEW j PROVE j \in AskedBy(i) <=> j \in AskedBy(i - 1) \cup {i}
        BY <2>1, <3>1, Zenon DEF AskedBy
      <4>2. i \notin AskedBy(i - 1)
        BY <3>1, Zenon DEF AskedBy
      <4> QED BY <4>1, <4>2
    <3>3. IsFiniteSet(AskedBy(i - 1))
      BY <1>6
    <3> QED BY <2>1, <3>2, <3>3, FS_AddElement
  <2>2. CASE i \notin Asked
    <3>1. AskedBy(i) = AskedBy(i - 1)
      BY <1>4, <2>2 DEF AskedBy
    <3> QED BY <2>2, <3>1
  <2> QED BY <2>1, <2>2
<1> QED BY <1>2, <1>3, <1>6, <1>7, <1>8, <1>9

-----------------------------------------------------------------------------
LEMMA FieldType ==
  ASSUME NEW file \in FileType, NEW i \in Nat \ {0}
  PROVE  Field(file, i) \in AnyBase
<1>1. file.fields \in Seq(AnyBase)
  BY DEF FileType
<1>2. NoBase \in AnyBase
  BY DEF AnyBase
<1> HIDE DEF AnyBase, NoBase
<1> QED BY <1>1, <1>2 DEF Field

(* What Deserialization makes of a process that has read the file.         *)
LEMMA DeserializationFields ==
  ASSUME PInv, reader.pc = "read", NEW r, r = Deserialization(reader)
  PROVE  /\ r \in ReaderType /\ r.pc = "read" /\ r.query = reader.query
         /\ r.next = 1 /\ r.result = << >>
         /\ r.loaded = reader.loaded /\ r.cut = reader.cut
         /\ IF Parses(reader.loaded)
              THEN /\ r.map_render_ = Field(reader.loaded, 1)
                   /\ r.catalogue_ = Field(reader.loaded, 2)
                   /\ r.router_ = Field(reader.loaded, 3)
                   /\ ~r.null
              ELSE /\ r.catalogue_ = NoBase /\ r.map_render_ = NoBase
                   /\ r.router_ = NoBase /\ r.null
<1>1. /\ reader \in ReaderType /\ reader.loaded \in FileType
      /\ reader.next = 1 /\ reader.result = << >> /\ NothingLoaded
  BY DEF PInv, TypeOK, ReaderType, LoadedFromFile
<1>2. CASE ~Parses(reader.loaded)
  <2>1. r = reader
    BY <1>2 DEF Deserialization
  <2> QED BY <1>1, <1>2, <2>1 DEF NothingLoaded
<1>3. CASE Parses(reader.loaded)
  <2> DEFINE first == Field(reader.loaded, 1)
             second == Field(reader.loaded, 2)
             third == Field(reader.loaded, 3)
  <2>1. first \in AnyBase /\ second \in AnyBase /\ third \in AnyBase
    BY <1>1, FieldType
  <2>2. r = [reader EXCEPT !.map_render_ = first, !.catalogue_ = second,
                           !.router_ = third, !.null = FALSE]
    BY <1>3 DEF Deserialization
  <2> HIDE DEF first, second, third
  <2>3. /\ r \in ReaderType /\ r.pc = "read" /\ r.query = reader.query
        /\ r.next = 1 /\ r.result = << >>
        /\ r.loaded = reader.loaded /\ r.cut = reader.cut
        /\ r.map_render_ = first /\ r.catalogue_ = second /\ r.router_ = third /\ ~r.null
    <3>1. r = [x \in DOMAIN reader |-> IF x = "map_render_" THEN first
                                       ELSE IF x = "catalogue_" THEN second
                                       ELSE IF x = "router_" THEN third
                                       ELSE IF x = "null" THEN FALSE
                                       ELSE reader[x]]
      BY <1>1, <2>2 DEF ReaderType
    <3>2. /\ r.pc = reader.pc /\ r.query = reader.query /\ r.next = reader.next
          /\ r.result = reader.result /\ r.loaded = reader.loaded /\ r.cut = reader.cut
          /\ r.map_render_ = first /\ r.catalogue_ = second /\ r.router_ = third
          /\ r.null = FALSE
      BY <1>1, <3>1 DEF ReaderType
    <3>3. r \in ReaderType
      BY <1>1, <2>1, <2>2 DEF ReaderType
    <3> QED BY <1>1, <3>2, <3>3
  <2> QED BY <1>3, <2>3 DEF first, second, third
<1> QED BY <1>2, <1>3

LEMMA LoadKeeps ==
  ASSUME PInv, Load
  PROVE  PInv'
<1>1. OthersStay /\ reader.pc = "read"
  BY DEF Load, OthersStay
<1> DEFINE r == Deserialization(reader)
<1>2. PICK how \in {"thrown", "answering", "undefined"} :
        /\ reader' = [r EXCEPT !.pc = how]
        /\ how = "undefined" =>
             Parses(reader.loaded) /\ (reader.loaded.fields = << >> \/ reader.cut)
  BY DEF Load
<1>3. /\ r \in ReaderType /\ r.query = reader.query
      /\ r.next = 1 /\ r.result = << >>
      /\ r.loaded = reader.loaded /\ r.cut = reader.cut
      /\ Parses(reader.loaded) =>
           /\ r.map_render_ = Field(reader.loaded, 1)
           /\ r.catalogue_ = Field(reader.loaded, 2)
           /\ r.router_ = Field(reader.loaded, 3)
           /\ ~r.null
      /\ ~Parses(reader.loaded) =>
           /\ r.catalogue_ = NoBase /\ r.map_render_ = NoBase
           /\ r.router_ = NoBase /\ r.null
  BY <1>1, DeserializationFields
<1> HIDE DEF r
<1>4. /\ reader' \in ReaderType /\ reader'.pc = how /\ reader'.query = reader.query
      /\ reader'.next = 1 /\ reader'.result = << >>
      /\ reader'.loaded = reader.loaded /\ reader'.cut = reader.cut
      /\ reader'.catalogue_ = r.catalogue_ /\ reader'.map_render_ = r.map_render_
      /\ reader'.router_ = r.router_ /\ reader'.null = r.null
  BY <1>2, <1>3 DEF ReaderType
<1>5. TypeOK'
  BY <1>1, <1>4, FileSideStays DEF PInv, TypeOK
<1>6. ReadFromOneBase' /\ ReadsAPrefix' /\ AllAnswered'
  BY <1>1, <1>2, <1>4 DEF PInv, ReadFromOneBase, ReadsAPrefix, OthersStay, AllAnswered
<1>7. LoadedFromFile'
  <2>1. Parses(reader'.loaded) <=> Parses(reader.loaded)
    BY <1>4
  <2>2. CASE Parses(reader.loaded)
    BY <1>2, <1>3, <1>4, <2>1, <2>2 DEF LoadedFromFile, FileLoaded
  <2>3. CASE ~Parses(reader.loaded)
    BY <1>2, <1>3, <1>4, <2>1, <2>3 DEF LoadedFromFile, NothingLoaded
  <2> QED BY <2>2, <2>3
<1>8. AnsweredSoFar'
  <2>1. CASE how = "answering"
    <3>1. Requests' = Requests /\ Asked' = Asked
      BY <1>4 DEF Requests, Asked
    <3>2. /\ \A i \in Asked : i \in Nat /\ i >= 1
          /\ AskedBy(0) = {}
      BY <1>1, AskedCounts DEF PInv, Asked
    <3>3. (AskedBy(reader.next - 1))' = {}
      <4>1. reader'.next - 1 = 0
        BY <1>4
      <4> QED BY <3>1, <3>2, <4>1 DEF AskedBy
    <3>4. \A i \in Asked' : ~(i < reader'.next)
      BY <1>4, <3>1, <3>2
    <3>5. Len(reader'.result) = Cardinality((AskedBy(reader.next - 1))')
      BY <1>4, <3>3, FS_EmptySet, Empty
    <3> QED BY <3>4, <3>5, Zenon DEF AnsweredSoFar
  <2> QED BY <1>2, <1>4, <2>1 DEF AnsweredSoFar
<1>9. UndefinedOnlyWithoutBase'
  BY <1>2, <1>4, Empty DEF UndefinedOnlyWithoutBase
<1> QED BY <1>5, <1>6, <1>7, <1>8, <1>9, FileSideStays, <1>1 DEF PInv

-----------------------------------------------------------------------------
LEMMA NextRequest ==
  ASSUME PInv, Answering
  PROVE  /\ reader.next \in DOMAIN Requests /\ Request \in AnyRequest
         /\ reader.next \in Nat \ {0} /\ reader.result \in Seq(AnswerType)
<1>1. reader.next \in Nat \ {0} /\ reader.result \in Seq(AnswerType)
  BY DEF PInv, TypeOK, ReaderType
<1>2. /\ Len(Requests) \in Nat /\ DOMAIN Requests = 1 .. Len(Requests)
      /\ \A i \in DOMAIN Requests : Requests[i] \in AnyRequest
  BY AskedCounts DEF PInv, Answering
<1>3. reader.next \in DOMAIN Requests
  BY <1>1, <1>2 DEF Answering
<1> QED BY <1>1, <1>2, <1>3 DEF Request

(* One more answer, as the catalogue says.                                 *)
LEMMA ResponseKeeps ==
  ASSUME PInv, Answering, OthersStay, NEW found \in BOOLEAN, Response(found),
         Request.type \in {"Bus", "Stop", "Map", "Route"},
         ~reader.cut =>
           /\ [id |-> Request.id, type |-> Request.type, found |-> found]
                = Says(reader.catalogue_, Request)
           /\ Request.type = "Route" => reader.catalogue_ \in completed
  PROVE  PInv'
<1> DEFINE answer == [id |-> Request.id, type |-> Request.type, found |-> found]
           old == reader.result
           new == Append(old, answer)
           n == reader.next
<1>1. /\ reader \in ReaderType /\ reader.pc = "answering" /\ n \in Nat \ {0}
      /\ old \in Seq(AnswerType) /\ n \in DOMAIN Requests /\ Request = Requests[n]
  BY NextRequest DEF PInv, TypeOK, Answering, Request
<1>2. answer \in AnswerType
  BY NextRequest DEF AnswerType
<1>3. reader' = [reader EXCEPT !.result = new, !.next = n + 1]
  BY DEF Response
<1> HIDE DEF answer
<1>4. /\ new \in Seq(AnswerType) /\ Len(new) = Len(old) + 1 /\ Len(old) \in Nat
      /\ new[Len(old) + 1] = answer
      /\ \A i \in 1 .. Len(old) : new[i] = old[i]
  BY <1>1, <1>2
<1> HIDE DEF new
<1>5. /\ reader' \in ReaderType /\ reader'.pc = "answering" /\ reader'.query = reader.query
      /\ reader'.next = n + 1 /\ reader'.result = new
      /\ reader'.loaded = reader.loaded /\ reader'.cut = reader.cut
      /\ reader'.catalogue_ = reader.catalogue_ /\ reader'.map_render_ = reader.map_render_
      /\ reader'.router_ = reader.router_ /\ reader'.null = reader.null
  <2>1. n + 1 \in Nat \ {0}
    BY <1>1
  <2>2. PICK next \in Nat \ {0} : next = n + 1
    BY <2>1
  <2>3. reader' = [reader EXCEPT !.result = new, !.next = next]
    BY <1>3, <2>2
  <2> HIDE DEF n, old
  <2> QED BY <1>1, <1>4, <2>2, <2>3 DEF ReaderType
<1>6. TypeOK'
  BY <1>1, <1>5, FileSideStays DEF PInv, TypeOK
<1>7. ReadsAPrefix' /\ ReadFromOneBase' /\ AllAnswered' /\ UndefinedOnlyWithoutBase'
  BY <1>5 DEF PInv, ReadsAPrefix, ReadFromOneBase, AllAnswered, UndefinedOnlyWithoutBase,
              OthersStay
<1>8. LoadedFromFile'
  BY <1>1, <1>5 DEF PInv, LoadedFromFile, NothingLoaded, FileLoaded
<1>9. AnsweredSoFar'
  <2> SUFFICES ASSUME ~reader.cut
               PROVE  /\ Len(new) = Cardinality(AskedBy(n))
                      /\ \A i \in Asked : i < n + 1 =>
                           /\ new[Cardinality(AskedBy(i))] = Says(reader.catalogue_, Requests[i])
                           /\ Requests[i].type = "Route" => reader.catalogue_ \in completed
    <3>1. Requests' = Requests /\ Asked' = Asked
      BY <1>5 DEF Requests, Asked
    <3>2. \A i : (AskedBy(i))' = AskedBy(i)
      BY <3>1 DEF AskedBy
    <3>3. (AskedBy(reader.next - 1))' = AskedBy(n)
      <4>1. reader'.next - 1 = n
        BY <1>1, <1>5
      <4> QED BY <3>1, <4>1 DEF AskedBy
    <3>4. completed' = completed
      BY DEF OthersStay
    <3> QED BY <1>5, <3>1, <3>2, <3>3, <3>4 DEF AnsweredSoFar
  <2>1. n \in Asked
    BY <1>1 DEF Asked
  <2>2. /\ Len(old) = Cardinality(AskedBy(n - 1))
        /\ \A i \in Asked : i < n =>
             /\ old[Cardinality(AskedBy(i))] = Says(reader.catalogue_, Requests[i])
             /\ Requests[i].type = "Route" => reader.catalogue_ \in completed
    BY <1>1 DEF PInv, AnsweredSoFar
  <2>3. Cardinality(AskedBy(n)) = Len(old) + 1
    BY <1>1, <2>1, <2>2, AskedCounts DEF PInv
  <2> HIDE DEF n, old
  <2>4. \A i \in Asked : i \in Nat \ {0}
    <3>1. Len(Requests) \in Nat /\ DOMAIN Requests = 1 .. Len(Requests)
      BY <1>1, AskedCounts DEF PInv
    <3> QED BY <3>1 DEF Asked
  <2>5. \A i, k \in Int : i <= k => Cardinality(AskedBy(i)) <= Cardinality(AskedBy(k))
    BY <1>1, AskedCounts DEF PInv
  <2>6. \A i \in Asked : /\ Cardinality(AskedBy(i)) = Cardinality(AskedBy(i - 1)) + 1
                          /\ Cardinality(AskedBy(i - 1)) \in Nat
    <3>1. \A i \in Asked : i - 1 \in Int
      BY <2>4
    <3> QED BY <1>1, <2>4, <3>1, AskedCounts DEF PInv
  <2>7. ASSUME NEW i \in Asked, i < n
        PROVE  Cardinality(AskedBy(i)) \in 1 .. Len(old)
    <3>1. i \in Nat \ {0} /\ i <= n - 1 /\ i - 1 \in Int /\ n - 1 \in Int
      BY <1>1, <2>7, <2>4
    <3>2. /\ Cardinality(AskedBy(i)) = Cardinality(AskedBy(i - 1)) + 1
          /\ Cardinality(AskedBy(i - 1)) \in Nat
          /\ Cardinality(AskedBy(i)) <= Cardinality(AskedBy(n - 1))
      BY <3>1, <2>5, <2>6
    <3> QED BY <1>4, <2>2, <3>2
  <2>8. ASSUME NEW i \in Asked, i < n + 1
        PROVE  /\ new[Cardinality(AskedBy(i))] = Says(reader.catalogue_, Requests[i])
               /\ Requests[i].type = "Route" => reader.catalogue_ \in completed
    <3>1. i = n \/ i < n
      BY <1>1, <2>8, <2>4
    <3>2. CASE i = n
      BY <1>1, <1>4, <2>3, <3>2 DEF answer
    <3>3. CASE i < n
      BY <1>4, <2>2, <2>7, <3>3
    <3> QED BY <3>1, <3>2, <3>3
  <2> QED BY <1>4, <2>3, <2>8
<1> QED BY <1>6, <1>7, <1>8, <1>9, FileSideStays DEF PInv

(* A base that knows anything is the one that was read.                    *)
LEMMA WhatWasLoaded ==
  ASSUME PInv, reader.pc = "answering"
  PROVE  /\ ~Parses(reader.loaded) =>
              reader.catalogue_ = NoBase /\ reader.map_render_ = NoBase /\ reader.null
         /\ Parses(reader.loaded) => ~reader.null
         /\ reader.catalogue_ # NoBase =>
              /\ Len(reader.loaded.fields) > 1
              /\ reader.catalogue_ = reader.loaded.fields[2]
              /\ reader.map_render_ = reader.loaded.fields[1]
         /\ reader.router_ # NoBase /\ ~reader.cut =>
              reader.router_ = reader.catalogue_ /\ reader.catalogue_ \in completed
<1>1. IF Parses(reader.loaded) THEN FileLoaded /\ ~reader.null ELSE NothingLoaded
  BY DEF PInv, LoadedFromFile
<1>2. CASE ~Parses(reader.loaded)
  BY <1>1, <1>2 DEF NothingLoaded
<1>3. CASE Parses(reader.loaded)
  <2> DEFINE fields == reader.loaded.fields
  <2>1. fields \in Seq(AnyBase) /\ Len(fields) \in Nat
    BY DEF PInv, TypeOK, ReaderType, FileType
  <2>2. /\ reader.map_render_ = IF 1 <= Len(fields) THEN fields[1] ELSE NoBase
        /\ reader.catalogue_ = IF 2 <= Len(fields) THEN fields[2] ELSE NoBase
        /\ reader.router_ = IF 3 <= Len(fields) THEN fields[3] ELSE NoBase
        /\ ~reader.null
    BY <1>1, <1>3 DEF FileLoaded, Field
  <2>3. ~reader.cut => OneBase(fields, completed)
    BY DEF PInv, ReadFromOneBase
  <2> HIDE DEF fields, NoBase
  <2>4. ASSUME reader.catalogue_ # NoBase
        PROVE  /\ Len(fields) > 1 /\ reader.catalogue_ = fields[2]
               /\ reader.map_render_ = fields[1]
    BY <2>1, <2>2, <2>4
  <2>5. ASSUME reader.router_ # NoBase, ~reader.cut
        PROVE  reader.router_ = reader.catalogue_ /\ reader.catalogue_ \in completed
    <3>1. 3 <= Len(fields) /\ 2 <= Len(fields) /\ 2 \in DOMAIN fields /\ 3 \in DOMAIN fields
      BY <2>1, <2>2, <2>5
    <3>2. fields[2] = fields[3] /\ fields[3] \in completed
      BY <2>1, <2>3, <2>5, <3>1 DEF OneBase
    <3> QED BY <2>2, <3>1, <3>2
  <2> QED BY <1>3, <2>2, <2>4, <2>5 DEF fields
<1> QED BY <1>2, <1>3

LEMMA NoBaseKnowsNothing ==
  /\ NoBase.stopless = {} /\ NoBase.buses = {} /\ NoBase.stops = {}
BY DEF NoBase

LEMMA RespondBusKeeps ==
  ASSUME PInv, Answering, RespondBus, OthersStay
  PROVE  PInv'
<1> DEFINE base == reader.catalogue_
<1>1. Request.type = "Bus" /\ reader.pc = "answering"
  BY DEF RespondBus, Answering
<1>2. CASE Request.name \in base.stopless
  <2>1. Fail("undefined") \/ Fail("thrown")
    BY <1>2 DEF RespondBus
  <2>2. Len(reader.loaded.fields) > 1 /\ reader.loaded.fields[2].stopless # {}
    BY <1>1, <1>2, WhatWasLoaded, NoBaseKnowsNothing
  <2> QED BY <1>1, <2>1, <2>2, FailKeeps DEF Fail
<1>3. CASE Request.name \notin base.stopless /\ Request.name \in base.unmeasured
  <2>1. Fail("thrown")
    BY <1>3 DEF RespondBus
  <2> QED BY <1>1, <2>1, FailKeeps DEF Fail
<1>4. CASE Request.name \notin base.stopless /\ Request.name \notin base.unmeasured
  <2>1. PICK found \in BOOLEAN : found = (Request.name \in base.buses)
    <3>1. (Request.name \in base.buses) \in BOOLEAN
      OBVIOUS
    <3> QED BY <3>1, Zenon
  <2>2. Response(found)
    BY <1>4, <2>1 DEF RespondBus
  <2>3. [id |-> Request.id, type |-> Request.type, found |-> found] = Says(base, Request)
    BY <1>1, <2>1, Zenon DEF Says
  <2> QED BY <1>1, <2>2, <2>3, ResponseKeeps
<1> QED BY <1>2, <1>3, <1>4

LEMMA RespondStopKeeps ==
  ASSUME PInv, Answering, RespondStop, OthersStay
  PROVE  PInv'
<1>1. Request.type = "Stop"
  BY DEF RespondStop
<1>2. PICK found \in BOOLEAN : found = (Request.name \in reader.catalogue_.stops)
  <2>1. (Request.name \in reader.catalogue_.stops) \in BOOLEAN
    OBVIOUS
  <2> QED BY <2>1, Zenon
<1>3. Response(found)
  BY <1>2 DEF RespondStop
<1>4. [id |-> Request.id, type |-> Request.type, found |-> found]
        = Says(reader.catalogue_, Request)
  BY <1>1, <1>2, Zenon DEF Says
<1> QED BY <1>1, <1>3, <1>4, ResponseKeeps

LEMMA RespondMapKeeps ==
  ASSUME PInv, Answering, RespondMap, OthersStay
  PROVE  PInv'
<1>1. Request.type = "Map" /\ reader.pc = "answering"
  BY DEF RespondMap, Answering
<1>2. CASE /\ reader.catalogue_.buses # reader.catalogue_.stopless
           /\ ~reader.map_render_.palette
  <2>1. Fail("undefined")
    BY <1>2 DEF RespondMap
  <2>2. Len(reader.loaded.fields) > 1 /\ ~reader.loaded.fields[1].palette
    BY <1>1, <1>2, WhatWasLoaded, NoBaseKnowsNothing
  <2> QED BY <1>1, <2>1, <2>2, FailKeeps DEF Fail
<1>3. CASE ~(/\ reader.catalogue_.buses # reader.catalogue_.stopless
             /\ ~reader.map_render_.palette)
  <2>1. Response(TRUE)
    BY <1>3 DEF RespondMap
  <2>2. [id |-> Request.id, type |-> Request.type, found |-> TRUE]
          = Says(reader.catalogue_, Request)
    BY <1>1, Zenon DEF Says
  <2> QED BY <1>1, <2>1, <2>2, ResponseKeeps
<1> QED BY <1>2, <1>3

LEMMA RespondRouteKeeps ==
  ASSUME PInv, Answering, RespondRoute, OthersStay
  PROVE  PInv'
<1>1. Request.type = "Route" /\ reader.pc = "answering"
  BY DEF RespondRoute, Answering
<1>2. CASE reader.null
  <2>1. Fail("undefined")
    BY <1>2 DEF RespondRoute
  <2>2. ~Parses(reader.loaded)
    BY <1>1, <1>2, WhatWasLoaded
  <2> QED BY <1>1, <2>1, <2>2, FailKeeps DEF Fail
<1>3. CASE ~reader.null /\ ~({Request.name, Request.to} \subseteq reader.router_.stops)
  <2>1. Fail("thrown")
    BY <1>3 DEF RespondRoute
  <2> QED BY <1>1, <2>1, FailKeeps DEF Fail
<1>4. CASE ~reader.null /\ {Request.name, Request.to} \subseteq reader.router_.stops
  <2>1. PICK found \in BOOLEAN : found = (<<Request.name, Request.to>> \in reader.router_.routes)
    <3>1. (<<Request.name, Request.to>> \in reader.router_.routes) \in BOOLEAN
      OBVIOUS
    <3> QED BY <3>1, Zenon
  <2>2. Response(found)
    BY <1>4, <2>1 DEF RespondRoute
  <2>3. reader.router_ # NoBase
    BY <1>4, NoBaseKnowsNothing
  <2>4. ~reader.cut => reader.router_ = reader.catalogue_ /\ reader.catalogue_ \in completed
    BY <1>1, <2>3, WhatWasLoaded
  <2>5. ~reader.cut =>
          [id |-> Request.id, type |-> Request.type, found |-> found]
            = Says(reader.catalogue_, Request)
    BY <1>1, <2>1, <2>4, Zenon DEF Says
  <2> QED BY <1>1, <2>2, <2>4, <2>5, ResponseKeeps
<1> QED BY <1>2, <1>3, <1>4

(* A request that is passed over is not one of those asked.                *)
LEMMA SkipRequestKeeps ==
  ASSUME PInv, Answering, SkipRequest, OthersStay
  PROVE  PInv'
<1> DEFINE n == reader.next
<1>1. /\ reader \in ReaderType /\ reader.pc = "answering" /\ n \in Nat \ {0}
      /\ n \in DOMAIN Requests /\ Request = Requests[n]
  BY NextRequest DEF PInv, TypeOK, Answering, Request
<1>2. PICK next \in Nat \ {0} : next = n + 1
  BY <1>1
<1>3. reader' = [reader EXCEPT !.next = next]
  <2>1. reader' = [reader EXCEPT !.next = n + 1]
    BY <1>1 DEF SkipRequest, ReaderType
  <2> QED BY <1>2, <2>1
<1> HIDE DEF n
<1>4. /\ reader' \in ReaderType /\ reader'.pc = "answering" /\ reader'.query = reader.query
      /\ reader'.next = next /\ reader'.result = reader.result
      /\ reader'.loaded = reader.loaded /\ reader'.cut = reader.cut
      /\ reader'.catalogue_ = reader.catalogue_ /\ reader'.map_render_ = reader.map_render_
      /\ reader'.router_ = reader.router_ /\ reader'.null = reader.null
  BY <1>1, <1>3 DEF ReaderType
<1>5. TypeOK'
  BY <1>1, <1>4, FileSideStays DEF PInv, TypeOK
<1>6. ReadsAPrefix' /\ ReadFromOneBase' /\ AllAnswered' /\ UndefinedOnlyWithoutBase'
  BY <1>4 DEF PInv, ReadsAPrefix, ReadFromOneBase, AllAnswered, UndefinedOnlyWithoutBase,
              OthersStay
<1>7. LoadedFromFile'
  BY <1>1, <1>4 DEF PInv, LoadedFromFile, NothingLoaded, FileLoaded
<1>8. AnsweredSoFar'
  <2>1. n \notin Asked
    BY <1>1 DEF SkipRequest, Asked
  <2>2. Requests' = Requests /\ Asked' = Asked
    BY <1>4 DEF Requests, Asked
  <2>3. \A i : (AskedBy(i))' = AskedBy(i)
    BY <2>2 DEF AskedBy
  <2>4. (AskedBy(reader.next - 1))' = AskedBy(n - 1)
    <3>1. reader'.next - 1 = n
      BY <1>1, <1>2, <1>4
    <3>2. AskedBy(n) = AskedBy(n - 1)
      BY <1>1, <2>1, AskedCounts DEF PInv
    <3> QED BY <2>2, <3>1, <3>2 DEF AskedBy
  <2>5. \A i \in Asked : i < reader'.next => i < n
    <3>1. \A i \in DOMAIN Requests : i \in Nat
      BY <1>1, AskedCounts DEF PInv
    <3>2. \A i \in Asked : i \in Nat /\ i # n
      BY <2>1, <3>1 DEF Asked
    <3> QED BY <1>1, <1>2, <1>4, <3>2
  <2>6. completed' = completed
    BY DEF OthersStay
  <2> QED BY <1>1, <1>4, <2>2, <2>3, <2>4, <2>5, <2>6 DEF PInv, AnsweredSoFar, n
<1> QED BY <1>5, <1>6, <1>7, <1>8, FileSideStays DEF PInv

LEMMA RespondKeeps ==
  ASSUME PInv, Respond
  PROVE  PInv'
<1>1. Answering /\ OthersStay
  BY DEF Respond, OthersStay
<1>2. CASE RespondFlawed
  BY <1>1, <1>2, FailKeeps DEF RespondFlawed, Fail, Answering
<1>3. CASE RespondBus
  BY <1>1, <1>3, RespondBusKeeps
<1>4. CASE RespondStop
  BY <1>1, <1>4, RespondStopKeeps
<1>5. CASE RespondMap
  BY <1>1, <1>5, RespondMapKeeps
<1>6. CASE RespondRoute
  BY <1>1, <1>6, RespondRouteKeeps
<1>7. CASE SkipRequest
  BY <1>1, <1>7, SkipRequestKeeps
<1> QED BY <1>2, <1>3, <1>4, <1>5, <1>6, <1>7 DEF Respond

LEMMA PrintResultKeeps ==
  ASSUME PInv, PrintResult
  PROVE  PInv'
<1>1. /\ OthersStay /\ reader.pc = "answering" /\ reader.next > Len(Requests)
      /\ reader' = [reader EXCEPT !.pc = "printed"]
  BY DEF PrintResult, OthersStay
<1>2. reader \in ReaderType
  BY DEF PInv, TypeOK
<1>3. /\ reader' \in ReaderType /\ reader'.pc = "printed" /\ reader'.query = reader.query
      /\ reader'.next = reader.next /\ reader'.result = reader.result
      /\ reader'.loaded = reader.loaded /\ reader'.cut = reader.cut
      /\ reader'.catalogue_ = reader.catalogue_ /\ reader'.map_render_ = reader.map_render_
      /\ reader'.router_ = reader.router_ /\ reader'.null = reader.null
  BY <1>1, <1>2 DEF ReaderType
<1>4. TypeOK'
  BY <1>1, <1>3, FileSideStays DEF PInv, TypeOK
<1>5. ReadsAPrefix' /\ ReadFromOneBase' /\ UndefinedOnlyWithoutBase'
  BY <1>1, <1>3 DEF PInv, ReadsAPrefix, ReadFromOneBase, UndefinedOnlyWithoutBase, OthersStay
<1>6. LoadedFromFile' /\ AllAnswered'
  BY <1>1, <1>3 DEF PInv, LoadedFromFile, NothingLoaded, FileLoaded, AllAnswered, Requests
<1>7. AnsweredSoFar'
  <2>1. /\ Requests' = Requests /\ Asked' = Asked /\ completed' = completed
        /\ \A i : AskedBy(i)' = AskedBy(i)
    BY <1>1, <1>3 DEF Requests, Asked, AskedBy, OthersStay
  <2>2. reader.cut = reader'.cut /\ reader.pc = "answering"
    BY <1>1, <1>3
  <2>3. ~reader'.cut =>
          /\ Len(reader'.result) = Cardinality(AskedBy(reader'.next - 1))
          /\ \A i \in Asked : i < reader'.next =>
               /\ reader'.result[Cardinality(AskedBy(i))] = Says(reader'.catalogue_, Requests[i])
               /\ Requests[i].type = "Route" => reader'.catalogue_ \in completed
    <3>1. PICK result, next, base : /\ result = reader.result /\ result = reader'.result
                                    /\ next = reader.next /\ next = reader'.next
                                    /\ base = reader.catalogue_ /\ base = reader'.catalogue_
      BY <1>3
    <3> QED BY <2>2, <3>1 DEF PInv, AnsweredSoFar
  <2> QED BY <2>1, <2>3 DEF AnsweredSoFar
<1> QED BY <1>4, <1>5, <1>6, <1>7, <1>1, FileSideStays DEF PInv

LEMMA StutterKeeps ==
  ASSUME PInv, UNCHANGED vars
  PROVE  PInv'
<1>1. UNCHANGED <<base_file, maker, reader, completed>>
  BY DEF vars
<1>2. TypeOK' /\ FileFromOneBase' /\ ReadsAPrefix'
  BY <1>1 DEF PInv, TypeOK, FileFromOneBase, ReadsAPrefix
<1> QED BY <1>1, <1>2, ReaderStays DEF PInv, ReaderPart

LEMMA ProgramAlways == Spec => []PInv
<1>1. Init => PInv
  BY InitHolds
<1>2. PInv /\ [Next]_vars => PInv'
  <2> SUFFICES ASSUME PInv, [Next]_vars PROVE PInv'
    OBVIOUS
  <2>1. ASSUME NEW base \in Bases, StartMakeBase(base) PROVE PInv'
    BY <2>1, StartMakeBaseKeeps
  <2>2. CASE OpenBase
    BY <2>2, OpenBaseKeeps
  <2>3. CASE MakerEnds
    BY <2>3, MakerEndsKeeps
  <2>4. CASE WritePart
    BY <2>4, WritePartKeeps
  <2>5. CASE WriteRest
    BY <2>5, WriteRestKeeps
  <2>6. ASSUME NEW query \in Queries, StartProcessRequests(query) PROVE PInv'
    BY <2>6, StartProcessRequestsKeeps
  <2>7. CASE ReaderKilled
    BY <2>7, ReaderKilledKeeps
  <2>8. CASE OpenToRead
    BY <2>8, OpenToReadKeeps
  <2>9. CASE ReadField
    BY <2>9, ReadFieldKeeps
  <2>10. CASE EndOfFile
    BY <2>10, EndOfFileKeeps
  <2>11. CASE Load
    BY <2>11, LoadKeeps
  <2>12. CASE Respond
    BY <2>12, RespondKeeps
  <2>13. CASE PrintResult
    BY <2>13, PrintResultKeeps
  <2>14. CASE UNCHANGED vars
    BY <2>14, StutterKeeps
  <2> QED BY <2>1, <2>2, <2>3, <2>4, <2>5, <2>6, <2>7, <2>8, <2>9, <2>10, <2>11, <2>12,
             <2>13, <2>14 DEF Next
<1> QED BY <1>1, <1>2, PTL DEF Spec

-----------------------------------------------------------------------------
(* AnswersFromOneBase: for all documents and queries and however the two   *)
(* processes run beside each other and are killed, what is printed answers *)
(* every request from one base, unless the file was truncated while it was *)
(* being read.                                                             *)
THEOREM PrintedFromOneBase == Spec => []AnswersFromOneBase
<1>1. PInv => AnswersFromOneBase
  <2> SUFFICES ASSUME PInv, reader.pc = "printed", ~reader.cut
               PROVE  \E base \in Bases \cup {NoBase} :
                        /\ Len(reader.result) = Cardinality(Asked)
                        /\ \A i \in Asked :
                             /\ reader.result[Cardinality(AskedBy(i))] = Says(base, Requests[i])
                             /\ Requests[i].type = "Route" => base \in completed
    BY DEF AnswersFromOneBase
  <2>1. reader.next \in Nat /\ reader.catalogue_ \in Bases \cup {NoBase}
    BY DEF PInv, TypeOK, ReaderType, AnyBase
  <2>2. Len(Requests) \in Nat /\ DOMAIN Requests = 1 .. Len(Requests)
    BY AskedCounts DEF PInv
  <2>3. reader.next > Len(Requests)
    BY DEF PInv, AllAnswered
  <2>4. \A i \in Asked : i \in Nat /\ i < reader.next
    BY <2>1, <2>2, <2>3 DEF Asked
  <2>5. AskedBy(reader.next - 1) = Asked
    <3>1. \A i \in Asked : i <= reader.next - 1
      BY <2>1, <2>4
    <3> QED BY <3>1 DEF AskedBy
  <2>6. /\ Len(reader.result) = Cardinality(Asked)
        /\ \A i \in Asked :
             /\ reader.result[Cardinality(AskedBy(i))]
                  = Says(reader.catalogue_, Requests[i])
             /\ Requests[i].type = "Route" => reader.catalogue_ \in completed
    BY <2>4, <2>5 DEF PInv, AnsweredSoFar
  <2> QED BY <2>1, <2>6
<1> QED BY <1>1, ProgramAlways, PTL

(* UndefinedOnlyWithoutBase: nothing undefined happens in process_requests *)
(* but for a file that was missing, torn, empty or truncated under it, a   *)
(* bus without stops or a palette without colours.                         *)
THEOREM WholeBaseIsSafe == Spec => []UndefinedOnlyWithoutBase
<1>1. PInv => UndefinedOnlyWithoutBase
  BY DEF PInv
<1> QED BY <1>1, ProgramAlways, PTL
=============================================================================
