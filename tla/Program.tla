------------------------------ MODULE Program ------------------------------
(***************************************************************************)
(* The two modes of main.cpp as two processes that share nothing but the   *)
(* base file: make_base writes it, process_requests reads it and answers   *)
(* the stat requests.  Either may be started again and again, while the    *)
(* other runs, and may be killed.                                          *)
(*                                                                         *)
(* A base is what the answers tell apart of a document and of the          *)
(* catalogue and the router made of it: its buses, its stops and the pairs *)
(* of stops that have a route.  What goes on inside make_base is modules   *)
(* BaseLoader, TransportRouter and Router.                                 *)
(***************************************************************************)
EXTENDS Naturals, Sequences, FiniteSets, Maps

CONSTANTS
  Bases,     \* the documents make_base may be given
  Queries,   \* the documents process_requests may be given
  MaxRuns    \* bound: processes started in one behaviour

ASSUME ProgramAssumption ==
  /\ \A query \in Queries : IsSequence(query.stat_requests)
  /\ MaxRuns \in Nat

VARIABLES
  base_file,   \* the file on disk
  maker,       \* the process in mode make_base
  reader,      \* the process in mode process_requests
  map_svg,     \* the map in map.svg, or << >>
  runs,        \* processes started
  completed    \* history variable: the bases that were written to the end

vars == <<base_file, maker, reader, map_svg, runs, completed>>

(* A catalogue with nothing in it, or a router with no vertices: a message *)
(* without the fields.                                                     *)
NoBase == [fails |-> "no", buses |-> {}, stopless |-> {}, unmeasured |-> {},
           stops |-> {}, routes |-> {}, palette |-> FALSE]

(* The file holds the fields of message Common that reached the disk, in   *)
(* the order they are written: map_settings, catalogue, router; torn when  *)
(* it ends within the next one.                                            *)
File(exists, fields, torn) == [exists |-> exists, fields |-> fields, torn |-> torn]
Field(file, i) == IF i <= Len(file.fields) THEN file.fields[i] ELSE NoBase
Parses(file) == file.exists /\ ~file.torn

NoReader == [pc |-> "idle", query |-> << >>, next |-> 1, result |-> << >>,
             catalogue_ |-> NoBase, map_render_ |-> NoBase,
             router_ |-> NoBase, null |-> TRUE,
             loaded |-> File(FALSE, << >>, FALSE),  \* what it has read of the file
             cut |-> FALSE]                         \* truncated while it read

Init ==
  /\ base_file = File(FALSE, << >>, FALSE)
  /\ maker = [pc |-> "idle", base |-> NoBase]
  /\ reader = NoReader
  /\ map_svg = << >>
  /\ runs = 0
  /\ completed = {}

-----------------------------------------------------------------------------
Start == runs < MaxRuns /\ runs' = runs + 1

StartMakeBase(base) ==
  /\ maker.pc = "idle" /\ Start
  /\ maker' = [pc |-> "load", base |-> base]
  /\ UNCHANGED <<base_file, reader, map_svg, completed>>

(* Mutant of OpenBase: what the file held is not truncated.                *)
OpenBaseAppending ==
  /\ maker.pc = "load" /\ maker.base.fails # "before"
  /\ base_file' = File(TRUE, base_file.fields, FALSE)
  /\ maker' = [maker EXCEPT !.pc = "opened"]
  /\ UNCHANGED <<reader, map_svg, runs, completed>>

(* The file is truncated before the requests of the document are read.  A  *)
(* reader that has it open stays at its place in it.                       *)
OpenBase ==
  /\ maker.pc = "load" /\ maker.base.fails # "before"
  /\ base_file' = File(TRUE, << >>, FALSE)
  /\ maker' = [maker EXCEPT !.pc = "opened"]
  /\ reader' = [reader EXCEPT !.cut = @ \/ reader.pc = "reading"]
  /\ UNCHANGED <<map_svg, runs, completed>>

(* The process ends, by an exception or because it is killed; the file     *)
(* stays as it is.                                                         *)
MakerEnds ==
  /\ maker.pc # "idle"
  /\ maker' = [maker EXCEPT !.pc = "idle"]
  /\ UNCHANGED <<base_file, reader, map_svg, runs, completed>>

(* SerializeToOstream, of which any part may have reached the disk when    *)
(* somebody reads the file or the process is killed.                       *)
WritePart ==
  /\ maker.pc = "opened" /\ maker.base.fails = "no" /\ ~base_file.torn
  /\ base_file' = [base_file EXCEPT !.torn = TRUE]
  /\ UNCHANGED <<maker, reader, map_svg, runs, completed>>

WriteRest ==
  /\ maker.pc = "opened" /\ base_file.torn
  /\ base_file' = File(TRUE, Append(base_file.fields, maker.base), FALSE)
  /\ IF Len(base_file'.fields) < 3
       THEN UNCHANGED <<maker, completed>>
       ELSE /\ maker' = [maker EXCEPT !.pc = "idle"]
            /\ completed' = completed \cup {maker.base}
  /\ UNCHANGED <<reader, map_svg, runs>>

-----------------------------------------------------------------------------
StartProcessRequests(query) ==
  /\ reader.pc \in {"idle", "printed", "thrown", "undefined"} /\ Start
  /\ reader' = [NoReader EXCEPT !.pc = "load", !.query = query]
  /\ UNCHANGED <<base_file, maker, map_svg, completed>>

ReaderKilled ==
  /\ reader.pc \in {"load", "reading", "read", "answering"}
  /\ reader' = NoReader
  /\ UNCHANGED <<base_file, maker, map_svg, runs, completed>>

(* The file is opened, if it is there.                                     *)
OpenToRead ==
  /\ reader.pc = "load"
  /\ reader' = IF reader.query.missing = "serialization_settings"
                 THEN [reader EXCEPT !.pc = "thrown"]
                 ELSE [reader EXCEPT !.pc = "reading", !.loaded.exists = base_file.exists]
  /\ UNCHANGED <<base_file, maker, map_svg, runs, completed>>

(* ParseFromIstream reads block by block, while make_base may be writing.  *)
(* At its place in a file that was truncated meanwhile it may come upon    *)
(* what is written there now, upon the end or upon nothing that parses.    *)
Place == Len(reader.loaded.fields) + 1

ReadField ==
  /\ reader.pc = "reading" /\ reader.loaded.exists /\ Place <= 3
  /\ reader.cut \/ Place <= Len(base_file.fields)
  /\ reader' = [reader EXCEPT !.loaded.fields =
                   Append(@, IF reader.cut THEN maker.base ELSE base_file.fields[Place])]
  /\ UNCHANGED <<base_file, maker, map_svg, runs, completed>>

EndOfFile ==
  /\ reader.pc = "reading"
  /\ \E torn \in BOOLEAN :
       /\ \/ reader.cut
          \/ ~reader.loaded.exists /\ ~torn
          \/ reader.loaded.exists /\ Place > Len(base_file.fields) /\ torn = base_file.torn
       /\ reader' = [reader EXCEPT !.pc = "read", !.loaded.torn = torn]
  /\ UNCHANGED <<base_file, maker, map_svg, runs, completed>>

(* Mutant of Deserialization: the router is made but not returned.         *)
DeserializationReturnsNull(r) ==
  [r EXCEPT !.map_render_ = Field(r.loaded, 1), !.catalogue_ = Field(r.loaded, 2)]

(* A file that does not parse leaves catalogue and settings as they were,  *)
(* empty, and no router.  A field that is missing is one of defaults.      *)
Deserialization(r) ==
  IF ~Parses(r.loaded) THEN r
  ELSE [r EXCEPT !.map_render_ = Field(r.loaded, 1), !.catalogue_ = Field(r.loaded, 2),
                 !.router_ = Field(r.loaded, 3), !.null = FALSE]

(* DeserializeMapRender reads two elements of a repeated field that is     *)
(* empty when map_settings is not there: the process may die there, or go  *)
(* on with what it found.  So it may with a message of which a part was    *)
(* read before the file was truncated and a part after: the places in it   *)
(* mean nothing in the rest.                                               *)
Load ==
  /\ reader.pc = "read"
  /\ LET r == Deserialization(reader) IN
       \/ /\ reader.query.missing = "stat_requests"
          /\ reader' = [r EXCEPT !.pc = "thrown"]
       \/ /\ reader.query.missing = "nothing"
          /\ reader' = [r EXCEPT !.pc = "answering"]
       \/ /\ Parses(reader.loaded) /\ (reader.loaded.fields = << >> \/ reader.cut)
          /\ reader' = [r EXCEPT !.pc = "undefined"]
  /\ UNCHANGED <<base_file, maker, map_svg, runs, completed>>

Requests == reader.query.stat_requests
Request == Requests[reader.next]
Answering == reader.pc = "answering" /\ reader.next <= Len(Requests)

Fail(how) == reader' = [reader EXCEPT !.pc = how] /\ UNCHANGED map_svg

Response(found) ==
  reader' = [reader EXCEPT
    !.result = Append(@, [id |-> Request.id, type |-> Request.type, found |-> found]),
    !.next = @ + 1]

(* A key that is missing, or of another type.                              *)
RespondFlawed == Request.flawed /\ Fail("thrown")

(* GetInfoBus: next(begin) of a bus with no stops is undefined, and a stop *)
(* that follows itself has no length to find.                              *)
RespondBus ==
  /\ Request.type = "Bus" /\ ~Request.flawed
  /\ \/ Request.name \in reader.catalogue_.stopless /\ Fail("undefined")
     \/ Request.name \in reader.catalogue_.unmeasured /\ Fail("thrown")
     \/ /\ Request.name \notin reader.catalogue_.stopless \cup reader.catalogue_.unmeasured
        /\ Response(Request.name \in reader.catalogue_.buses)
        /\ UNCHANGED map_svg

RespondStop ==
  /\ Request.type = "Stop" /\ ~Request.flawed
  /\ Response(Request.name \in reader.catalogue_.stops)
  /\ UNCHANGED map_svg

(* map.svg is written at once, whatever becomes of the other requests; an  *)
(* empty palette is a remainder by zero as soon as a bus is drawn.         *)
RespondMap ==
  /\ Request.type = "Map" /\ ~Request.flawed
  /\ IF reader.catalogue_.buses # reader.catalogue_.stopless /\ ~reader.map_render_.palette
       THEN Fail("undefined")
       ELSE Response(TRUE) /\ map_svg' = <<reader.catalogue_>>

(* GetRouteStat goes through a pointer that is null when nothing was       *)
(* loaded; GetRouteInfo throws for a stop the router does not know.        *)
RespondRoute ==
  /\ Request.type = "Route" /\ ~Request.flawed
  /\ \/ reader.null /\ Fail("undefined")
     \/ ~reader.null /\ ~({Request.name, Request.to} \subseteq reader.router_.stops)
          /\ Fail("thrown")
     \/ /\ ~reader.null /\ {Request.name, Request.to} \subseteq reader.router_.stops
        /\ Response(<<Request.name, Request.to>> \in reader.router_.routes)
        /\ UNCHANGED map_svg

(* A type that is none of these is passed over.                            *)
SkipRequest ==
  /\ Request.type \notin {"Bus", "Stop", "Map", "Route"} /\ ~Request.flawed
  /\ reader' = [reader EXCEPT !.next = @ + 1]
  /\ UNCHANGED map_svg

Respond ==
  /\ Answering
  /\ RespondFlawed \/ RespondBus \/ RespondStop \/ RespondMap \/ RespondRoute \/ SkipRequest
  /\ UNCHANGED <<base_file, maker, runs, completed>>

(* Nothing is printed before the last request is answered.                 *)
PrintResult ==
  /\ reader.pc = "answering" /\ reader.next > Len(Requests)
  /\ reader' = [reader EXCEPT !.pc = "printed"]
  /\ UNCHANGED <<base_file, maker, map_svg, runs, completed>>

-----------------------------------------------------------------------------
Next ==
  \/ \E base \in Bases : StartMakeBase(base)
  \/ OpenBase \/ MakerEnds \/ WritePart \/ WriteRest
  \/ \E query \in Queries : StartProcessRequests(query)
  \/ ReaderKilled \/ OpenToRead \/ ReadField \/ EndOfFile \/ Load \/ Respond \/ PrintResult

Spec == Init /\ [][Next]_vars

-----------------------------------------------------------------------------
(* What a base says to a request.                                          *)
Says(base, request) ==
  [id |-> request.id, type |-> request.type,
   found |-> IF request.type = "Bus" THEN request.name \in base.buses
             ELSE IF request.type = "Stop" THEN request.name \in base.stops
             ELSE IF request.type = "Map" THEN TRUE
             ELSE <<request.name, request.to>> \in base.routes]

(* The places of the requests of a known type, and of those of them up to  *)
(* the i-th request.                                                       *)
Asked == {i \in DOMAIN Requests : Requests[i].type \in {"Bus", "Stop", "Map", "Route"}}
AskedBy(i) == {j \in Asked : j <= i}

(* What process_requests prints answers every request of a known type, in  *)
(* order, and all of them as one base says, or as an empty one, although   *)
(* it reads the file piece by piece while make_base may be writing it or   *)
(* be killed; and when it tells a route, the base it speaks for was        *)
(* written to the end.  Only a make_base that truncates the file between   *)
(* two of the reads can mix two bases.                                     *)
AnswersFromOneBase ==
  reader.pc = "printed" /\ ~reader.cut =>
    \E base \in Bases \cup {NoBase} :
      /\ Len(reader.result) = Cardinality(Asked)
      /\ \A i \in Asked :
           /\ reader.result[Cardinality(AskedBy(i))] = Says(base, Requests[i])
           /\ Requests[i].type = "Route" => base \in completed

(* process_requests does nothing undefined when the base file was whole,   *)
(* its buses have stops and its palette has colours; when there is no      *)
(* file, only a Route request does.                                        *)
UndefinedOnlyWithoutBase ==
  reader.pc = "undefined" =>
    LET base == reader.loaded.fields IN
    \/ Parses(reader.loaded) /\ (Len(base) = 0 \/ reader.cut)
    \/ ~Parses(reader.loaded) /\ Request.type = "Route"
    \/ Len(base) > 1 /\ base[2].stopless # {}
    \/ Len(base) > 1 /\ ~base[1].palette
=============================================================================
