--------------------------- MODULE EventPlanning ---------------------------
(***************************************************************************)
(* Planning an event in the organizer studio of the example application:   *)
(* its details, its status, its ticket types and its programme.            *)
(*                                                                         *)
(* A request of an organizer reads the workspace, checks its input against *)
(* what it read, and only then writes.  Other requests write in between.   *)
(* What must hold whatever they do is left to triggers of the database,    *)
(* which see the write itself.                                             *)
(*                                                                         *)
(* An instant is stored as text and text is compared: the sessions that    *)
(* the migrations insert are written without milliseconds, ...:00Z, the    *)
(* others with, ...:00.000Z, and of two spellings of one instant the first *)
(* is the greater.  Text n spells instant n \div 2, without milliseconds   *)
(* if n is odd.                                                            *)
(***************************************************************************)
EXTENDS Naturals, FiniteSets

CONSTANTS
  Writers,         (* the requests of organizers                           *)
  Rooms, Speakers, Sessions, TicketTypes,
  FirstRoom, FirstSpeaker, FirstSession, FirstTicketType,
  New,             (* an input that names no row: one is inserted          *)
  Slots,           (* the start and end instants a form can hold           *)
  MaxCapacity      (* bound on capacities                                  *)

ASSUME PlanningAssumption ==
  /\ FirstRoom \in Rooms
  /\ FirstSpeaker \in Speakers
  /\ FirstSession \in Sessions
  /\ FirstTicketType \in TicketTypes
  /\ IsFiniteSet(TicketTypes)
  /\ IsFiniteSet(Sessions)
  /\ New \notin Rooms \cup Speakers \cup Sessions \cup TicketTypes
  /\ Slots # {}
  /\ \A slot \in Slots : slot \in Nat \X Nat /\ slot[1] < slot[2]
  /\ MaxCapacity \in Nat \ {0}

VARIABLES
  event,           (* the row of the event                                 *)
  allocation,      (* per ticket type, quantity_total; 0: no such type     *)
  rooms,           (* event_rooms                                          *)
  speakers,        (* event_speakers                                       *)
  sessions,        (* programme_sessions and their speakers                *)
  request          (* per request, what it checked and is about to write   *)

vars == <<event, allocation, rooms, speakers, sessions, request>>

Capacities == 1..MaxCapacity
Names == {"Hall", "hall", "Studio"}

(* localeCompare with sensitivity 'accent' ignores case, UNIQUE does not.  *)
Folded(name) == IF name = "hall" THEN "Hall" ELSE name

Instant(text) == text \div 2
Written(slot) == <<2 * slot[1], 2 * slot[2]>>
Seeded(slot) == <<2 * slot[1] + 1, 2 * slot[2] + 1>>
Texts == {Written(slot) : slot \in Slots} \cup {Seeded(slot) : slot \in Slots}

EventStatus == {"none", "draft", "published", "completed", "cancelled"}
SessionStatus == {"draft", "published", "cancelled"}

Nothing == [do |-> "nothing"]

(* The commands of the Server Functions, with what their forms can hold.   *)
CreateEvent == [do : {"CreateEvent"}, dates : Slots, capacity : Capacities]
(* expected: the text of updatedAt that the form was rendered with.        *)
UpdateEvent ==
  [do : {"UpdateEvent"}, dates : Slots, capacity : Capacities,
   expected : 0..event.version]
TransitionEvent ==
  [do : {"TransitionEvent"}, from : {event.status},
   to : {"published", "completed", "cancelled"}]
SaveTicketType == [do : {"SaveTicketType"}, type : TicketTypes \cup {New}, total : Capacities]
SaveRoom == 
  [do : {"SaveRoom"}, room : Rooms \cup {New}, name : Names, capacity : Capacities]
SaveSpeaker == [do : {"SaveSpeaker"}, speaker : Speakers \cup {New}]
SaveSession ==
  [do : {"SaveSession"}, session : Sessions \cup {New}, room : Rooms, speaker : Speakers,
   slot : Slots, capacity : Capacities]
SetSessionStatus ==
  [do : {"SetSessionStatus"}, session : Sessions, status : SessionStatus]

Commands ==
  CreateEvent \cup UpdateEvent \cup TransitionEvent \cup SaveTicketType
    \cup SaveRoom \cup SaveSpeaker \cup SaveSession \cup SetSessionStatus

NoRoom == [name |-> "", capacity |-> 0]
NoSession == [room |-> FirstRoom, speaker |-> FirstSpeaker, time |-> <<0, 0>>,
              capacity |-> 0, status |-> "none"]

KnownRooms == {r \in Rooms : rooms[r] # NoRoom}
Scheduled == {s \in Sessions : sessions[s] # NoSession}

SeededEvents ==
  [status : {"draft", "published", "completed"}, dates : Slots, capacity : {MaxCapacity},
   version : {0}]

(* The migrations insert a draft, a published and a completed event with a *)
(* programme; any other event begins with CreateEvent.                     *)
Init ==
  /\ request = [w \in Writers |-> [phase |-> "idle", command |-> Nothing]]
  /\ \/ /\ event = [status |-> "none", dates |-> CHOOSE slot \in Slots : TRUE,
                    capacity |-> 1, version |-> 0]
        /\ allocation = [t \in TicketTypes |-> 0]
        /\ rooms = [r \in Rooms |-> NoRoom]
        /\ speakers = {}
        /\ sessions = [s \in Sessions |-> NoSession]
     \/ \E slot \in Slots :
          /\ event \in SeededEvents
          /\ event.dates[1] <= slot[1] /\ slot[2] <= event.dates[2]
          /\ allocation = [t \in TicketTypes |-> IF t = FirstTicketType THEN 1 ELSE 0]
          /\ rooms = [r \in Rooms |->
               IF r = FirstRoom THEN [name |-> "Hall", capacity |-> MaxCapacity] ELSE NoRoom]
          /\ speakers = {FirstSpeaker}
          /\ sessions = [s \in Sessions |->
               IF s = FirstSession
               THEN [NoSession EXCEPT !.time = Seeded(slot), !.capacity = MaxCapacity,
                                      !.status = IF event.status = "draft" THEN "draft" ELSE "published"]
               ELSE NoSession]

-----------------------------------------------------------------------------
(* What the services read.                                                 *)

(* The seats of the types, counted one by one: SUM(quantity_total).        *)
Seats(types) == UNION {{t} \X (1..allocation[t]) : t \in types}
Allocated(types) == Cardinality(Seats(types))

Known == event.status # "none"
KnownTypes == {t \in TicketTypes : allocation[t] > 0}

Overlap(one, other) == one[1] < other[2] /\ one[2] > other[1]

(* The sessions that take up time: those not cancelled, whatever the event.*)
Booked(besides) == {s \in Scheduled \ {besides} : sessions[s].status # "cancelled"}

RoomTaken(room, time, besides) ==
  \E s \in Booked(besides) : sessions[s].room = room /\ Overlap(sessions[s].time, time)

SpeakerTaken(speaker, time, besides) ==
  \E s \in Booked(besides) : sessions[s].speaker = speaker /\ Overlap(sessions[s].time, time)

Fits(time, capacity, dates, limit) ==
  /\ capacity <= limit
  /\ dates[1] <= Instant(time[1])
  /\ Instant(time[2]) <= dates[2]

(* The visitors of the site find published and completed events.           *)
PublicEvent == event.status \in {"published", "completed"}

(* What they see of one: its published sessions, joined with their room    *)
(* and their speaker.                                                      *)
PublicProgramme ==
  {s \in Scheduled :
     /\ PublicEvent
     /\ sessions[s].status = "published"
     /\ sessions[s].room \in KnownRooms
     /\ sessions[s].speaker \in speakers}

(* PublicProgrammePage: PublicProgrammeMissing, an empty agenda or a full.  *)
ProgrammePage ==
  IF ~PublicEvent THEN "missing"
  ELSE IF PublicProgramme = {} THEN "comingSoon" ELSE "agenda"

(* ProgrammeService.readiness.                                             *)
PublishedSessions == {s \in Scheduled : sessions[s].status = "published"}

Readiness ==
  [canPublish |-> KnownRooms # {} /\ speakers # {},
   published  |-> Cardinality(PublishedSessions),
   drafts     |-> Cardinality({s \in Scheduled : sessions[s].status = "draft"}),
   total      |-> Cardinality(Scheduled)]

(* SessionForm: the fields are disabled until there is a room and a        *)
(* speaker; a session is published or taken back, and cancelled once.      *)
SessionForm(s) ==
  [editable |-> KnownRooms # {} /\ speakers # {},
   statuses |-> {IF sessions[s].status = "published" THEN "draft" ELSE "published"}
                  \cup ({"cancelled"} \ {sessions[s].status})]

(* ProgrammeEditorPage: a form for every session, and a link to the public *)
(* programme of an event that visitors can find.                           *)
EditorPage ==
  [linked |-> event.status \in {"published", "completed"},
   forms  |-> [s \in Scheduled |-> SessionForm(s)]]

Transitions(status) ==
  CASE status = "draft" -> {"published", "cancelled"}
    [] status = "published" -> {"completed", "cancelled"}
    [] OTHER -> {}

RoomAllowed(c) ==
  /\ c.room \in KnownRooms \cup {New}
  /\ c.capacity <= event.capacity
  /\ \A r \in KnownRooms \ {c.room} : Folded(rooms[r].name) # Folded(c.name)
  /\ \A s \in Scheduled : sessions[s].room = c.room => sessions[s].capacity <= c.capacity

SpeakerAllowed(c) == c.speaker \in speakers \cup {New}

SessionAllowed(c) ==
  /\ c.session \in Scheduled \cup {New}
  /\ c.room \in KnownRooms
  /\ c.speaker \in speakers
  /\ c.capacity <= rooms[c.room].capacity
  /\ Fits(Written(c.slot), c.capacity, event.dates, event.capacity)
  /\ ~RoomTaken(c.room, Written(c.slot), c.session)
  /\ ~SpeakerTaken(c.speaker, Written(c.slot), c.session)

(* Only a cancelled session that is published is checked for conflicts.    *)
SessionStatusAllowed(c) ==
  /\ c.session \in Scheduled
  /\ LET session == sessions[c.session] IN
     c.status = "published" /\ session.status = "cancelled" =>
       /\ ~RoomTaken(session.room, session.time, c.session)
       /\ ~SpeakerTaken(session.speaker, session.time, c.session)

Allowed(c) ==
  IF c.do = "CreateEvent" THEN event.status = "none"
  ELSE
    /\ Known
    /\ c.do = "UpdateEvent" => c.capacity >= Allocated(TicketTypes)
    /\ c.do = "TransitionEvent" => c.to \in Transitions(c.from)
    /\ c.do = "SaveTicketType" =>
         /\ c.type \in KnownTypes \cup {New}
         /\ Allocated(TicketTypes \ {c.type}) + c.total <= event.capacity
    /\ c.do = "SaveRoom" => RoomAllowed(c)
    /\ c.do = "SaveSpeaker" => SpeakerAllowed(c)
    /\ c.do = "SaveSession" => SessionAllowed(c)
    /\ c.do = "SetSessionStatus" => SessionStatusAllowed(c)

Done(w) == request' = [request EXCEPT ![w] = [phase |-> "done", command |-> Nothing]]

(* The queries of one check are several statements.  They are one step     *)
(* here: the write does not rely on them, whenever they were made.         *)
Check(w) ==
  /\ request[w].phase = "idle"
  /\ \E c \in Commands :
       /\ Allowed(c)
       /\ request' = [request EXCEPT ![w] = [phase |-> "checked", command |-> c]]
  /\ UNCHANGED <<event, allocation, rooms, speakers, sessions>>

Reject(w) ==
  /\ request[w].phase = "idle"
  /\ \E c \in Commands : ~Allowed(c)
  /\ Done(w)
  /\ UNCHANGED <<event, allocation, rooms, speakers, sessions>>

-----------------------------------------------------------------------------
(* The writes: each is one statement or one transaction, triggers included.*)

Checked(w, do) == request[w].phase = "checked" /\ request[w].command.do = do

(* The address of the event is unique.                                     *)
InsertEvent(w) ==
  /\ Checked(w, "CreateEvent")
  /\ event.status = "none"
  /\ LET c == request[w].command IN
     event' = [status |-> "draft", dates |-> c.dates, capacity |-> c.capacity, version |-> 0]
  /\ Done(w)
  /\ UNCHANGED <<allocation, rooms, speakers, sessions>>

(* Mutant of EventWritable: the expected version answers for the programme.*)
EventWritableByVersion(c) ==
  /\ event.version = c.expected
  /\ Allocated(TicketTypes) <= c.capacity

EventWritable(c) ==
  /\ event.version = c.expected
  /\ Allocated(TicketTypes) <= c.capacity
  /\ \A s \in Scheduled : Fits(sessions[s].time, sessions[s].capacity, c.dates, c.capacity)

WriteEvent(w) ==
  /\ Checked(w, "UpdateEvent")
  /\ LET c == request[w].command IN
     /\ EventWritable(c)
     /\ event' = [event EXCEPT !.dates = c.dates, !.capacity = c.capacity, !.version = @ + 1]
  /\ Done(w)
  /\ UNCHANGED <<allocation, rooms, speakers, sessions>>

(* Mutant of StatusWritable: the status that was read is not compared.     *)
StatusAlwaysWritable(c) == Known

StatusWritable(c) == event.status = c.from

WriteStatus(w) ==
  /\ Checked(w, "TransitionEvent")
  /\ LET c == request[w].command IN
     /\ StatusWritable(c)
     /\ event' = [event EXCEPT !.status = c.to, !.version = @ + 1]
  /\ Done(w)
  /\ UNCHANGED <<allocation, rooms, speakers, sessions>>

TypeWritable(c) == Allocated(TicketTypes \ {c.type}) + c.total <= event.capacity

WriteTicketType(w) ==
  /\ Checked(w, "SaveTicketType")
  /\ LET c == request[w].command IN
     /\ TypeWritable(c)
     /\ \E t \in IF c.type = New THEN TicketTypes \ KnownTypes ELSE {c.type} :
          allocation' = [allocation EXCEPT ![t] = c.total]
  /\ Done(w)
  /\ UNCHANGED <<event, rooms, speakers, sessions>>

(* Names are unique letter by letter.                                      *)
RoomWritable(c) == \A r \in KnownRooms \ {c.room} : rooms[r].name # c.name

WriteRoom(w) ==
  /\ Checked(w, "SaveRoom")
  /\ LET c == request[w].command IN
     /\ RoomWritable(c)
     /\ \E r \in IF c.room = New THEN Rooms \ KnownRooms ELSE {c.room} :
          rooms' = [rooms EXCEPT ![r] = [name |-> c.name, capacity |-> c.capacity]]
  /\ Done(w)
  /\ UNCHANGED <<event, allocation, speakers, sessions>>

WriteSpeaker(w) ==
  /\ Checked(w, "SaveSpeaker")
  /\ LET c == request[w].command IN
     \E p \in IF c.speaker = New THEN Speakers \ speakers ELSE {c.speaker} :
       speakers' = speakers \cup {p}
  /\ Done(w)
  /\ UNCHANGED <<event, allocation, rooms, sessions>>

StatusOf(session) == IF session = New THEN "draft" ELSE sessions[session].status

(* The old assignment is deleted first, so the triggers see the new one.   *)
SessionWritable(c) ==
  /\ Fits(Written(c.slot), c.capacity, event.dates, event.capacity)
  /\ StatusOf(c.session) # "cancelled" =>
       /\ ~RoomTaken(c.room, Written(c.slot), c.session)
       /\ ~SpeakerTaken(c.speaker, Written(c.slot), c.session)

WriteSession(w) ==
  /\ Checked(w, "SaveSession")
  /\ LET c == request[w].command IN
     /\ SessionWritable(c)
     /\ \E s \in IF c.session = New THEN Sessions \ Scheduled ELSE {c.session} :
          sessions' = [sessions EXCEPT ![s] =
            [room |-> c.room, speaker |-> c.speaker, time |-> Written(c.slot),
             capacity |-> c.capacity, status |-> StatusOf(c.session)]]
  /\ Done(w)
  /\ UNCHANGED <<event, allocation, rooms, speakers>>

(* Mutant of SessionStatusWritable: only published sessions are compared.  *)
SessionStatusWritableIfDraft(c) ==
  LET session == sessions[c.session] IN
  c.status = "published" =>
    /\ ~RoomTaken(session.room, session.time, c.session)
    /\ ~SpeakerTaken(session.speaker, session.time, c.session)

SessionStatusWritable(c) ==
  LET session == sessions[c.session] IN
  c.status # "cancelled" =>
    /\ ~RoomTaken(session.room, session.time, c.session)
    /\ ~SpeakerTaken(session.speaker, session.time, c.session)

WriteSessionStatus(w) ==
  /\ Checked(w, "SetSessionStatus")
  /\ LET c == request[w].command IN
     /\ SessionStatusWritable(c)
     /\ sessions' = [sessions EXCEPT ![c.session].status = c.status]
  /\ Done(w)
  /\ UNCHANGED <<event, allocation, rooms, speakers>>

Writable(c) ==
  CASE c.do = "CreateEvent" -> event.status = "none"
    [] c.do = "UpdateEvent" -> EventWritable(c)
    [] c.do = "TransitionEvent" -> StatusWritable(c)
    [] c.do = "SaveTicketType" -> TypeWritable(c)
    [] c.do = "SaveRoom" -> RoomWritable(c)
    [] c.do = "SaveSpeaker" -> TRUE
    [] c.do = "SaveSession" -> SessionWritable(c)
    [] c.do = "SetSessionStatus" -> SessionStatusWritable(c)

(* A trigger, a unique index or an expected value that is gone: nothing is *)
(* written, and the organizer is told to try again.                        *)
Abort(w) ==
  /\ request[w].phase = "checked"
  /\ ~Writable(request[w].command)
  /\ Done(w)
  /\ UNCHANGED <<event, allocation, rooms, speakers, sessions>>

Next ==
  \E w \in Writers :
    \/ Check(w) \/ Reject(w) \/ Abort(w)
    \/ InsertEvent(w) \/ WriteEvent(w) \/ WriteStatus(w)
    \/ WriteTicketType(w)
    \/ WriteRoom(w) \/ WriteSpeaker(w) \/ WriteSession(w) \/ WriteSessionStatus(w)

PlanningSpec == Init /\ [][Next]_vars

-----------------------------------------------------------------------------
(* Types of the state.                                                     *)
PlanningTypeOK ==
  /\ event \in [status : EventStatus, dates : Slots, capacity : Capacities, version : Nat]
  /\ allocation \in [TicketTypes -> 0..MaxCapacity]
  /\ rooms \in [Rooms -> [name : Names, capacity : Capacities] \cup {NoRoom}]
  /\ speakers \subseteq Speakers
  /\ sessions \in [Sessions ->
       [room : Rooms, speaker : Speakers, time : Texts, capacity : Capacities,
        status : SessionStatus] \cup {NoSession}]
  /\ \A w \in Writers : request[w].phase \in {"idle", "checked", "done"}

SameTime(s, t) ==
  /\ Instant(sessions[s].time[1]) < Instant(sessions[t].time[2])
  /\ Instant(sessions[t].time[1]) < Instant(sessions[s].time[2])

(* README.md: conflict prevention.  No two sessions that are not cancelled *)
(* take place at once in one room or with one speaker, however the saves,  *)
(* cancellations and restorations of organizers interleave and whichever   *)
(* spelling their times have.                                              *)
NobodyTwice ==
  \A s, t \in Booked(New) :
    s # t /\ SameTime(s, t) =>
      /\ sessions[s].room # sessions[t].room
      /\ sessions[s].speaker # sessions[t].speaker

(* The sessions, the cancelled ones too, lie within the event.             *)
SessionsInside ==
  \A s \in Scheduled : Fits(sessions[s].time, sessions[s].capacity, event.dates, event.capacity)

(* The joins of the public programme lose no published session, so that    *)
(* visitors see an agenda exactly when the editor counts published         *)
(* sessions and links to it.                                               *)
ProgrammeComplete ==
  /\ PublicEvent => PublishedSessions = PublicProgramme
  /\ ProgrammePage = "agenda" <=> EditorPage.linked /\ Readiness.published > 0

(* The form of a session can always be filled in, and what it offers for a *)
(* session that is not cancelled no trigger refuses: only a restoration    *)
(* can meet a conflict.                                                    *)
FormsHold ==
  \A s \in Scheduled :
    /\ EditorPage.forms[s].editable
    /\ sessions[s].status # "cancelled" =>
         \A to \in EditorPage.forms[s].statuses :
           SessionStatusWritable([session |-> s, status |-> to])

(* README.md: event edits preserve session date and capacity constraints.  *)
(* Sessions lie within the event, and its ticket types never offer more    *)
(* seats than it has, though an edit of the event and a save of a session  *)
(* or a ticket type check each other's old values.  The visitors see every *)
(* published session, and the editor offers what it can do.                *)
PlanInsideEvent ==
  /\ Allocated(TicketTypes) <= event.capacity
  /\ SessionsInside
  /\ ProgrammeComplete
  /\ FormsHold

(* An event that was completed or cancelled stays so, and one that is      *)
(* published never becomes a draft again, though an organizer may act on a *)
(* status that another one has changed.                                    *)
StatusMovesOn ==
  [][event.status \notin {"none", event'.status} =>
       event'.status \in Transitions(event.status)]_vars
=============================================================================
