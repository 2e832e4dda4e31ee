--------------------------- MODULE DevClientProofs ---------------------------
(***************************************************************************)
(* Proofs about the development client, for every number of builds, visits *)
(* and updates.                                                            *)
(***************************************************************************)
EXTENDS DevClient, SequenceTheorems, TLAPS

Loaded == page.phase = "loaded"

(* Only what the server announced since the document loaded is queued, and *)
(* the latest announcement is the last of it.                              *)
QueueInv ==
  /\ \A i \in 1..Len(queue) : queue[i].hash <= server.hash
  /\ stream = "none" => queue = <<>>
  /\ stream = "open" /\ queue # <<>> => queue[Len(queue)] = update

(* Before the first update there is nothing to do.                         *)
SnapshotInv ==
  phase = "Snapshot" =>
    /\ stream # "none" => queue # <<>>
    /\ ~handling
    /\ pending = NothingPending(page.runtime)
    /\ panel.content # "BuildFailed"

(* The client has acknowledged what it was told, and the hash of a build   *)
(* with changed client code is acknowledged by running it.                 *)
CodeInv ==
  /\ ~handling => pending.acknowledged = pending.client
  /\ page.runtime < server.code => pending.acknowledged < server.code
  /\ stream = "open" /\ queue = <<>> /\ update.tag # "BuildFailed" =>
       pending.client = server.hash

(* A Server Component change the page was told of is shown, excused, was   *)
(* replayed with the bundle's own hash, or waits in the queue, in the      *)
(* pending update or in a refresh.                                         *)
Told(i) ==
  /\ queue[i].tag = "RscUpdate"
  /\ phase = "Live" \/ i > 1 \/ queue[i].hash # page.runtime

VersionInv ==
  /\ heard <= server.version
  /\ \/ excused
     \/ page.shown >= heard
     \/ heard = replayed
     \/ \E i \in 1..Len(queue) : Told(i)
     \/ handling /\ pending.rsc = "Pending"
     \/ refresh

(* The panel agrees with the last update that was taken.                   *)
BuildInv ==
  stream = "open" /\ queue = <<>> =>
    (panel.content = "BuildFailed" <=> update.tag = "BuildFailed")

(* A failed screen has diagnostics, or is about to be reported or          *)
(* refreshed.                                                              *)
ScreenInv ==
  /\ statuses # <<>> => statuses[Len(statuses)] = status
  /\ status = "Failed" /\ ~excused =>
       \/ statuses # <<>>
       \/ panel.content \in {"BuildFailed", "RuntimeFailed"}
       \/ handling
       \/ refresh

DocumentInv ==
  /\ QueueInv /\ SnapshotInv /\ CodeInv
  /\ VersionInv /\ BuildInv /\ ScreenInv

ClientInv == TypeOK /\ (Loaded => DocumentInv)

-----------------------------------------------------------------------------
(* Sequences and the panel.                                                *)

LEMMA Appended ==
  ASSUME NEW S, NEW q \in Seq(S), NEW x \in S
  PROVE  /\ Append(q, x) \in Seq(S) /\ Append(q, x) # <<>>
         /\ Len(q) \in Nat /\ Len(Append(q, x)) = Len(q) + 1
         /\ \A i \in 1..Len(q) : Append(q, x)[i] = q[i]
         /\ Append(q, x)[Len(q) + 1] = x
<1>1. /\ Append(q, x) \in Seq(S) /\ Append(q, x) # <<>>
      /\ Len(q) \in Nat /\ Len(Append(q, x)) = Len(q) + 1
  BY AppendProperties, LenProperties
<1>2. /\ \A i \in 1..Len(q) : Append(q, x)[i] = q[i]
      /\ Append(q, x)[Len(q) + 1] = x
  BY AppendProperties
<1> QED
  BY <1>1, <1>2

LEMMA Taken ==
  ASSUME NEW S, NEW q \in Seq(S), q # <<>>
  PROVE  /\ Head(q) \in S /\ Head(q) = q[1]
         /\ Tail(q) \in Seq(S)
         /\ Len(q) \in Nat /\ Len(q) > 0 /\ Len(Tail(q)) = Len(q) - 1
         /\ \A i \in 1..Len(q) - 1 : Tail(q)[i] = q[i + 1]
         /\ Tail(q) = <<>> <=> Len(q) = 1
<1>1. /\ Head(q) \in S /\ Tail(q) \in Seq(S) /\ Len(q) \in Nat
      /\ Len(Tail(q)) = Len(q) - 1
  BY HeadTailProperties, LenProperties
<1>2. \A i \in 1..Len(q) - 1 : Tail(q)[i] = q[i + 1]
  BY HeadTailProperties
<1>3. Len(q) > 0
  <2>1. Len(q) # 0
    BY EmptySeq
  <2> QED
    BY <1>1, <2>1
<1>4. Tail(q) = <<>> <=> Len(Tail(q)) = 0
  BY <1>1, EmptySeq
<1>5. Head(q) = q[1]
  OBVIOUS
<1> QED
  BY <1>1, <1>2, <1>3, <1>4, <1>5

Events ==
  {"Warning", "RenderFailed", "BuildFailed", "RuntimeFailed", "BuildSucceeded",
   "RuntimeReconciled", "Opened", "Dismissed"}

(* Only builds show and clear the diagnostics of a build.                  *)
LEMMA ApplyFacts ==
  ASSUME NEW state \in Panels
  PROVE  /\ \A event \in Events : Apply(state, event) \in Panels
         /\ Apply(state, "BuildFailed").content = "BuildFailed"
         /\ Apply(state, "BuildSucceeded").content # "BuildFailed"
         /\ state.content # "BuildFailed" => Apply(state, "BuildSucceeded") = state
         /\ \A event \in {"RenderFailed", "RuntimeFailed"} :
              Apply(state, event).content =
                IF state.content = "BuildFailed" THEN "BuildFailed" ELSE "RuntimeFailed"
         /\ Apply(state, "RuntimeReconciled").content = "BuildFailed" <=>
              state.content = "BuildFailed"
         /\ \A event \in {"Opened", "Dismissed"} : Apply(state, event).content = state.content
BY DEF Apply, Panels, Events, Visible, Inactive

-----------------------------------------------------------------------------
(* The server.                                                             *)

LEMMA BuildFacts ==
  ASSUME TypeOK, NEW client \in BOOLEAN, NEW rsc \in BOOLEAN, NEW fresh \in BOOLEAN,
         BuildSucceeds(client, rsc, fresh)
  PROVE  /\ server'.hash \in Nat /\ server'.hash >= server.hash
         /\ server'.code \in 0..server'.hash
         /\ server'.code = server.code \/ server'.code > server.hash
         /\ server'.version \in Nat /\ server'.version >= server.version
         /\ server' \in [builds : Nat, hash : Nat, code : 0..server'.hash, version : Nat]
         /\ update' \in Updates /\ update'.hash = server'.hash /\ update'.tag # "BuildFailed"
         /\ rsc => update'.tag = "RscUpdate"
<1> DEFINE hash == IF fresh THEN server.hash + 1 ELSE server.hash
           code == IF client THEN hash ELSE server.code
           version == IF rsc THEN server.version + 1 ELSE server.version
<1>1. /\ server.builds \in Nat /\ server.hash \in Nat /\ server.version \in Nat
      /\ server.code \in Nat /\ server.code <= server.hash
  BY DEF TypeOK
<1>2. /\ server' = [builds |-> server.builds + 1, hash |-> hash, code |-> code,
                    version |-> version]
      /\ update' = [tag |-> IF rsc THEN "RscUpdate" ELSE "ClientUpdate", hash |-> hash]
      /\ client => fresh
  BY DEF BuildSucceeds, Announce, Update
<1>3. /\ hash \in Nat /\ hash >= server.hash /\ code \in 0..hash
      /\ code = server.code \/ code > server.hash
      /\ version \in Nat /\ version >= server.version
  BY <1>1, <1>2
<1>4. update' \in Updates
  BY <1>2, <1>3 DEF Updates
<1> HIDE DEF hash, code, version
<1> QED
  BY <1>1, <1>2, <1>3, <1>4

(* What an announcement does to the queue of a page.                       *)
LEMMA Announced ==
  ASSUME ClientInv, Loaded, update' \in Updates, update'.hash = server'.hash,
         server'.hash \in Nat, server'.hash >= server.hash, Announce(update'),
         UNCHANGED <<page, stream, phase>>
  PROVE  /\ queue' \in Seq(Updates)
         /\ QueueInv'
         /\ stream = "open" => queue' # <<>> /\ Len(queue') = Len(queue) + 1
         /\ stream # "open" => queue' = queue
         /\ queue # <<>> => queue' # <<>>
         /\ \A i \in 1..Len(queue) : i \in 1..Len(queue') /\ queue'[i] = queue[i]
         /\ stream = "open" => queue'[Len(queue')] = update'
<1>1. /\ queue \in Seq(Updates) /\ Len(queue) \in Nat
      /\ server.hash \in Nat
      /\ \A i \in 1..Len(queue) : queue[i] \in Updates
  BY LenProperties, ElementOfSeq DEF ClientInv, TypeOK
<1>2. CASE stream = "open"
  <2>1. queue' = Append(queue, update')
    BY <1>2 DEF Announce
  <2>2. /\ queue' \in Seq(Updates) /\ queue' # <<>>
        /\ Len(queue') = Len(queue) + 1
        /\ \A i \in 1..Len(queue) : queue'[i] = queue[i]
        /\ queue'[Len(queue) + 1] = update'
    BY <1>1, <2>1, Appended
  <2>3. \A i \in 1..Len(queue') : queue'[i].hash <= server'.hash
    <3>1. ASSUME NEW i \in 1..Len(queue) PROVE queue'[i].hash <= server'.hash
      <4>1. queue[i].hash \in Nat /\ queue[i].hash <= server.hash
        BY <1>1 DEF Updates, ClientInv, DocumentInv, QueueInv
      <4> QED
        BY <1>1, <2>2, <4>1
    <3> QED
      BY <1>1, <2>2, <3>1
  <2>4. QueueInv'
    BY <1>2, <2>2, <2>3 DEF QueueInv
  <2> QED
    BY <1>1, <1>2, <2>2, <2>4
<1>3. CASE stream # "open"
  <2>1. queue' = queue
    BY <1>3 DEF Announce
  <2>2. ASSUME NEW i \in 1..Len(queue) PROVE queue[i].hash <= server'.hash
    <3>1. queue[i].hash \in Nat /\ queue[i].hash <= server.hash
      BY <1>1 DEF Updates, ClientInv, DocumentInv, QueueInv
    <3> QED
      BY <1>1, <3>1
  <2>3. QueueInv'
    BY <1>3, <2>1, <2>2 DEF QueueInv, ClientInv, DocumentInv
  <2> QED
    BY <1>1, <1>3, <2>1, <2>3
<1> QED
  BY <1>2, <1>3

LEMMA AnnouncedTypes ==
  ASSUME TypeOK, update' \in Updates, update'.hash = server'.hash,
         server' \in [builds : Nat, hash : Nat, code : 0..server'.hash, version : Nat],
         server'.hash >= server.hash, Announce(update'), heard' \in Nat,
         UNCHANGED <<page, stream, phase, pending, handling, again, screenVars, panel, visits,
                     replayed, excused>>
  PROVE  TypeOK'
<1>1. queue' \in Seq(Updates)
  BY Appended DEF Announce, TypeOK
<1>2. /\ server.hash \in Nat /\ server'.hash \in Nat
      /\ \A n \in 0..server.hash : n \in 0..server'.hash
  BY DEF TypeOK
<1>3. page' \in [phase : {"loading", "loaded"}, runtime : 0..server'.hash, shown : Nat]
  BY <1>2 DEF TypeOK
<1>4. pending' \in [acknowledged : 0..server'.hash, client : 0..server'.hash,
                    rsc : {"Current", "Pending"}]
  BY <1>2 DEF TypeOK
<1> QED
  BY <1>1, <1>3, <1>4 DEF TypeOK, screenVars

LEMMA BuildSucceedsStep ==
  ASSUME ClientInv, NEW client \in BOOLEAN, NEW rsc \in BOOLEAN, NEW fresh \in BOOLEAN,
         BuildSucceeds(client, rsc, fresh)
  PROVE  ClientInv'
<1>1. /\ server'.hash \in Nat /\ server'.hash >= server.hash
      /\ server'.code \in 0..server'.hash
      /\ server'.code = server.code \/ server'.code > server.hash
      /\ server'.version \in Nat /\ server'.version >= server.version
      /\ server' \in [builds : Nat, hash : Nat, code : 0..server'.hash, version : Nat]
      /\ update' \in Updates /\ update'.hash = server'.hash /\ update'.tag # "BuildFailed"
      /\ rsc => update'.tag = "RscUpdate"
  BY BuildFacts DEF ClientInv
<1>2. /\ UNCHANGED <<page, stream, phase, pending, handling, again, screenVars, panel, visits,
                     replayed, excused>>
      /\ heard' = IF stream = "open" /\ rsc THEN server'.version ELSE heard
      /\ Announce(update')
  BY DEF BuildSucceeds, Announce
<1>3. TypeOK'
  <2>1. heard' \in Nat
    BY <1>1, <1>2 DEF ClientInv, TypeOK
  <2> QED
    BY <1>1, <1>2, <2>1, AnnouncedTypes DEF ClientInv
<1>4. SUFFICES ASSUME Loaded, DocumentInv PROVE DocumentInv'
  BY <1>2, <1>3 DEF ClientInv, Loaded
<1>5. /\ queue' \in Seq(Updates) /\ Len(queue) \in Nat
      /\ QueueInv'
      /\ stream = "open" => queue' # <<>> /\ Len(queue') = Len(queue) + 1
      /\ stream # "open" => queue' = queue
      /\ queue # <<>> => queue' # <<>>
      /\ \A i \in 1..Len(queue) : i \in 1..Len(queue') /\ queue'[i] = queue[i]
      /\ stream = "open" => queue'[Len(queue')] = update'
  BY <1>1, <1>2, <1>4, Announced, LenProperties DEF ClientInv, TypeOK
<1>6. SnapshotInv'
  BY <1>2, <1>4, <1>5 DEF DocumentInv, SnapshotInv
<1>7. CodeInv'
  <2>1. /\ page.runtime \in Nat /\ pending.acknowledged \in Nat /\ server.code \in Nat
        /\ pending.acknowledged <= server.hash /\ server.hash \in Nat
    BY <1>4 DEF ClientInv, TypeOK
  <2>2. page.runtime < server'.code => pending.acknowledged < server'.code
    BY <1>1, <1>4, <2>1 DEF DocumentInv, CodeInv
  <2> QED
    BY <1>2, <1>4, <1>5, <2>2 DEF DocumentInv, CodeInv
<1>8. VersionInv'
  <2>1. heard \in Nat /\ server.version \in Nat /\ page.shown \in Nat
    BY DEF ClientInv, TypeOK
  <2>2. heard' <= server'.version
    BY <1>1, <1>2, <1>4, <2>1 DEF DocumentInv, VersionInv
  <2>3. CASE stream = "open" /\ rsc
    <3>1. PICK n \in Nat : n = Len(queue') /\ n = Len(queue) + 1 /\ n \in 1..Len(queue')
      BY <1>5, <2>3
    <3>2. phase = "Live" \/ n > 1
      <4>1. phase = "Live" \/ queue # <<>>
        BY <1>4, <2>3 DEF DocumentInv, SnapshotInv, ClientInv, TypeOK
      <4>2. queue # <<>> => Len(queue) # 0
        BY <1>5, EmptySeq DEF ClientInv, TypeOK
      <4> QED
        BY <1>5, <3>1, <4>1, <4>2
    <3>3. Told(n)'
      BY <1>1, <1>2, <1>5, <2>3, <3>1, <3>2 DEF Told
    <3> QED
      BY <2>2, <3>1, <3>3 DEF VersionInv
  <2>4. CASE ~(stream = "open" /\ rsc)
    <3>1. heard' = heard
      BY <1>2, <2>4
    <3>2. \A i \in 1..Len(queue) : Told(i) => Told(i)'
      BY <1>2, <1>5 DEF Told
    <3>3. (\E i \in 1..Len(queue) : Told(i)) => (\E i \in 1..Len(queue') : Told(i)')
      BY <1>5, <3>2
    <3> QED
      BY <1>2, <1>4, <2>2, <3>1, <3>3 DEF DocumentInv, VersionInv, screenVars
  <2> QED
    BY <2>3, <2>4
<1>9. BuildInv'
  BY <1>2, <1>4, <1>5 DEF DocumentInv, BuildInv
<1>10. ScreenInv'
  BY <1>2, <1>4 DEF DocumentInv, ScreenInv, screenVars
<1> QED
  BY <1>5, <1>6, <1>7, <1>8, <1>9, <1>10 DEF DocumentInv

LEMMA BuildFailsStep == ClientInv /\ BuildFails => ClientInv'
<1> SUFFICES ASSUME ClientInv, BuildFails PROVE ClientInv'
  OBVIOUS
<1>1. /\ UNCHANGED <<page, stream, phase, pending, handling, again, screenVars, panel, visits,
                     heard, replayed, excused>>
      /\ update' = [tag |-> "BuildFailed", hash |-> server.hash]
      /\ Announce(update')
      /\ server' = [server EXCEPT !.builds = @ + 1]
  BY DEF BuildFails, heardVars, Announce, Update
<1>2. /\ server' \in [builds : Nat, hash : Nat, code : 0..server'.hash, version : Nat]
      /\ server'.hash = server.hash /\ server'.code = server.code
      /\ server'.version = server.version
      /\ server.hash \in Nat
  <2>1. server \in [builds : Nat, hash : Nat, code : 0..server.hash, version : Nat]
    BY DEF ClientInv, TypeOK
  <2> QED
    BY <1>1, <2>1
<1>3. /\ update' \in Updates /\ update'.hash = server'.hash /\ update'.tag = "BuildFailed"
      /\ server'.hash >= server.hash
  BY <1>1, <1>2 DEF Updates
<1>4. TypeOK'
  <2>1. heard' \in Nat
    BY <1>1 DEF ClientInv, TypeOK
  <2> QED
    BY <1>1, <1>2, <1>3, <2>1, AnnouncedTypes DEF ClientInv
<1>5. SUFFICES ASSUME Loaded, DocumentInv PROVE DocumentInv'
  BY <1>1, <1>4 DEF ClientInv, Loaded
<1>6. /\ queue' \in Seq(Updates) /\ Len(queue) \in Nat
      /\ QueueInv'
      /\ stream = "open" => queue' # <<>>
      /\ queue # <<>> => queue' # <<>>
      /\ \A i \in 1..Len(queue) : i \in 1..Len(queue') /\ queue'[i] = queue[i]
  BY <1>1, <1>2, <1>3, <1>5, Announced, LenProperties DEF ClientInv, TypeOK
<1>7. SnapshotInv' /\ BuildInv'
  BY <1>1, <1>5, <1>6 DEF DocumentInv, SnapshotInv, BuildInv
<1>8. CodeInv'
  BY <1>1, <1>2, <1>5, <1>6 DEF DocumentInv, CodeInv
<1>9. VersionInv'
  <2>1. \A i \in 1..Len(queue) : Told(i) => Told(i)'
    BY <1>1, <1>6 DEF Told
  <2>2. (\E i \in 1..Len(queue) : Told(i)) => (\E i \in 1..Len(queue') : Told(i)')
    BY <1>6, <2>1
  <2> QED
    BY <1>1, <1>2, <1>5, <2>2 DEF DocumentInv, VersionInv, screenVars
<1>10. ScreenInv'
  BY <1>1, <1>5 DEF DocumentInv, ScreenInv, screenVars
<1> QED
  BY <1>6, <1>7, <1>8, <1>9, <1>10 DEF DocumentInv

-----------------------------------------------------------------------------
(* The document and the subscription.                                      *)

LEMMA LoadDocumentStep == ClientInv /\ LoadDocument => ClientInv'
<1> SUFFICES ASSUME ClientInv, LoadDocument PROVE ClientInv'
  OBVIOUS
<1>1. /\ server.hash \in Nat /\ server.code \in 0..server.hash /\ server.version \in Nat
  BY DEF ClientInv, TypeOK
<1>2. /\ server' = server /\ update' = update /\ visits' = visits
      /\ page' = [phase |-> "loaded", runtime |-> server.hash, shown |-> server.version]
      /\ status' = "Waiting" /\ statuses' = <<"Waiting">>
      /\ stream' = "none" /\ phase' = "Snapshot" /\ queue' = <<>>
      /\ pending' = NothingPending(server.hash)
      /\ handling' = FALSE /\ again' = FALSE /\ refresh' = FALSE
      /\ panel' \in {Inactive, Apply(Inactive, "Warning")}
      /\ heard' = 0 /\ replayed' = 0 /\ excused' = FALSE
  BY DEF LoadDocument, buildVars
<1>3. panel' \in Panels /\ panel'.content \in {"None", "Warning"}
  BY <1>2 DEF Apply, Inactive, Visible, Panels
<1>4. /\ statuses' \in Seq(Statuses) /\ Len(statuses') = 1 /\ statuses'[1] = "Waiting"
      /\ queue' \in Seq(Updates) /\ Len(queue') = 0
  BY <1>2 DEF Statuses
<1>5. TypeOK'
  <2>1. page' \in [phase : {"loading", "loaded"}, runtime : 0..server'.hash, shown : Nat]
    BY <1>1, <1>2
  <2>2. pending' \in [acknowledged : 0..server'.hash, client : 0..server'.hash,
                      rsc : {"Current", "Pending"}]
    BY <1>1, <1>2 DEF NothingPending
  <2>3. heard' \in Nat /\ replayed' \in Nat
    BY <1>2
  <2>4. /\ server' \in [builds : Nat, hash : Nat, code : 0..server'.hash, version : Nat]
        /\ update' \in Updates /\ update'.hash = server'.hash
    BY <1>2 DEF ClientInv, TypeOK
  <2>5. /\ status' \in Statuses /\ stream' \in {"none", "open", "lost"}
        /\ phase' \in {"Snapshot", "Live"} /\ visits' \in Nat
    BY <1>2 DEF ClientInv, TypeOK, Statuses
  <2> QED
    BY <1>2, <1>3, <1>4, <2>1, <2>2, <2>3, <2>4, <2>5 DEF TypeOK
<1>6. QueueInv' /\ SnapshotInv' /\ BuildInv' /\ ScreenInv'
  BY <1>2, <1>3, <1>4 DEF QueueInv, SnapshotInv, BuildInv, ScreenInv
<1>7. CodeInv' /\ VersionInv'
  BY <1>1, <1>2 DEF CodeInv, VersionInv, NothingPending
<1> QED
  BY <1>5, <1>6, <1>7 DEF ClientInv, DocumentInv

LEMMA ReloadByHandStep == ClientInv /\ ReloadByHand => ClientInv'
<1> SUFFICES ASSUME ClientInv, ReloadByHand PROVE ClientInv'
  OBVIOUS
<1>1. /\ UNCHANGED <<server, update, stream, phase, queue, pending, handling, again, status,
                     statuses, refresh, panel, heard, replayed, excused>>
      /\ page' = [page EXCEPT !.phase = "loading"]
      /\ visits' = visits + 1
  BY DEF ReloadByHand, heardVars, Unload, Visit, buildVars, clientVars, screenVars
<1>2. /\ page' \in [phase : {"loading", "loaded"}, runtime : 0..server'.hash, shown : Nat]
      /\ page'.phase = "loading" /\ visits' \in Nat
  <2>1. /\ page \in [phase : {"loading", "loaded"}, runtime : 0..server.hash, shown : Nat]
        /\ visits \in Nat /\ server' = server
    BY <1>1 DEF ClientInv, TypeOK
  <2>2. visits' \in Nat
    BY <1>1, <2>1
  <2> QED
    BY <1>1, <2>1, <2>2
<1>3. TypeOK'
  BY <1>1, <1>2 DEF ClientInv, TypeOK
<1> QED
  BY <1>2, <1>3 DEF ClientInv, Loaded

LEMMA SubscribeStep == ClientInv /\ Subscribe => ClientInv'
<1> SUFFICES ASSUME ClientInv, Subscribe PROVE ClientInv'
  OBVIOUS
<1>1. /\ UNCHANGED <<server, update, page, phase, pending, handling, again, status, statuses,
                     refresh, panel, visits, excused>>
      /\ stream = "none" /\ stream' = "open" /\ queue' = <<update>>
      /\ heard' = IF update.tag = "RscUpdate" THEN server.version ELSE 0
      /\ replayed' = IF update.hash = page.runtime THEN heard' ELSE 0
      /\ Loaded
  BY DEF Subscribe, heardVars, buildVars, screenVars, Loaded
<1>2. /\ update \in Updates /\ update.hash = server.hash /\ server.hash \in Nat
      /\ server.version \in Nat /\ page.shown \in Nat
  BY DEF ClientInv, TypeOK
<1>3. /\ queue' \in Seq(Updates) /\ Len(queue') = 1 /\ queue'[1] = update /\ queue' # <<>>
  BY <1>1, <1>2
<1>4. TypeOK'
  BY <1>1, <1>2, <1>3 DEF ClientInv, TypeOK
<1>5. QueueInv'
  BY <1>1, <1>2, <1>3 DEF QueueInv
<1>6. SnapshotInv' /\ CodeInv' /\ BuildInv' /\ ScreenInv'
  BY <1>1, <1>3 DEF ClientInv, DocumentInv, SnapshotInv, CodeInv, BuildInv, ScreenInv
<1>7. VersionInv'
  <2>1. heard' <= server'.version
    BY <1>1, <1>2
  <2>2. CASE update.tag = "RscUpdate" /\ update.hash # page.runtime
    <3>1. Told(1)' /\ 1 \in 1..Len(queue')
      BY <1>1, <1>3, <2>2 DEF Told
    <3> QED
      BY <2>1, <3>1 DEF VersionInv
  <2>3. CASE ~(update.tag = "RscUpdate" /\ update.hash # page.runtime)
    BY <1>1, <1>2, <2>1, <2>3 DEF VersionInv
  <2> QED
    BY <2>2, <2>3
<1> QED
  BY <1>4, <1>5, <1>6, <1>7 DEF ClientInv, DocumentInv

LEMMA LoseStreamStep == ClientInv /\ LoseStream => ClientInv'
<1> SUFFICES ASSUME ClientInv, LoseStream PROVE ClientInv'
  OBVIOUS
<1>1. /\ UNCHANGED <<server, update, page, phase, queue, pending, handling, again, status,
                     statuses, refresh, panel, visits, heard, replayed, excused>>
      /\ stream = "open" /\ stream' = "lost" /\ Loaded
  BY DEF LoseStream, heardVars, buildVars, screenVars, Loaded
<1>2. TypeOK'
  BY <1>1 DEF ClientInv, TypeOK
<1>3. QueueInv' /\ SnapshotInv' /\ CodeInv' /\ BuildInv' /\ ScreenInv'
  BY <1>1 DEF ClientInv, DocumentInv, QueueInv, SnapshotInv, CodeInv, BuildInv, ScreenInv
<1>4. VersionInv'
  BY <1>1 DEF ClientInv, DocumentInv, VersionInv, Told
<1> QED
  BY <1>2, <1>3, <1>4 DEF ClientInv, DocumentInv

-----------------------------------------------------------------------------
(* Updates.                                                                *)

LEMMA TakeUpdateStep == ClientInv /\ TakeUpdate => ClientInv'
<1> SUFFICES ASSUME ClientInv, TakeUpdate PROVE ClientInv'
  OBVIOUS
<1> DEFINE message == Head(queue)
<1>1. /\ UNCHANGED <<server, update, page, stream, again, status, statuses, refresh, visits,
                     heard, replayed, excused>>
      /\ Loaded /\ ~handling /\ queue # <<>>
      /\ queue' = Tail(queue) /\ phase' = "Live"
  BY DEF TakeUpdate, heardVars, buildVars, screenVars, Loaded
<1>2. /\ message \in Updates /\ message = queue[1]
      /\ queue' \in Seq(Updates) /\ Len(queue) \in Nat /\ Len(queue) > 0
      /\ Len(queue') = Len(queue) - 1
      /\ \A i \in 1..Len(queue) - 1 : queue'[i] = queue[i + 1]
      /\ queue' = <<>> <=> Len(queue) = 1
  BY <1>1, Taken DEF ClientInv, TypeOK
<1>3. /\ message.tag = "BuildFailed" =>
           panel' = Apply(panel, "BuildFailed") /\ UNCHANGED <<pending, handling>>
      /\ message.tag # "BuildFailed" =>
           /\ panel' = Apply(panel, "BuildSucceeded")
           /\ ConcernsPage(message) => pending' = Record(message) /\ handling' = TRUE
           /\ ~ConcernsPage(message) => UNCHANGED <<pending, handling>>
  BY DEF TakeUpdate, heardVars
<1> HIDE DEF message
<1>4. /\ server.hash \in Nat /\ message.hash \in Nat /\ message.hash <= server.hash
      /\ update.hash = server.hash
      /\ 1 \in 1..Len(queue)
  BY <1>1, <1>2 DEF Updates, ClientInv, DocumentInv, QueueInv, TypeOK
<1>5. /\ panel \in Panels /\ panel' \in Panels
      /\ message.tag = "BuildFailed" => panel'.content = "BuildFailed"
      /\ message.tag # "BuildFailed" => panel'.content # "BuildFailed"
      /\ message.tag # "BuildFailed" /\ panel.content # "BuildFailed" => panel' = panel
  BY <1>3, ApplyFacts DEF ClientInv, TypeOK, Events
<1>6. TypeOK'
  <2>1. pending' \in [acknowledged : 0..server'.hash, client : 0..server'.hash,
                      rsc : {"Current", "Pending"}]
    BY <1>1, <1>3, <1>4 DEF ClientInv, TypeOK, Record
  <2>2. handling' \in BOOLEAN
    BY <1>3 DEF ClientInv, TypeOK
  <2> QED
    BY <1>1, <1>2, <1>5, <2>1, <2>2 DEF ClientInv, TypeOK
<1>7. QueueInv'
  <2>1. \A i \in 1..Len(queue') : queue'[i].hash <= server'.hash
    BY <1>1, <1>2 DEF ClientInv, DocumentInv, QueueInv
  <2>2. stream # "none"
    BY <1>1 DEF ClientInv, DocumentInv, QueueInv
  <2>3. stream = "open" /\ queue' # <<>> => queue'[Len(queue')] = update
    <3>1. SUFFICES ASSUME stream = "open", queue' # <<>> PROVE queue'[Len(queue')] = update
      OBVIOUS
    <3>2. Len(queue) - 1 \in 1..Len(queue) - 1 /\ (Len(queue) - 1) + 1 = Len(queue)
      BY <1>2, <3>1
    <3>3. queue'[Len(queue')] = queue[Len(queue)]
      BY <1>2, <3>2
    <3> QED
      BY <1>1, <3>1, <3>3 DEF ClientInv, DocumentInv, QueueInv
  <2> QED
    BY <1>1, <2>1, <2>2, <2>3 DEF QueueInv
<1>8. stream = "open" /\ queue' = <<>> => message = update
  BY <1>1, <1>2 DEF ClientInv, DocumentInv, QueueInv
<1>9. SnapshotInv'
  BY <1>1 DEF SnapshotInv
<1>10. CodeInv'
  <2>1. /\ ~handling' => pending'.acknowledged = pending'.client
        /\ pending'.acknowledged = pending.acknowledged
    BY <1>1, <1>3 DEF ClientInv, DocumentInv, CodeInv, Record
  <2>2. ASSUME stream = "open", queue' = <<>>, update.tag # "BuildFailed"
        PROVE  pending'.client = server.hash
    <3>1. CASE ConcernsPage(message)
      BY <1>3, <1>4, <1>8, <2>2, <3>1 DEF Record
    <3>2. CASE ~ConcernsPage(message)
      <4>1. phase = "Snapshot" /\ message.hash = page.runtime
        BY <3>2 DEF ConcernsPage, ClientInv, TypeOK
      <4>2. pending' = pending /\ pending.client = page.runtime
        BY <1>1, <1>3, <1>8, <2>2, <3>2, <4>1
        DEF ClientInv, DocumentInv, SnapshotInv, NothingPending
      <4> QED
        BY <1>4, <1>8, <2>2, <4>1, <4>2
    <3> QED
      BY <3>1, <3>2
  <2> QED
    BY <1>1, <2>1, <2>2 DEF ClientInv, DocumentInv, CodeInv
<1>11. VersionInv'
  <2>1. CASE \E i \in 1..Len(queue) : Told(i)
    <3>1. PICK i \in 1..Len(queue) : Told(i)
      BY <2>1
    <3>2. CASE i = 1
      <4>1. message.tag = "RscUpdate" /\ ConcernsPage(message)
        BY <1>2, <3>1, <3>2 DEF Told, ConcernsPage
      <4>2. handling' /\ pending'.rsc = "Pending"
        BY <1>3, <4>1 DEF Record
      <4> QED
        BY <1>1, <4>2 DEF ClientInv, DocumentInv, VersionInv
    <3>3. CASE i # 1
      <4>1. i - 1 \in 1..Len(queue') /\ queue'[i - 1] = queue[i]
        BY <1>2, <3>1, <3>3
      <4>2. PICK j \in 1..Len(queue') : queue'[j].tag = "RscUpdate"
        BY <3>1, <4>1 DEF Told
      <4>3. Told(j)'
        BY <1>1, <4>2 DEF Told
      <4> QED
        BY <1>1, <4>3 DEF ClientInv, DocumentInv, VersionInv
    <3> QED
      BY <3>2, <3>3
  <2>2. CASE ~\E i \in 1..Len(queue) : Told(i)
    BY <1>1, <2>2 DEF ClientInv, DocumentInv, VersionInv
  <2> QED
    BY <2>1, <2>2
<1>12. BuildInv'
  BY <1>1, <1>5, <1>8 DEF BuildInv
<1>13. ScreenInv'
  <2>1. ASSUME status = "Failed", ~excused
        PROVE  statuses # <<>> \/ panel'.content \in {"BuildFailed", "RuntimeFailed"}
               \/ handling' \/ refresh
    <3>1. statuses # <<>> \/ panel.content \in {"BuildFailed", "RuntimeFailed"} \/ refresh
      BY <1>1, <2>1 DEF ClientInv, DocumentInv, ScreenInv
    <3>2. CASE message.tag = "BuildFailed"
      BY <1>5, <3>2
    <3>3. CASE message.tag # "BuildFailed" /\ ConcernsPage(message)
      BY <1>3, <3>3
    <3>4. CASE message.tag # "BuildFailed" /\ ~ConcernsPage(message)
      <4>1. phase = "Snapshot"
        BY <3>4 DEF ConcernsPage, ClientInv, TypeOK
      <4>2. panel' = panel
        BY <1>1, <1>5, <3>4, <4>1 DEF ClientInv, DocumentInv, SnapshotInv
      <4> QED
        BY <3>1, <4>2
    <3> QED
      BY <3>2, <3>3, <3>4
  <2> QED
    BY <1>1, <2>1 DEF ClientInv, DocumentInv, ScreenInv
<1> QED
  BY <1>6, <1>7, <1>9, <1>10, <1>11, <1>12, <1>13 DEF ClientInv, DocumentInv

LEMMA CheckUpdateStep == ClientInv /\ CheckUpdate => ClientInv'
<1> SUFFICES ASSUME ClientInv, CheckUpdate PROVE ClientInv'
  OBVIOUS
<1>1. /\ UNCHANGED <<server, update, stream, phase, queue, handling, status, statuses, refresh,
                     panel, visits, heard, replayed, excused>>
      /\ Loaded /\ handling /\ again' = ~again
  BY DEF CheckUpdate, heardVars, buildVars, screenVars, Loaded
<1>2. PICK check \in Checks :
        IF Decide(check).tag = "Reload"
        THEN Unload /\ UNCHANGED pending
        ELSE /\ page' = [page EXCEPT !.runtime = check.current]
             /\ pending' = [pending EXCEPT !.acknowledged = Decide(check).acknowledged]
  BY DEF CheckUpdate, heardVars
<1>3. /\ server.hash \in Nat /\ page.runtime \in 0..server.hash /\ again' \in BOOLEAN
      /\ pending.client \in 0..server.hash
      /\ page \in [phase : {"loading", "loaded"}, runtime : 0..server.hash, shown : Nat]
      /\ pending \in [acknowledged : 0..server.hash, client : 0..server.hash,
                      rsc : {"Current", "Pending"}]
  BY <1>1 DEF ClientInv, TypeOK
<1>4. CASE Decide(check).tag = "Reload"
  <2>1. page' = [page EXCEPT !.phase = "loading"] /\ pending' = pending
    BY <1>2, <1>4 DEF Unload
  <2>2. /\ page' \in [phase : {"loading", "loaded"}, runtime : 0..server'.hash, shown : Nat]
        /\ page'.phase = "loading"
    BY <1>1, <1>3, <2>1
  <2> QED
    BY <1>1, <1>3, <2>1, <2>2 DEF ClientInv, TypeOK, Loaded
<1>5. CASE Decide(check).tag # "Reload"
  <2>1. /\ check.tag = "Completed" /\ check.previous = page.runtime
        /\ check.current \in page.runtime..server.hash /\ check.modules \in BOOLEAN
        /\ check.current = page.runtime /\ ~check.modules => server.code <= page.runtime
    BY <1>2, <1>5 DEF Checks, Decide, Reload
  <2>2. PICK acknowledged \in 0..server.hash :
          /\ pending' = [pending EXCEPT !.acknowledged = acknowledged]
          /\ \/ acknowledged = check.current
             \/ server.code <= page.runtime /\ check.current = page.runtime
    <3>1. CASE check.current # check.previous
      <4>1. Decide(check) = Retry(check.current)
        BY <2>1, <3>1 DEF Decide
      <4> QED
        BY <1>2, <1>3, <1>5, <2>1, <4>1 DEF Retry
    <3>2. CASE check.current = check.previous
      <4>1. ~check.modules /\ Decide(check) = Retry(pending.client)
        BY <1>5, <2>1, <3>2 DEF Decide, Reload
      <4> QED
        BY <1>2, <1>3, <1>5, <2>1, <3>2, <4>1 DEF Retry
    <3> QED
      BY <3>1, <3>2
  <2>3. page' = [page EXCEPT !.runtime = check.current]
    BY <1>2, <1>5
  <2>4. /\ page'.runtime = check.current /\ page'.shown = page.shown /\ page'.phase = page.phase
        /\ pending'.acknowledged = acknowledged /\ pending'.client = pending.client
        /\ pending'.rsc = pending.rsc
        /\ page' \in [phase : {"loading", "loaded"}, runtime : 0..server.hash, shown : Nat]
        /\ pending' \in [acknowledged : 0..server.hash, client : 0..server.hash,
                         rsc : {"Current", "Pending"}]
    BY <1>3, <2>1, <2>2, <2>3
  <2>5. TypeOK'
    BY <1>1, <1>3, <2>4 DEF ClientInv, TypeOK
  <2>6. phase = "Live"
    BY <1>1 DEF ClientInv, DocumentInv, SnapshotInv, TypeOK
  <2>7. QueueInv' /\ SnapshotInv' /\ BuildInv' /\ ScreenInv'
    BY <1>1, <2>6 DEF ClientInv, DocumentInv, QueueInv, SnapshotInv, BuildInv, ScreenInv
  <2>8. CodeInv'
    <3>1. server.code \in Nat
      BY DEF ClientInv, TypeOK
    <3>2. page'.runtime < server.code => pending'.acknowledged < server.code
      BY <1>3, <2>1, <2>2, <2>4, <3>1
    <3> QED
      BY <1>1, <2>4, <3>2 DEF ClientInv, DocumentInv, CodeInv
  <2>9. VersionInv'
    <3>1. \A i \in 1..Len(queue) : Told(i) => Told(i)'
      BY <1>1, <2>6 DEF Told
    <3> QED
      BY <1>1, <2>4, <3>1 DEF ClientInv, DocumentInv, VersionInv
  <2> QED
    BY <2>5, <2>7, <2>8, <2>9 DEF ClientInv, DocumentInv
<1> QED
  BY <1>4, <1>5

LEMMA SettleUpdateStep == ClientInv /\ SettleUpdate => ClientInv'
<1> SUFFICES ASSUME ClientInv, SettleUpdate PROVE ClientInv'
  OBVIOUS
<1>1. /\ UNCHANGED <<server, update, stream, phase, queue, status, statuses, visits, heard, replayed,
                     excused>>
      /\ Loaded /\ handling /\ handling' = FALSE /\ again' = FALSE
      /\ pending.acknowledged = pending.client
      /\ pending' = [pending EXCEPT !.rsc = "Current"]
  BY DEF SettleUpdate, heardVars, buildVars, Loaded
<1>2. /\ pending' \in [acknowledged : 0..server'.hash, client : 0..server'.hash,
                       rsc : {"Current", "Pending"}]
      /\ pending'.acknowledged = pending.acknowledged /\ pending'.client = pending.client
  BY <1>1 DEF ClientInv, TypeOK
<1>3. phase = "Live"
  BY <1>1 DEF ClientInv, DocumentInv, SnapshotInv, TypeOK
<1>4. CASE (pending.rsc = "Pending" \/ status = "Failed") /\ status = "Waiting"
  <2>1. page' = [page EXCEPT !.phase = "loading"] /\ refresh' = refresh /\ panel' = panel
    BY <1>4 DEF SettleUpdate, heardVars, RefreshCurrentRoute, Unload
  <2>2. /\ page' \in [phase : {"loading", "loaded"}, runtime : 0..server'.hash, shown : Nat]
        /\ page'.phase = "loading"
    BY <1>1, <2>1 DEF ClientInv, TypeOK
  <2> QED
    BY <1>1, <1>2, <2>1, <2>2 DEF ClientInv, TypeOK, Loaded
<1>5. CASE ~((pending.rsc = "Pending" \/ status = "Failed") /\ status = "Waiting")
  <2>1. /\ page' = page
        /\ pending.rsc = "Pending" \/ status = "Failed" => refresh' = TRUE /\ panel' = panel
        /\ ~(pending.rsc = "Pending" \/ status = "Failed") =>
             panel' = Apply(panel, "RuntimeReconciled") /\ refresh' = refresh
    BY <1>5 DEF SettleUpdate, heardVars, RefreshCurrentRoute
  <2>2. panel' \in Panels /\ (panel'.content = "BuildFailed" <=> panel.content = "BuildFailed")
    BY <2>1, ApplyFacts DEF ClientInv, TypeOK, Events
  <2>3. refresh' \in BOOLEAN
    BY <2>1 DEF ClientInv, TypeOK
  <2>4. TypeOK'
    BY <1>1, <1>2, <2>1, <2>2, <2>3 DEF ClientInv, TypeOK
  <2>5. QueueInv' /\ SnapshotInv' /\ BuildInv'
    BY <1>1, <1>3, <2>1, <2>2 DEF ClientInv, DocumentInv, QueueInv, SnapshotInv, BuildInv
  <2>6. CodeInv'
    BY <1>1, <1>2, <2>1 DEF ClientInv, DocumentInv, CodeInv
  <2>7. VersionInv'
    <3>1. \A i \in 1..Len(queue) : Told(i) => Told(i)'
      BY <1>1, <1>3 DEF Told
    <3> QED
      BY <1>1, <2>1, <3>1 DEF ClientInv, DocumentInv, VersionInv
  <2>8. ScreenInv'
    BY <1>1, <2>1 DEF ClientInv, DocumentInv, ScreenInv
  <2> QED
    BY <2>4, <2>5, <2>6, <2>7, <2>8 DEF ClientInv, DocumentInv
<1> QED
  BY <1>4, <1>5

-----------------------------------------------------------------------------
(* The screen and the panel.                                               *)

(* Something newer is on screen.                                           *)
LEMMA Shows ==
  ASSUME ClientInv, Loaded, NEW outcome \in {"Rendered", "Failed"}, Show(outcome),
         refresh' = FALSE,
         UNCHANGED <<server, update, stream, phase, queue, pending, handling, again, panel,
                     heard, replayed>>,
         visits' \in Nat
  PROVE  ClientInv'
<1>1. /\ page' = [page EXCEPT !.shown = server.version]
      /\ status' = outcome /\ statuses' = Append(statuses, outcome) /\ excused' = FALSE
  BY DEF Show
<1>2. /\ server.version \in Nat
      /\ page \in [phase : {"loading", "loaded"}, runtime : 0..server.hash, shown : Nat]
  BY DEF ClientInv, TypeOK
<1>3. /\ page' \in [phase : {"loading", "loaded"}, runtime : 0..server'.hash, shown : Nat]
      /\ page'.phase = "loaded" /\ page'.runtime = page.runtime
      /\ page'.shown = server.version
  BY <1>1, <1>2 DEF Loaded
<1>4. /\ statuses' \in Seq(Statuses) /\ statuses' # <<>>
      /\ statuses'[Len(statuses')] = outcome
  <2>1. outcome \in Statuses /\ statuses \in Seq(Statuses)
    BY DEF ClientInv, TypeOK, Statuses
  <2> QED
    BY <1>1, <2>1, Appended
<1>5. TypeOK'
  BY <1>1, <1>3, <1>4 DEF ClientInv, TypeOK, Statuses
<1>6. QueueInv' /\ SnapshotInv' /\ CodeInv' /\ BuildInv'
  BY <1>3 DEF ClientInv, DocumentInv, QueueInv, SnapshotInv, CodeInv, BuildInv
<1>7. VersionInv'
  BY <1>3 DEF ClientInv, DocumentInv, VersionInv
<1>8. ScreenInv'
  BY <1>1, <1>4 DEF ScreenInv
<1> QED
  BY <1>5, <1>6, <1>7, <1>8 DEF ClientInv, DocumentInv

LEMMA HydrateStep ==
  ASSUME ClientInv, NEW outcome \in {"Rendered", "Failed"}, Hydrate(outcome)
  PROVE  ClientInv'
<1>1. /\ UNCHANGED <<server, update, page, stream, phase, queue, pending, handling, again,
                     refresh, panel, visits, heard, replayed, excused>>
      /\ Loaded /\ status' = outcome /\ statuses' = Append(statuses, outcome)
  BY DEF Hydrate, heardVars, buildVars, clientVars, Loaded
<1>2. /\ statuses' \in Seq(Statuses) /\ statuses' # <<>>
      /\ statuses'[Len(statuses')] = outcome
  <2>1. outcome \in Statuses /\ statuses \in Seq(Statuses)
    BY DEF ClientInv, TypeOK, Statuses
  <2> QED
    BY <1>1, <2>1, Appended
<1>3. TypeOK'
  BY <1>1, <1>2 DEF ClientInv, TypeOK, Statuses
<1>4. QueueInv' /\ SnapshotInv' /\ CodeInv' /\ BuildInv'
  BY <1>1 DEF ClientInv, DocumentInv, QueueInv, SnapshotInv, CodeInv, BuildInv
<1>5. VersionInv'
  BY <1>1 DEF ClientInv, DocumentInv, VersionInv, Told
<1>6. ScreenInv'
  BY <1>1, <1>2 DEF ScreenInv
<1> QED
  BY <1>3, <1>4, <1>5, <1>6 DEF ClientInv, DocumentInv

LEMMA FinishRefreshStep ==
  ASSUME ClientInv, NEW outcome \in {"Rendered", "Failed"}, FinishRefresh(outcome)
  PROVE  ClientInv'
<1>1. visits' \in Nat
  BY DEF FinishRefresh, heardVars, ClientInv, TypeOK
<1> QED
  BY <1>1, Shows DEF FinishRefresh, heardVars, buildVars, clientVars, Loaded

(* A refresh that ends without a page is excused.                          *)
LEMMA Loses ==
  ASSUME ClientInv, Loaded, refresh' = FALSE, excused' = (excused \/ refresh),
         UNCHANGED <<server, update, page, stream, phase, queue, pending, handling, again,
                     status, statuses, panel, heard, replayed>>,
         visits' \in Nat
  PROVE  ClientInv'
<1>1. refresh \in BOOLEAN /\ excused \in BOOLEAN
  BY DEF ClientInv, TypeOK
<1>2. TypeOK'
  BY <1>1 DEF ClientInv, TypeOK
<1>3. QueueInv' /\ SnapshotInv' /\ CodeInv' /\ BuildInv' /\ ScreenInv'
  BY <1>1 DEF ClientInv, DocumentInv, QueueInv, SnapshotInv, CodeInv, BuildInv, ScreenInv
<1>4. VersionInv'
  BY <1>1 DEF ClientInv, DocumentInv, VersionInv, Told
<1> QED
  BY <1>2, <1>3, <1>4 DEF ClientInv, DocumentInv

LEMMA LoseRefreshStep == ClientInv /\ LoseRefresh => ClientInv'
<1> SUFFICES ASSUME ClientInv, LoseRefresh PROVE ClientInv'
  OBVIOUS
<1>1. visits' \in Nat /\ excused' = (excused \/ refresh)
  BY DEF LoseRefresh, heardVars, ClientInv, TypeOK
<1> QED
  BY <1>1, Loses DEF LoseRefresh, heardVars, buildVars, clientVars, Loaded

LEMMA NavigateStep ==
  ASSUME ClientInv, NEW outcome \in {"Rendered", "Failed", "aborted"}, Navigate(outcome)
  PROVE  ClientInv'
<1>1. /\ Loaded /\ visits' \in Nat /\ refresh' = FALSE
      /\ UNCHANGED <<server, update, stream, phase, queue, pending, handling, again, panel,
                     heard, replayed>>
  BY DEF Navigate, heardVars, Visit, Loaded, buildVars, clientVars, ClientInv, TypeOK
<1>2. CASE outcome = "aborted"
  BY <1>1, <1>2, Loses DEF Navigate, heardVars
<1>3. CASE outcome # "aborted"
  BY <1>1, <1>3, Shows DEF Navigate, heardVars
<1> QED
  BY <1>2, <1>3

LEMMA ReadStatusStep == ClientInv /\ ReadStatus => ClientInv'
<1> SUFFICES ASSUME ClientInv, ReadStatus PROVE ClientInv'
  OBVIOUS
<1>1. /\ UNCHANGED <<server, update, page, stream, phase, queue, pending, handling, again,
                     status, refresh, visits, heard, replayed, excused>>
      /\ Loaded /\ statuses # <<>> /\ statuses' = Tail(statuses)
      /\ Head(statuses) = "Waiting" => panel' = panel
      /\ Head(statuses) = "Rendered" => panel' = Apply(panel, "RuntimeReconciled")
      /\ Head(statuses) = "Failed" => panel' = Apply(panel, "RenderFailed")
  BY DEF ReadStatus, heardVars, buildVars, clientVars, Loaded
<1>2. /\ Head(statuses) \in Statuses /\ Head(statuses) = statuses[1]
      /\ statuses' \in Seq(Statuses)
      /\ Len(statuses) \in Nat /\ Len(statuses) > 0 /\ Len(statuses') = Len(statuses) - 1
      /\ \A i \in 1..Len(statuses) - 1 : statuses'[i] = statuses[i + 1]
      /\ statuses' = <<>> <=> Len(statuses) = 1
  <2>1. statuses \in Seq(Statuses) /\ statuses # <<>>
    BY <1>1 DEF ClientInv, TypeOK
  <2> QED
    BY <1>1, <2>1, Taken
<1>3. /\ panel' \in Panels /\ (panel'.content = "BuildFailed" <=> panel.content = "BuildFailed")
      /\ Head(statuses) = "Failed" => panel'.content \in {"BuildFailed", "RuntimeFailed"}
  <2>1. panel \in Panels
    BY DEF ClientInv, TypeOK
  <2>2. CASE Head(statuses) = "Waiting"
    BY <1>1, <2>1, <2>2
  <2>3. CASE Head(statuses) = "Rendered"
    BY <1>1, <2>1, <2>3, ApplyFacts DEF Events
  <2>4. CASE Head(statuses) = "Failed"
    BY <1>1, <2>1, <2>4, ApplyFacts DEF Events
  <2> QED
    BY <1>2, <2>2, <2>3, <2>4 DEF Statuses
<1>4. TypeOK'
  BY <1>1, <1>2, <1>3 DEF ClientInv, TypeOK
<1>5. QueueInv' /\ SnapshotInv' /\ CodeInv' /\ BuildInv'
  BY <1>1, <1>3 DEF ClientInv, DocumentInv, QueueInv, SnapshotInv, CodeInv, BuildInv
<1>6. VersionInv'
  BY <1>1 DEF ClientInv, DocumentInv, VersionInv, Told
<1>7. ScreenInv'
  <2>1. statuses[Len(statuses)] = status
    BY <1>1 DEF ClientInv, DocumentInv, ScreenInv
  <2>2. CASE Len(statuses) = 1
    BY <1>1, <1>2, <1>3, <2>1, <2>2 DEF ScreenInv
  <2>3. CASE Len(statuses) # 1
    <3>1. Len(statuses) - 1 \in 1..Len(statuses) - 1
          /\ (Len(statuses) - 1) + 1 = Len(statuses)
      BY <1>2, <2>3
    <3>2. statuses'[Len(statuses')] = statuses[Len(statuses)]
      BY <1>2, <3>1
    <3> QED
      BY <1>1, <1>2, <2>1, <2>3, <3>2 DEF ScreenInv
  <2> QED
    BY <2>2, <2>3
<1> QED
  BY <1>4, <1>5, <1>6, <1>7 DEF ClientInv, DocumentInv

(* A panel that hides no failure and shows none of a build.                *)
LEMMA PanelChanges ==
  ASSUME ClientInv, Loaded,
         UNCHANGED <<server, update, page, stream, phase, queue, pending, handling, again,
                     status, statuses, refresh, heard, replayed, excused>>,
         visits' \in Nat, panel' \in Panels,
         panel'.content = "BuildFailed" <=> panel.content = "BuildFailed",
         panel.content = "RuntimeFailed" => panel'.content = "RuntimeFailed"
  PROVE  ClientInv'
<1>1. TypeOK'
  BY DEF ClientInv, TypeOK
<1>2. QueueInv' /\ SnapshotInv' /\ CodeInv' /\ BuildInv' /\ ScreenInv'
  BY DEF ClientInv, DocumentInv, QueueInv, SnapshotInv, CodeInv, BuildInv, ScreenInv
<1>3. VersionInv'
  BY DEF ClientInv, DocumentInv, VersionInv, Told
<1> QED
  BY <1>1, <1>2, <1>3 DEF ClientInv, DocumentInv

LEMMA BrowserFailsStep == ClientInv /\ BrowserFails => ClientInv'
<1> SUFFICES ASSUME ClientInv, BrowserFails PROVE ClientInv'
  OBVIOUS
<1>1. /\ Loaded /\ visits' \in Nat /\ panel \in Panels
      /\ panel' = Apply(panel, "RuntimeFailed")
      /\ UNCHANGED <<server, update, page, stream, phase, queue, pending, handling, again,
                     status, statuses, refresh, heard, replayed, excused>>
  BY DEF BrowserFails, heardVars, Visit, Loaded, buildVars, clientVars, screenVars, ClientInv, TypeOK
<1>2. /\ panel' \in Panels
      /\ panel'.content = IF panel.content = "BuildFailed" THEN "BuildFailed" ELSE "RuntimeFailed"
  BY <1>1, ApplyFacts DEF Events
<1> QED
  BY <1>1, <1>2, PanelChanges

LEMMA TogglePanelStep ==
  ASSUME ClientInv, NEW event \in {"Opened", "Dismissed"}, TogglePanel(event)
  PROVE  ClientInv'
<1>1. /\ Loaded /\ visits' \in Nat /\ panel \in Panels /\ panel' = Apply(panel, event)
      /\ UNCHANGED <<server, update, page, stream, phase, queue, pending, handling, again,
                     status, statuses, refresh, heard, replayed, excused>>
  BY DEF TogglePanel, heardVars, Loaded, buildVars, clientVars, screenVars, ClientInv, TypeOK
<1>2. panel' \in Panels /\ panel'.content = panel.content
  BY <1>1, ApplyFacts DEF Events
<1> QED
  BY <1>1, <1>2, PanelChanges

-----------------------------------------------------------------------------
(* The theorems.                                                           *)

LEMMA ClientBegins == Init => ClientInv
<1> SUFFICES ASSUME Init PROVE ClientInv
  OBVIOUS
<1>1. <<>> \in Seq(Updates) /\ <<>> \in Seq(Statuses)
  OBVIOUS
<1>2. /\ server = [builds |-> 1, hash |-> 1, code |-> 1, version |-> 1]
      /\ page = [phase |-> "loading", runtime |-> 0, shown |-> 0]
      /\ pending = [acknowledged |-> 0, client |-> 0, rsc |-> "Current"]
      /\ update = [tag |-> "ClientUpdate", hash |-> 1]
      /\ panel = [tag |-> "Inactive", content |-> "None"]
  BY DEF Init, NothingPending, Update, Inactive
<1>3. server \in [builds : Nat, hash : Nat, code : 0..server.hash, version : Nat]
  BY <1>2
<1>4. /\ page \in [phase : {"loading", "loaded"}, runtime : 0..server.hash, shown : Nat]
      /\ pending \in [acknowledged : 0..server.hash, client : 0..server.hash,
                      rsc : {"Current", "Pending"}]
  BY <1>2
<1>5. update \in Updates /\ update.hash = server.hash /\ panel \in Panels
  BY <1>2 DEF Updates, Panels
<1>6. TypeOK
  BY <1>1, <1>3, <1>4, <1>5 DEF Init, TypeOK, Statuses
<1> QED
  BY <1>2, <1>6 DEF ClientInv, Loaded

LEMMA ClientContinues == ClientInv /\ [Next]_vars => ClientInv'
<1> SUFFICES ASSUME ClientInv, [Next]_vars PROVE ClientInv'
  OBVIOUS
<1>1. CASE ServerStep
  BY <1>1, BuildSucceedsStep, BuildFailsStep DEF ServerStep
<1>2. CASE LoadDocument \/ ReloadByHand \/ Subscribe \/ LoseStream
  BY <1>2, LoadDocumentStep, ReloadByHandStep, SubscribeStep, LoseStreamStep
<1>3. CASE UpdateStep
  BY <1>3, TakeUpdateStep, CheckUpdateStep, SettleUpdateStep DEF UpdateStep
<1>4. CASE ScreenStep
  BY <1>4, HydrateStep, FinishRefreshStep, NavigateStep, LoseRefreshStep, ReadStatusStep,
     BrowserFailsStep, TogglePanelStep DEF ScreenStep
<1>5. CASE UNCHANGED vars
  <2>1. TypeOK' /\ Loaded' = Loaded
    BY <1>5 DEF ClientInv, TypeOK, vars, heardVars, buildVars, clientVars, screenVars, Loaded
  <2>2. DocumentInv => DocumentInv'
    BY <1>5 DEF DocumentInv, QueueInv, SnapshotInv, CodeInv, VersionInv, Told, BuildInv,
                ScreenInv, vars, heardVars, buildVars, clientVars, screenVars
  <2> QED
    BY <2>1, <2>2 DEF ClientInv
<1> QED
  BY <1>1, <1>2, <1>3, <1>4, <1>5 DEF Next

LEMMA ClientInductive == Spec => []ClientInv
BY ClientBegins, ClientContinues, PTL DEF Spec

(* The client keeps the types of its state, and is never ahead of the      *)
(* server.                                                                 *)
THEOREM TypeCorrect == Spec => []TypeOK
<1>1. ClientInv => TypeOK
  BY DEF ClientInv
<1> QED
  BY <1>1, ClientInductive, PTL

(* A client that is done shows every Server Component change the page was  *)
(* told of, except by a replay with the bundle's own hash, and runs the    *)
(* newest client code, however builds, hot updates, refreshes and          *)
(* navigations interleave.                                                 *)
THEOREM PageIsCurrent == Spec => []PageCatchesUp
<1>1. ASSUME ClientInv PROVE PageCatchesUp
  <2>1. SUFFICES ASSUME Quiet
                 PROVE  /\ excused \/ page.shown >= heard \/ heard = replayed
                        /\ stream = "open" /\ update.tag # "BuildFailed" =>
                             page.runtime >= server.code
    BY DEF PageCatchesUp
  <2>2. DocumentInv /\ ~handling /\ ~refresh /\ queue = <<>> /\ Len(queue) = 0
    BY <1>1, <2>1 DEF ClientInv, Loaded, Quiet
  <2>3. excused \/ page.shown >= heard \/ heard = replayed
    BY <2>2 DEF DocumentInv, VersionInv
  <2>4. /\ server.code \in Nat /\ server.hash \in Nat /\ server.code <= server.hash
        /\ page.runtime \in Nat /\ pending.acknowledged \in Nat
    BY <1>1 DEF ClientInv, TypeOK
  <2>5. stream = "open" /\ update.tag # "BuildFailed" => pending.acknowledged = server.hash
    BY <2>2 DEF DocumentInv, CodeInv
  <2>6. page.runtime < server.code => pending.acknowledged < server.code
    BY <2>2 DEF DocumentInv, CodeInv
  <2> QED
    BY <2>3, <2>4, <2>5, <2>6
<1> QED
  BY <1>1, ClientInductive, PTL

(* The panel of a client that is done agrees with the latest build and the *)
(* screen, whatever was rendered, failed or dismissed in between.          *)
THEOREM PanelAgrees == Spec => []DiagnosticsAgree
<1>1. ASSUME ClientInv PROVE DiagnosticsAgree
  BY <1>1 DEF ClientInv, Loaded, DocumentInv, BuildInv, ScreenInv, DiagnosticsAgree, Quiet
<1> QED
  BY <1>1, ClientInductive, PTL
=============================================================================
