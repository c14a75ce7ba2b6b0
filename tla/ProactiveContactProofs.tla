----------------------- MODULE ProactiveContactProofs -----------------------
(***************************************************************************)
(* Proofs about ProactiveContact, for any policy: any waits and any limit. *)
(***************************************************************************)
EXTENDS ProactiveContact, TLAPS

LEMMA Entries ==
  ASSUME NEW S, NEW q \in Seq(S)
  PROVE  /\ DOMAIN q = 1..Len(q) /\ Len(q) \in Nat
         /\ q # <<>> <=> Len(q) # 0
         /\ \A i \in DOMAIN q : q[i] \in S
  OBVIOUS

(* The numbers in the logs.                                                *)
LEMMA Numbers ==
  ASSUME TypeOK
  PROVE  /\ now \in Int /\ considered \in Int /\ moment \in Int
         /\ MaxUnanswered \in Int /\ MaxDeliberations \in Int
         /\ DOMAIN wire = 1..Len(wire) /\ Len(wire) \in Nat
         /\ DOMAIN contacts = 1..Len(contacts) /\ Len(contacts) \in Nat
         /\ contacts # <<>> <=> Len(contacts) # 0
         /\ \A k \in DOMAIN wire : wire[k].by \in Int /\ wire[k].at \in Int
         /\ \A n \in DOMAIN contacts : contacts[n].by \in Int /\ contacts[n].at \in Int
         /\ \A r \in rows : r.by \in Int /\ r.sent \in BOOLEAN
<1> DEFINE Entry == [by : Ids, at : Hours]
<1>1. wire \in Seq(Entry) /\ contacts \in Seq(Entry)
  BY DEF TypeOK
<1> HIDE DEF Entry
<1>2. /\ DOMAIN wire = 1..Len(wire) /\ Len(wire) \in Nat
      /\ \A k \in DOMAIN wire : wire[k] \in Entry
  BY <1>1, Entries
<1>3. /\ DOMAIN contacts = 1..Len(contacts) /\ Len(contacts) \in Nat
      /\ contacts # <<>> <=> Len(contacts) # 0
      /\ \A n \in DOMAIN contacts : contacts[n] \in Entry
  BY <1>1, Entries
<1>4. Ids \subseteq Int /\ Hours \subseteq Int
  BY BoundsAssumption DEF Ids, Hours
<1>5. /\ \A k \in DOMAIN wire : wire[k].by \in Int /\ wire[k].at \in Int
      /\ \A n \in DOMAIN contacts : contacts[n].by \in Int /\ contacts[n].at \in Int
  BY <1>2, <1>3, <1>4 DEF Entry
<1>6. \A r \in rows : r.by \in Int /\ r.sent \in BOOLEAN
  BY <1>4 DEF TypeOK
<1>7. /\ now \in Int /\ considered \in Int /\ moment \in Int
      /\ MaxUnanswered \in Int /\ MaxDeliberations \in Int
  BY <1>4, BoundsAssumption DEF TypeOK
<1> QED
  BY <1>2, <1>3, <1>5, <1>6, <1>7

LEMMA RowWritten ==
  ASSUME TypeOK, NEW d \in Ids, NEW s \in BOOLEAN, WriteRow(d, s)
  PROVE  /\ rows' \subseteq [by : Ids, sent : BOOLEAN]
         /\ \A r \in rows' : r \in rows \/ (r.by = d /\ r.sent = s)
  BY DEF TypeOK, WriteRow

(* The parts of the invariant that speak of the two logs alone.            *)
LEMMA LogsUnchanged ==
  ASSUME IInv, UNCHANGED <<wire, contacts>>
  PROVE  /\ (Len(contacts) <= MaxUnanswered)' /\ SilenceWidens'
         /\ Ordered(wire)' /\ Ordered(contacts)' /\ ContactsFollowWire'
  BY DEF IInv, SilenceWidens, LastBefore, Ordered, ContactsFollowWire

(* A step that leaves the logs alone and writes at most one row, which     *)
(* says not sent of a deliberation without a contact.                      *)
LEMMA QuietStep ==
  ASSUME IInv, TypeOK', UNCHANGED <<wire, contacts>>, events \subseteq events',
         \A r \in rows' : r \in rows \/ (~r.sent /\ r.by <= considered' /\
                             \A n \in DOMAIN contacts : contacts[n].by # r.by),
         considered <= considered', now <= now', moment' <= now',
         PastTheGate', PlaceAgrees', LossesAreFaults'
  PROVE  IInv'
<1>1. /\ (Len(contacts) <= MaxUnanswered)' /\ SilenceWidens'
      /\ Ordered(wire)' /\ Ordered(contacts)' /\ ContactsFollowWire'
  BY LogsUnchanged
<1>2. OnlyDeliveredIsContact'
  BY DEF IInv, OnlyDeliveredIsContact
<1>3. NothingFromTheFuture'
  <2>1. considered' \in Int /\ now' \in Int
    BY DEF TypeOK, Hours
  <2> QED
    BY <2>1, Numbers DEF IInv, NothingFromTheFuture
<1> QED
  BY <1>1, <1>2, <1>3 DEF IInv

LEMMA BlockedPreserves ==
  ASSUME IInv, Blocked
  PROVE  IInv'
<1> USE DEF Blocked, recordVars, faultVars
<1>a. considered' \in Ids /\ considered + 1 \in Ids
  BY BoundsAssumption DEF IInv, TypeOK, Ids
<1>b. /\ rows' \subseteq [by : Ids, sent : BOOLEAN]
      /\ \A r \in rows' : r \in rows \/ (r.by = considered + 1 /\ r.sent = FALSE)
  BY <1>a, RowWritten DEF IInv
<1>1. TypeOK'
  BY <1>a, <1>b DEF IInv, TypeOK, Ids
<1>2. \A r \in rows' : r \in rows \/ (~r.sent /\ r.by <= considered' /\
                          \A n \in DOMAIN contacts : contacts[n].by # r.by)
  BY <1>b, Numbers DEF IInv, NothingFromTheFuture
<1>3. PastTheGate' /\ PlaceAgrees' /\ LossesAreFaults'
  BY DEF IInv, PastTheGate, PlaceAgrees, LossesAreFaults, InFlight, Wanting, Having
<1> QED
  BY <1>1, <1>2, <1>3, Numbers, QuietStep DEF IInv

LEMMA DeliberatePreserves ==
  ASSUME IInv, Deliberate
  PROVE  IInv'
<1> USE DEF Deliberate, Goto, recordVars, faultVars
<1>1. TypeOK'
  BY BoundsAssumption DEF IInv, TypeOK, Ids, Hours, Places, Wanting
<1>2. PastTheGate'
  <2>1. considered' \in Ids /\ Len(contacts) < MaxUnanswered
    BY BoundsAssumption DEF IInv, TypeOK, Ids, TooManyUnanswered, Unanswered
  <2>2. \A n \in DOMAIN contacts : contacts[n].by < considered'
    BY Numbers DEF IInv, NothingFromTheFuture
  <2>3. \A r \in rows : r.by < considered'
    BY Numbers DEF IInv, NothingFromTheFuture
  <2>4. contacts # <<>> =>
          moment' - contacts[Len(contacts)].at >= RequiredWait(Len(contacts))
    <3>1. SUFFICES ASSUME contacts # <<>>
                   PROVE  now - contacts[Len(contacts)].at >= RequiredWait(Len(contacts))
      OBVIOUS
    <3>2. Len(contacts) \in 0..MaxUnanswered /\ contacts[Len(contacts)].at \in Int
      BY <3>1, Numbers DEF IInv
    <3>3. RequiredWait(Len(contacts)) \in Nat
      BY <3>2, WaitAssumption
    <3> QED
      BY <3>1, <3>2, <3>3 DEF IInv, TypeOK, Hours, TooSoon, Unanswered
  <2> QED
    BY <2>1, <2>2, <2>3, <2>4 DEF PastTheGate
<1>3. PlaceAgrees'
  BY Numbers DEF IInv, NothingFromTheFuture, PlaceAgrees, Wanting, Having
<1>4. LossesAreFaults'
  BY DEF IInv, LossesAreFaults, InFlight, Having
<1> QED
  BY <1>1, <1>2, <1>3, <1>4, Numbers, QuietStep DEF IInv

LEMMA DecideAgainstPreserves ==
  ASSUME IInv, DecideAgainst
  PROVE  IInv'
<1> USE DEF DecideAgainst, Goto, faultVars
<1>a. considered \in Ids
  BY DEF IInv, PastTheGate, Wanting
<1>b. /\ rows' \subseteq [by : Ids, sent : BOOLEAN]
      /\ \A r \in rows' : r \in rows \/ (r.by = considered /\ r.sent = FALSE)
  BY <1>a, RowWritten DEF IInv
<1>1. TypeOK'
  BY <1>b DEF IInv, TypeOK, Places
<1>2. \A r \in rows' : r \in rows \/ (~r.sent /\ r.by <= considered' /\
                          \A n \in DOMAIN contacts : contacts[n].by # r.by)
  BY <1>b, Numbers DEF IInv, PastTheGate, Wanting
<1>3. PastTheGate' /\ PlaceAgrees' /\ LossesAreFaults'
  BY DEF IInv, PastTheGate, PlaceAgrees, LossesAreFaults, InFlight, Wanting, Having
<1> QED
  BY <1>1, <1>2, <1>3, Numbers, QuietStep DEF IInv, NothingFromTheFuture

(* Judge, Draft, SendReturns: only the place moves on.                     *)
LEMMA MovingOnPreserves ==
  ASSUME IInv, Judge \/ Draft \/ SendReturns
  PROVE  IInv'
<1> USE DEF Judge, Draft, SendReturns, Goto, recordVars, faultVars
<1>1. TypeOK'
  BY DEF IInv, TypeOK, Places, Wanting, Having
<1>2. PastTheGate'
  BY DEF IInv, PastTheGate, Wanting, Having
<1>3. PlaceAgrees'
  BY DEF IInv, PlaceAgrees, Wanting, Having
<1>4. LossesAreFaults'
  BY DEF IInv, LossesAreFaults, InFlight, Wanting, Having
<1> QED
  BY <1>1, <1>2, <1>3, <1>4, Numbers, QuietStep DEF IInv, NothingFromTheFuture

(* The one step that makes the wire longer.                                *)
LEMMA DeliverPreserves ==
  ASSUME IInv, Deliver
  PROVE  IInv'
<1> USE DEF Deliver, Goto, recordVars, faultVars
<1> DEFINE new == [by |-> considered, at |-> now]
<1>1. TypeOK'
  BY DEF IInv, TypeOK, PastTheGate, Places, Wanting, Having
<1>2. /\ Len(wire') = Len(wire) + 1 /\ wire'[Len(wire) + 1] = new
      /\ DOMAIN wire' = DOMAIN wire \cup {Len(wire) + 1}
      /\ \A k \in DOMAIN wire : wire'[k] = wire[k] /\ k # Len(wire) + 1
  BY DEF IInv, TypeOK
<1>3. /\ considered \in Int /\ now \in Int /\ moment \in Int /\ moment <= now
      /\ \A k \in DOMAIN wire : wire[k].by < considered /\ wire[k].at \in Int
      /\ \A n \in DOMAIN contacts : contacts[n].by < considered /\ contacts[n].at \in Int
  BY Numbers DEF IInv, PlaceAgrees, PastTheGate, NothingFromTheFuture, Wanting
<1>4. ContactsFollowWire'
  BY <1>2, <1>3 DEF IInv, ContactsFollowWire
<1>5. SilenceWidens'
  <2> SUFFICES ASSUME NEW k \in DOMAIN wire', NEW m \in DOMAIN wire',
                      NEW n \in DOMAIN contacts,
                      wire'[k].by = contacts[n].by, LastBefore(n, m)'
               PROVE  wire'[m].at - wire'[k].at >= RequiredWait(n)
    BY DEF SilenceWidens
  <2>1. k \in DOMAIN wire /\ wire'[k] = wire[k]
    BY <1>2, <1>3
  <2>2. CASE m \in DOMAIN wire
    BY <1>2, <2>1, <2>2 DEF IInv, SilenceWidens, LastBefore
  <2>3. CASE m = Len(wire) + 1
    <3>1. n = Len(contacts) /\ contacts # <<>>
      BY <1>2, <1>3, <2>3, Numbers DEF IInv, LastBefore
    <3>2. moment - contacts[n].at >= RequiredWait(n)
      BY <3>1 DEF IInv, PastTheGate, Wanting
    <3>3. wire[k].at <= contacts[n].at
      BY <2>1 DEF IInv, ContactsFollowWire
    <3>4. RequiredWait(n) \in Nat
      BY <3>1, WaitAssumption, BoundsAssumption DEF IInv, TypeOK
    <3> QED
      BY <1>2, <1>3, <2>1, <2>3, <3>2, <3>3, <3>4
  <2> QED
    BY <1>2, <2>2, <2>3
<1>6. OnlyDeliveredIsContact'
  BY <1>2 DEF IInv, OnlyDeliveredIsContact
<1>7. Ordered(wire)' /\ Ordered(contacts)'
  BY <1>2, <1>3 DEF IInv, TypeOK, Ordered
<1>8. NothingFromTheFuture'
  BY <1>2, <1>3 DEF IInv, NothingFromTheFuture
<1>9. PastTheGate'
  BY DEF IInv, PastTheGate, Wanting, Having
<1>10. PlaceAgrees'
  BY <1>2 DEF PlaceAgrees, Wanting, Having
<1>11. LossesAreFaults'
  BY <1>2 DEF IInv, TypeOK, LossesAreFaults, InFlight, Wanting, Having
<1> QED
  BY <1>1, <1>4, <1>5, <1>6, <1>7, <1>8, <1>9, <1>10, <1>11 DEF IInv

(* SendEmpty and SendRaises: the row says not sent.                        *)
LEMMA SendFailsPreserves ==
  ASSUME IInv, SendEmpty \/ SendRaises
  PROVE  IInv'
<1> USE DEF SendEmpty, SendRaises, Goto, faultVars
<1>a. considered \in Ids
  BY DEF IInv, PastTheGate, Wanting, Having
<1>b. /\ rows' \subseteq [by : Ids, sent : BOOLEAN]
      /\ \A r \in rows' : r \in rows \/ (r.by = considered /\ r.sent = FALSE)
  BY <1>a, RowWritten DEF IInv
<1>1. TypeOK'
  <2>1. faults' \in 0..MaxFaults /\ crashes' \in 0..MaxCrashes
    BY BoundsAssumption DEF IInv, TypeOK, WriteRow
  <2> QED
    BY <1>b, <2>1 DEF IInv, TypeOK, Places
<1>2. \A r \in rows' : r \in rows \/ (~r.sent /\ r.by <= considered' /\
                          \A n \in DOMAIN contacts : contacts[n].by # r.by)
  <2>1. \A n \in DOMAIN contacts : contacts[n].by < considered
    BY DEF IInv, PastTheGate, Wanting, Having
  <2> QED
    BY <1>b, <2>1, Numbers DEF IInv, WriteRow
<1>3. PastTheGate' /\ PlaceAgrees'
  BY DEF PastTheGate, PlaceAgrees, Wanting, Having
<1>4. LossesAreFaults'
  <2>1. faults \in Int /\ crashes \in Int
    BY BoundsAssumption DEF IInv, TypeOK
  <2>2. CASE SendEmpty
    BY <2>1, <2>2, Numbers DEF IInv, LossesAreFaults, InFlight, Having
  <2>3. CASE SendRaises
    BY <2>1, <2>3, Numbers DEF IInv, LossesAreFaults, InFlight, Having
  <2> QED
    BY <2>2, <2>3
<1>5. /\ UNCHANGED <<wire, contacts>> /\ events \subseteq events'
      /\ considered <= considered' /\ now <= now' /\ moment' <= now'
  BY Numbers DEF IInv, NothingFromTheFuture, WriteRow
<1> QED
  BY <1>1, <1>2, <1>3, <1>4, <1>5, QuietStep

LEMMA ProcessEventPreserves ==
  ASSUME IInv, ProcessEvent
  PROVE  IInv'
<1> USE DEF ProcessEvent, Goto, faultVars
<1>1. TypeOK'
  BY DEF IInv, TypeOK, Places, PastTheGate, Having
<1>2. PastTheGate' /\ PlaceAgrees' /\ LossesAreFaults'
  BY DEF IInv, PastTheGate, PlaceAgrees, LossesAreFaults, InFlight, Wanting, Having
<1> QED
  BY <1>1, <1>2, Numbers, QuietStep DEF IInv, NothingFromTheFuture

(* The one step that makes the contacts longer.                            *)
LEMMA RecordContactPreserves ==
  ASSUME IInv, RecordContact
  PROVE  IInv'
<1> USE DEF RecordContact, Goto, faultVars
<1> DEFINE new == [by |-> considered, at |-> now]
<1>1. TypeOK'
  BY DEF IInv, TypeOK, PastTheGate, Places, Having
<1>2. /\ Len(contacts') = Len(contacts) + 1 /\ contacts'[Len(contacts) + 1] = new
      /\ DOMAIN contacts' = DOMAIN contacts \cup {Len(contacts) + 1}
      /\ \A n \in DOMAIN contacts : contacts'[n] = contacts[n] /\ n # Len(contacts) + 1
  BY DEF IInv, TypeOK
<1>3. /\ considered \in Int /\ now \in Int
      /\ \A n \in DOMAIN contacts : contacts[n].by < considered
      /\ \A r \in rows : r.by < considered
  BY DEF IInv, TypeOK, PastTheGate, Having, Hours
<1>4. /\ (Len(contacts) <= MaxUnanswered)'
      /\ considered \in events
      /\ \E k \in DOMAIN wire : wire[k].by = considered
  BY <1>2, BoundsAssumption DEF IInv, TypeOK, PastTheGate, PlaceAgrees, Having
<1>5. SilenceWidens'
  <2> SUFFICES ASSUME NEW k \in DOMAIN wire, NEW m \in DOMAIN wire,
                      NEW n \in DOMAIN contacts',
                      wire[k].by = contacts'[n].by, LastBefore(n, m)'
               PROVE  wire[m].at - wire[k].at >= RequiredWait(n)
    BY DEF SilenceWidens
  <2>1. wire[m].by <= considered /\ wire[m].by \in Int
    BY Numbers DEF IInv, NothingFromTheFuture
  <2>2. n \in DOMAIN contacts
    BY <1>2, <1>3, <2>1 DEF LastBefore
  <2>3. LastBefore(n, m)
    BY <1>2, <2>2 DEF LastBefore
  <2> QED
    BY <1>2, <2>2, <2>3 DEF IInv, SilenceWidens
<1>6. OnlyDeliveredIsContact'
  <2>1. \A n \in DOMAIN contacts' :
          contacts'[n].by \in events /\ \E k \in DOMAIN wire : wire[k].by = contacts'[n].by
    BY <1>2, <1>4 DEF IInv, OnlyDeliveredIsContact
  <2>2. \A r \in rows : r.sent <=> \E n \in DOMAIN contacts' : contacts'[n].by = r.by
    <3> SUFFICES ASSUME NEW r \in rows
                 PROVE  r.sent <=> \E n \in DOMAIN contacts' : contacts'[n].by = r.by
      OBVIOUS
    <3>1. r.by # considered
      BY <1>3 DEF IInv, TypeOK, Ids
    <3> QED
      BY <1>2, <3>1 DEF IInv, OnlyDeliveredIsContact
  <2> QED
    BY <2>1, <2>2 DEF OnlyDeliveredIsContact
<1>7. Ordered(wire)' /\ Ordered(contacts)'
  BY <1>2, <1>3 DEF IInv, TypeOK, Ordered
<1>8. ContactsFollowWire'
  BY <1>2 DEF IInv, ContactsFollowWire, NothingFromTheFuture
<1>9. NothingFromTheFuture'
  BY <1>2, <1>3 DEF IInv, NothingFromTheFuture
<1>10. PastTheGate'
  BY DEF PastTheGate, Wanting, Having
<1>11. PlaceAgrees'
  BY <1>2, <1>3 DEF PlaceAgrees, Wanting, Having
<1>12. LossesAreFaults'
  BY <1>2 DEF IInv, TypeOK, LossesAreFaults, InFlight, Having
<1> QED
  BY <1>1, <1>4, <1>5, <1>6, <1>7, <1>8, <1>9, <1>10, <1>11, <1>12 DEF IInv

LEMMA RecordDeliberationPreserves ==
  ASSUME IInv, RecordDeliberation
  PROVE  IInv'
<1> USE DEF RecordDeliberation, Goto, faultVars
<1>1. contacts # <<>> /\ contacts[Len(contacts)].by = considered
  BY DEF IInv, PlaceAgrees
<1>2. Len(contacts) \in DOMAIN contacts
  BY <1>1, Numbers DEF IInv
<1>3. considered \in Ids
  <2> DEFINE Entry == [by : Ids, at : Hours]
  <2>1. contacts \in Seq(Entry)
    BY DEF IInv, TypeOK
  <2> HIDE DEF Entry
  <2>2. contacts[Len(contacts)] \in Entry
    BY <1>2, <2>1, Entries
  <2> QED
    BY <1>1, <2>2 DEF Entry
<1>a. /\ rows' \subseteq [by : Ids, sent : BOOLEAN]
      /\ \A r \in rows' : r \in rows \/ (r.by = considered /\ r.sent = TRUE)
  BY <1>3, RowWritten DEF IInv
<1>4. TypeOK'
  BY <1>a DEF IInv, TypeOK, Places
<1>5. /\ (Len(contacts) <= MaxUnanswered)' /\ SilenceWidens'
      /\ Ordered(wire)' /\ Ordered(contacts)' /\ ContactsFollowWire'
  BY LogsUnchanged
<1>6. OnlyDeliveredIsContact'
  BY <1>1, <1>2, <1>a DEF IInv, OnlyDeliveredIsContact
<1>7. NothingFromTheFuture'
  BY <1>a, Numbers DEF IInv, NothingFromTheFuture
<1>8. PastTheGate' /\ PlaceAgrees' /\ LossesAreFaults'
  BY DEF IInv, PastTheGate, PlaceAgrees, LossesAreFaults, InFlight, Wanting, Having
<1> QED
  BY <1>4, <1>5, <1>6, <1>7, <1>8 DEF IInv

(* An error or the end of the process: what was in flight is lost, and     *)
(* counted.                                                                *)
LEMMA LossPreserves ==
  ASSUME IInv, Raises \/ Crash
  PROVE  IInv'
<1> USE DEF Raises, Crash, Goto, recordVars, faultVars
<1>1. TypeOK'
  <2>1. faults' \in 0..MaxFaults /\ crashes' \in 0..MaxCrashes
    BY BoundsAssumption DEF IInv, TypeOK
  <2>2. events' \subseteq Ids
    BY DEF IInv, TypeOK, PastTheGate, Having
  <2> QED
    BY <2>1, <2>2 DEF IInv, TypeOK, Places
<1>2. PastTheGate' /\ PlaceAgrees'
  BY DEF PastTheGate, PlaceAgrees, Wanting, Having
<1>3. LossesAreFaults'
  BY DEF IInv, TypeOK, LossesAreFaults, InFlight, Having
<1>4. events \subseteq events'
  OBVIOUS
<1> QED
  BY <1>1, <1>2, <1>3, <1>4, Numbers, QuietStep DEF IInv, NothingFromTheFuture

LEMMA EnvironmentPreserves ==
  ASSUME IInv, Tick \/ UserSpeaks
  PROVE  IInv'
<1> USE DEF Tick, UserSpeaks, recordVars, faultVars
<1>1. TypeOK'
  <2>1. now' \in Hours /\ spoken' \in Nat
    BY BoundsAssumption, Numbers DEF IInv, TypeOK, Hours
  <2> QED
    BY <2>1 DEF IInv, TypeOK
<1>2. PastTheGate' /\ PlaceAgrees' /\ LossesAreFaults'
  BY DEF IInv, PastTheGate, PlaceAgrees, LossesAreFaults, InFlight, Wanting, Having
<1> QED
  BY <1>1, <1>2, Numbers, QuietStep DEF IInv, NothingFromTheFuture

(* The inductive invariant holds of every behaviour of the chain.          *)
THEOREM Invariance == Spec => []IInv
<1>1. Init => IInv
  BY BoundsAssumption DEF Init, IInv, TypeOK, SilenceWidens, OnlyDeliveredIsContact,
     Ordered, ContactsFollowWire, NothingFromTheFuture, PastTheGate, PlaceAgrees,
     LossesAreFaults, InFlight, Places, Wanting, Having, Hours
<1>2. IInv /\ [Next]_vars => IInv'
  <2> SUFFICES ASSUME IInv, [Next]_vars
               PROVE  IInv'
    OBVIOUS
  <2>1. CASE Blocked
    BY <2>1, BlockedPreserves
  <2>2. CASE Deliberate
    BY <2>2, DeliberatePreserves
  <2>3. CASE DecideAgainst
    BY <2>3, DecideAgainstPreserves
  <2>4. CASE Judge \/ Draft \/ SendReturns
    BY <2>4, MovingOnPreserves
  <2>5. CASE Deliver
    BY <2>5, DeliverPreserves
  <2>6. CASE SendEmpty \/ SendRaises
    BY <2>6, SendFailsPreserves
  <2>7. CASE ProcessEvent
    BY <2>7, ProcessEventPreserves
  <2>8. CASE RecordContact
    BY <2>8, RecordContactPreserves
  <2>9. CASE RecordDeliberation
    BY <2>9, RecordDeliberationPreserves
  <2>10. CASE Raises \/ Crash
    BY <2>10, LossPreserves
  <2>11. CASE Tick \/ UserSpeaks
    BY <2>11, EnvironmentPreserves
  <2>12. CASE UNCHANGED vars
    <3>1. TypeOK' /\ PastTheGate' /\ PlaceAgrees' /\ LossesAreFaults'
      BY <2>12 DEF IInv, TypeOK, PastTheGate, PlaceAgrees, LossesAreFaults, InFlight,
         vars, recordVars, faultVars
    <3> QED
      BY <2>12, <3>1, Numbers, QuietStep DEF IInv, NothingFromTheFuture, vars,
         recordVars, faultVars
  <2> QED
    BY <2>1, <2>2, <2>3, <2>4, <2>5, <2>6, <2>7, <2>8, <2>9, <2>10, <2>11, <2>12
       DEF Next
<1> QED
  BY <1>1, <1>2, PTL DEF Spec

(* However errors, crashes and restarts fall, the USER is never sent more  *)
(* unasked messages than the limit and one for each of them.               *)
THEOREM SilenceIsAlwaysBounded == Spec => []SilenceIsBounded
<1>1. IInv => SilenceIsBounded
  <2> SUFFICES ASSUME IInv
               PROVE  SilenceIsBounded
    OBVIOUS
  <2>1. CASE pc \in Having
    BY <2>1, BoundsAssumption
       DEF IInv, TypeOK, LossesAreFaults, InFlight, PastTheGate, SilenceIsBounded
  <2>2. CASE pc \notin Having
    BY <2>2, BoundsAssumption
       DEF IInv, TypeOK, LossesAreFaults, InFlight, SilenceIsBounded
  <2> QED
    BY <2>1, <2>2
<1> QED
  BY <1>1, Invariance, PTL

(* Every message leaves the wait its unanswered predecessors require.      *)
THEOREM SilenceAlwaysWidens == Spec => []SilenceWidens
<1>1. IInv => SilenceWidens
  BY DEF IInv
<1> QED
  BY <1>1, Invariance, PTL

(* What is recorded as contact arrived.                                    *)
THEOREM ContactsWereDelivered == Spec => []OnlyDeliveredIsContact
<1>1. IInv => OnlyDeliveredIsContact
  BY DEF IInv
<1> QED
  BY <1>1, Invariance, PTL
=============================================================================
