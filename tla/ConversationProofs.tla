------------------------ MODULE ConversationProofs ------------------------
(***************************************************************************)
(* Proofs about Conversation, for any number of overlapping turns.         *)
(***************************************************************************)
EXTENDS Conversation, TLAPS

(* What a step of turn t leaves alone: the other turns' places, traces and *)
(* facts.  A claim of another turn may change, but only one that was made. *)
Frame(t) ==
  /\ rows \subseteq rows' /\ suppressed \subseteq suppressed'
  /\ events \subseteq events' /\ \A e \in events' : e \in events \/ e.turn = t
  /\ \A r \in rows' : r \in rows \/ r \in events'
  /\ \A u \in Turns : u # t =>
       /\ pc'[u] = pc[u] /\ trace'[u] = trace[u] /\ target'[u] = target[u]
       /\ claims'[u] # "none" => claims[u] # "none" \/ Reply(u) \in rows
       /\ u \in shown' <=> u \in shown
       /\ u \in unsent' <=> u \in unsent
       /\ u \in typing' <=> u \in typing

(* A step of one turn preserves the invariant if it does so for that turn. *)
LEMMA OneTurnMoves ==
  ASSUME IInv, NEW t \in Turns, TypeOK', Frame(t),
         SaidAsRecorded(t)', EndsOnce(t)', (t \in typing => WillSpeak(t))',
         PlaceAgrees(t)', TargetWasSaid(t)'
  PROVE  IInv'
<1>1. ASSUME NEW u \in Turns, u # t
      PROVE  Ends(u)' = Ends(u)
  BY <1>1 DEF Frame, Ends
<1>2. ASSUME NEW u \in Turns, u # t
      PROVE  Reply(u) \in events' => Reply(u) \in events
  <2>1. Reply(u).turn = u
    BY DEF Reply
  <2> QED
    BY <1>2, <2>1 DEF Frame
<1>3. ASSUME NEW u \in Turns, u # t
      PROVE  SaidAsRecorded(u)'
  BY <1>2, <1>3 DEF IInv, OnlyTheSaidIsRecorded, SaidAsRecorded, Frame
<1>4. ASSUME NEW u \in Turns, u # t
      PROVE  EndsOnce(u)'
  BY <1>1, <1>2, <1>4 DEF IInv, OneEndPerTurn, EndsOnce, Frame
<1>5. ASSUME NEW u \in Turns, u # t
      PROVE  (u \in typing => WillSpeak(u))'
  BY <1>5 DEF IInv, TypingIsAPromise, WillSpeak, Frame
<1>6. ASSUME NEW u \in Turns, u # t
      PROVE  PlaceAgrees(u)' /\ TargetWasSaid(u)'
  BY <1>1, <1>6 DEF IInv, PlacesAgree, PlaceAgrees, TargetWasSaid, Frame
<1>7. (rows \subseteq events)'
  BY DEF IInv, OnlyTheSaidIsRecorded, Frame
<1> QED
  BY <1>3, <1>4, <1>5, <1>6, <1>7 DEF IInv, OnlyTheSaidIsRecorded,
     OneEndPerTurn, TypingIsAPromise, PlacesAgree

LEMMA ReceivePreserves ==
  ASSUME IInv, NEW t \in Turns, Receive(t)
  PROVE  IInv'
<1> USE DEF Receive, Goto, Finish, recordVars, wireVars, loopVars, faultVars
<1>1. TypeOK'
  BY DEF IInv, TypeOK, Places, Inbound, Outcomes
<1>2. Frame(t)
  BY DEF Frame
<1>3. Ends(t)' = Ends(t)
  BY DEF Ends
<1>4. SaidAsRecorded(t)'
  BY DEF IInv, OnlyTheSaidIsRecorded, SaidAsRecorded
<1>5. EndsOnce(t)'
  <2>1. Ends(t) = {} /\ t \notin unsent
    BY DEF IInv, PlacesAgree, PlaceAgrees
  <2>2. Ends(t) = {} => Reply(t) \notin events
    BY DEF Ends, Reply
  <2>3. trace'[t] = "open"
    BY DEF IInv, TypeOK
  <2> QED
    BY <1>3, <2>1, <2>2, <2>3 DEF EndsOnce
<1>6. (t \in typing => WillSpeak(t))'
  BY DEF IInv, TypingIsAPromise, WillSpeak
<1>7. PlaceAgrees(t)'
  BY <1>3 DEF IInv, TypeOK, PlacesAgree, PlaceAgrees, Sending, Confirming,
     Digesting
<1>8. TargetWasSaid(t)'
  BY DEF TargetWasSaid
<1> QED
  BY <1>1, <1>2, <1>4, <1>5, <1>6, <1>7, <1>8, OneTurnMoves

LEMMA ReadRecentPreserves ==
  ASSUME IInv, NEW t \in Turns, ReadRecent(t)
  PROVE  IInv'
<1> USE DEF ReadRecent, Goto, Finish, recordVars, wireVars, loopVars, faultVars
<1>1. TypeOK'
  BY DEF IInv, TypeOK, Places, Inbound
<1>2. Frame(t)
  BY DEF Frame
<1>3. Ends(t)' = Ends(t)
  BY DEF Ends
<1>4. SaidAsRecorded(t)'
  BY DEF IInv, OnlyTheSaidIsRecorded, SaidAsRecorded
<1>5. EndsOnce(t)'
  BY <1>3 DEF IInv, OneEndPerTurn, EndsOnce
<1>6. (t \in typing => WillSpeak(t))'
  BY DEF IInv, TypingIsAPromise, WillSpeak
<1>7. PlaceAgrees(t)'
  BY <1>3 DEF IInv, PlacesAgree, PlaceAgrees, Open, Inbound, Sending,
     Confirming, Digesting
<1>8. TargetWasSaid(t)'
  BY DEF TargetWasSaid
<1> QED
  BY <1>1, <1>2, <1>4, <1>5, <1>6, <1>7, <1>8, OneTurnMoves

LEMMA AppendMessagePreserves ==
  ASSUME IInv, NEW t \in Turns, AppendMessage(t)
  PROVE  IInv'
<1> USE DEF AppendMessage, Goto, Finish, recordVars, wireVars, loopVars, faultVars
<1>1. TypeOK'
  BY DEF IInv, TypeOK, Message, Facts, Places, Inbound
<1>2. Frame(t)
  BY DEF Frame, Message
<1>3. Ends(t)' = Ends(t)
  BY DEF Ends, Message
<1>4. SaidAsRecorded(t)'
  BY DEF IInv, OnlyTheSaidIsRecorded, SaidAsRecorded, Message, Reply
<1>5. EndsOnce(t)'
  BY <1>3 DEF IInv, OneEndPerTurn, EndsOnce, Message, Reply
<1>6. (t \in typing => WillSpeak(t))'
  BY DEF IInv, TypingIsAPromise, WillSpeak
<1>7. PlaceAgrees(t)'
  BY <1>3 DEF IInv, PlacesAgree, PlaceAgrees, Open, Inbound, Sending,
     Confirming, Digesting
<1>8. TargetWasSaid(t)'
  BY DEF TargetWasSaid
<1> QED
  BY <1>1, <1>2, <1>4, <1>5, <1>6, <1>7, <1>8, OneTurnMoves

LEMMA ProjectMessagePreserves ==
  ASSUME IInv, NEW t \in Turns, ProjectMessage(t)
  PROVE  IInv'
<1> USE DEF ProjectMessage, Goto, Finish, recordVars, wireVars, loopVars, faultVars
<1>1. TypeOK'
  BY DEF IInv, TypeOK, Message, Utterances, Places, Inbound
<1>2. Frame(t)
  BY DEF IInv, Frame, PlacesAgree, PlaceAgrees
<1>3. Ends(t)' = Ends(t)
  BY DEF Ends
<1>4. SaidAsRecorded(t)'
  BY DEF IInv, OnlyTheSaidIsRecorded, SaidAsRecorded
<1>5. EndsOnce(t)'
  BY <1>3 DEF IInv, OneEndPerTurn, EndsOnce
<1>6. (t \in typing => WillSpeak(t))'
  BY DEF IInv, TypingIsAPromise, WillSpeak
<1>7. PlaceAgrees(t)'
  BY <1>3 DEF IInv, PlacesAgree, PlaceAgrees, Open, Inbound, Confirming
<1>8. TargetWasSaid(t)'
  BY DEF TargetWasSaid
<1> QED
  BY <1>1, <1>2, <1>4, <1>5, <1>6, <1>7, <1>8, OneTurnMoves

LEMMA ProcessMessagePreserves ==
  ASSUME IInv, NEW t \in Turns, ProcessMessage(t)
  PROVE  IInv'
<1> USE DEF ProcessMessage, Goto, Finish, recordVars, wireVars, loopVars, faultVars
<1>1. TypeOK'
  BY DEF IInv, TypeOK, Places, Inbound
<1>2. Frame(t)
  BY DEF Frame
<1>3. Ends(t)' = Ends(t)
  BY DEF Ends
<1>4. SaidAsRecorded(t)'
  BY DEF IInv, OnlyTheSaidIsRecorded, SaidAsRecorded
<1>5. EndsOnce(t)'
  BY <1>3 DEF IInv, OneEndPerTurn, EndsOnce
<1>6. (t \in typing => WillSpeak(t))'
  BY DEF IInv, TypingIsAPromise, WillSpeak
<1>7. PlaceAgrees(t)'
  BY <1>3 DEF IInv, PlacesAgree, PlaceAgrees, Open, Inbound, Confirming,
     Digesting
<1>8. TargetWasSaid(t)'
  BY DEF TargetWasSaid
<1> QED
  BY <1>1, <1>2, <1>4, <1>5, <1>6, <1>7, <1>8, OneTurnMoves

LEMMA RecallPreserves ==
  ASSUME IInv, NEW t \in Turns, Recall(t)
  PROVE  IInv'
<1> USE DEF Recall, Goto, Finish, recordVars, wireVars, loopVars, faultVars
<1>1. TypeOK'
  BY DEF IInv, TypeOK, Places, Inbound
<1>2. Frame(t)
  BY DEF Frame
<1>3. Ends(t)' = Ends(t)
  BY DEF Ends
<1>4. SaidAsRecorded(t)'
  BY DEF IInv, OnlyTheSaidIsRecorded, SaidAsRecorded
<1>5. EndsOnce(t)'
  BY <1>3 DEF IInv, OneEndPerTurn, EndsOnce
<1>6. (t \in typing => WillSpeak(t))'
  BY DEF IInv, TypingIsAPromise, WillSpeak
<1>7. PlaceAgrees(t)'
  BY <1>3 DEF IInv, PlacesAgree, PlaceAgrees, Open, Inbound, Confirming,
     Digesting
<1>8. TargetWasSaid(t)'
  BY DEF TargetWasSaid
<1> QED
  BY <1>1, <1>2, <1>4, <1>5, <1>6, <1>7, <1>8, OneTurnMoves

LEMMA ReviewClaimPreserves ==
  ASSUME IInv, NEW t \in Turns, ReviewClaim(t)
  PROVE  IInv'
<1> USE DEF ReviewClaim, Goto, Finish, recordVars, wireVars, loopVars, faultVars
<1>1. TypeOK'
  BY DEF IInv, TypeOK, Message, Reply, Silence, Suppression, Facts, Utterances,
     Places, Inbound, Sending, Confirming, Ended, Outcomes, ClaimStatuses,
     Newest, LiveClaims
<1>2. Frame(t)
  BY DEF IInv, TypeOK, Frame
<1>3. Ends(t)' = Ends(t)
  BY DEF Ends
<1>4. SaidAsRecorded(t)'
  BY DEF IInv, OnlyTheSaidIsRecorded, SaidAsRecorded
<1>5. EndsOnce(t)'
  BY <1>3 DEF IInv, OneEndPerTurn, EndsOnce
<1>6. (t \in typing => WillSpeak(t))'
  BY DEF IInv, TypingIsAPromise, WillSpeak
<1>7. PlaceAgrees(t)'
  BY <1>3 DEF IInv, TypeOK, PlacesAgree, PlaceAgrees, Open, Inbound,
     Confirming, Digesting
<1>8. TargetWasSaid(t)'
  BY DEF IInv, TypeOK, TargetWasSaid, Newest, LiveClaims, LiveStatuses,
     OnlyTheSaidIsRecorded, SaidAsRecorded
<1> QED
  BY <1>1, <1>2, <1>4, <1>5, <1>6, <1>7, <1>8, OneTurnMoves

LEMMA ResolveClaimPreserves ==
  ASSUME IInv, NEW t \in Turns, ResolveClaim(t)
  PROVE  IInv'
<1> USE DEF ResolveClaim, Goto, Finish, recordVars, wireVars, loopVars, faultVars
<1>1. TypeOK'
  BY DEF IInv, TypeOK, Places, Inbound, ClaimStatuses
<1>2. Frame(t)
  BY DEF IInv, Frame, PlacesAgree, TargetWasSaid
<1>3. Ends(t)' = Ends(t)
  BY DEF Ends
<1>4. SaidAsRecorded(t)'
  BY DEF IInv, OnlyTheSaidIsRecorded, SaidAsRecorded, PlacesAgree,
     TargetWasSaid
<1>5. EndsOnce(t)'
  BY <1>3 DEF IInv, OneEndPerTurn, EndsOnce
<1>6. (t \in typing => WillSpeak(t))'
  BY DEF IInv, TypingIsAPromise, WillSpeak
<1>7. PlaceAgrees(t)'
  BY <1>3 DEF IInv, PlacesAgree, PlaceAgrees, Open, Inbound, Confirming,
     Digesting
<1>8. TargetWasSaid(t)'
  BY DEF IInv, PlacesAgree, TargetWasSaid
<1> QED
  BY <1>1, <1>2, <1>4, <1>5, <1>6, <1>7, <1>8, OneTurnMoves

LEMMA PlanPreserves ==
  ASSUME IInv, NEW t \in Turns, Plan(t)
  PROVE  IInv'
<1> USE DEF Plan, Goto, Finish, recordVars, wireVars, loopVars, faultVars
<1>1. TypeOK'
  BY DEF IInv, TypeOK, Places, Inbound
<1>2. Frame(t)
  BY DEF IInv, TypeOK, Frame
<1>3. Ends(t)' = Ends(t)
  BY DEF Ends
<1>4. SaidAsRecorded(t)'
  BY DEF IInv, OnlyTheSaidIsRecorded, SaidAsRecorded
<1>5. EndsOnce(t)'
  BY <1>3 DEF IInv, OneEndPerTurn, EndsOnce
<1>6. (t \in typing => WillSpeak(t))'
  BY DEF IInv, TypeOK, TypingIsAPromise, WillSpeak
<1>7. PlaceAgrees(t)'
  BY <1>3 DEF IInv, TypeOK, PlacesAgree, PlaceAgrees, Open, Inbound,
     Confirming, Digesting
<1>8. TargetWasSaid(t)'
  BY DEF IInv, TypeOK, TargetWasSaid
<1> QED
  BY <1>1, <1>2, <1>4, <1>5, <1>6, <1>7, <1>8, OneTurnMoves

LEMMA StaySilentPreserves ==
  ASSUME IInv, NEW t \in Turns, StaySilent(t)
  PROVE  IInv'
<1> USE DEF StaySilent, Goto, Finish, recordVars, wireVars, loopVars, faultVars
<1>1. TypeOK'
  BY DEF IInv, TypeOK, Silence, Facts, Places, Ended, Outcomes
<1>2. Frame(t)
  BY DEF Frame, Silence
<1>3. Ends(t)' = Ends(t) \cup {Silence(t)}
  BY DEF Ends, Silence
<1>4. SaidAsRecorded(t)'
  BY DEF IInv, OnlyTheSaidIsRecorded, SaidAsRecorded, Reply, Silence
<1>5. EndsOnce(t)'
  BY <1>3 DEF IInv, TypeOK, OneEndPerTurn, EndsOnce, PlacesAgree, PlaceAgrees,
     OnlyTheSaidIsRecorded, SaidAsRecorded, Message, Reply, Silence,
     Suppression, Open, Inbound, Sending, Confirming, Digesting
<1>6. (t \in typing => WillSpeak(t))'
  BY DEF IInv, TypingIsAPromise, WillSpeak
<1>7. PlaceAgrees(t)'
  BY <1>3 DEF IInv, TypeOK, PlaceAgrees, Open, Inbound, Sending, Confirming,
     Digesting
<1>8. TargetWasSaid(t)'
  BY DEF TargetWasSaid
<1> QED
  BY <1>1, <1>2, <1>4, <1>5, <1>6, <1>7, <1>8, OneTurnMoves

LEMMA DraftReplyPreserves ==
  ASSUME IInv, NEW t \in Turns, DraftReply(t)
  PROVE  IInv'
<1> USE DEF DraftReply, Goto, Finish, recordVars, wireVars, loopVars, faultVars
<1>1. TypeOK'
  BY DEF IInv, TypeOK, Places, Inbound, Sending
<1>2. Frame(t)
  BY DEF Frame
<1>3. Ends(t)' = Ends(t)
  BY DEF Ends
<1>4. SaidAsRecorded(t)'
  BY DEF IInv, OnlyTheSaidIsRecorded, SaidAsRecorded
<1>5. EndsOnce(t)'
  BY <1>3 DEF IInv, OneEndPerTurn, EndsOnce
<1>6. (t \in typing => WillSpeak(t))'
  BY DEF WillSpeak
<1>7. PlaceAgrees(t)'
  BY <1>3 DEF IInv, PlacesAgree, PlaceAgrees, Open, Inbound, Confirming,
     Digesting
<1>8. TargetWasSaid(t)'
  BY DEF TargetWasSaid
<1> QED
  BY <1>1, <1>2, <1>4, <1>5, <1>6, <1>7, <1>8, OneTurnMoves

LEMMA RecordRefusalPreserves ==
  ASSUME IInv, NEW t \in Turns, RecordRefusal(t)
  PROVE  IInv'
<1> USE DEF RecordRefusal, Goto, Finish, recordVars, wireVars, loopVars, faultVars
<1>1. TypeOK'
  BY DEF IInv, TypeOK, Places, Inbound
<1>2. Frame(t)
  BY DEF Frame
<1>3. Ends(t)' = Ends(t)
  BY DEF Ends
<1>4. SaidAsRecorded(t)'
  BY DEF IInv, OnlyTheSaidIsRecorded, SaidAsRecorded
<1>5. EndsOnce(t)'
  BY <1>3 DEF IInv, OneEndPerTurn, EndsOnce
<1>6. (t \in typing => WillSpeak(t))'
  BY DEF WillSpeak
<1>7. PlaceAgrees(t)'
  BY <1>3 DEF IInv, PlacesAgree, PlaceAgrees, Open, Inbound, Confirming,
     Digesting
<1>8. TargetWasSaid(t)'
  BY DEF TargetWasSaid
<1> QED
  BY <1>1, <1>2, <1>4, <1>5, <1>6, <1>7, <1>8, OneTurnMoves

LEMMA SuppressPreserves ==
  ASSUME IInv, NEW t \in Turns, Suppress(t)
  PROVE  IInv'
<1> USE DEF Suppress, Goto, Finish, recordVars, wireVars, loopVars, faultVars
<1>1. TypeOK'
  BY DEF IInv, TypeOK, Suppression, Facts, Places, Ended, Outcomes
<1>2. Frame(t)
  BY DEF Frame, Suppression
<1>3. Ends(t)' = Ends(t) \cup {Suppression(t)}
  BY DEF Ends, Suppression
<1>4. SaidAsRecorded(t)'
  BY DEF IInv, OnlyTheSaidIsRecorded, SaidAsRecorded, Reply, Suppression
<1>5. EndsOnce(t)'
  BY <1>3 DEF IInv, TypeOK, OneEndPerTurn, EndsOnce, PlacesAgree, PlaceAgrees,
     OnlyTheSaidIsRecorded, SaidAsRecorded, Message, Reply, Silence,
     Suppression, Open, Inbound, Sending, Confirming, Digesting
<1>6. (t \in typing => WillSpeak(t))'
  OBVIOUS
<1>7. PlaceAgrees(t)'
  BY <1>3 DEF IInv, TypeOK, PlaceAgrees, Open, Inbound, Sending, Confirming,
     Digesting
<1>8. TargetWasSaid(t)'
  BY DEF TargetWasSaid
<1> QED
  BY <1>1, <1>2, <1>4, <1>5, <1>6, <1>7, <1>8, OneTurnMoves

LEMMA SendPreserves ==
  ASSUME IInv, NEW t \in Turns, Send(t)
  PROVE  IInv'
<1> USE DEF Send, Goto, Finish, recordVars, wireVars, loopVars, faultVars
<1>1. TypeOK'
  BY DEF IInv, TypeOK, Places, Confirming
<1>2. Frame(t)
  BY DEF Frame
<1>3. Ends(t)' = Ends(t)
  BY DEF Ends
<1>4. SaidAsRecorded(t)'
  BY DEF IInv, OnlyTheSaidIsRecorded, SaidAsRecorded
<1>5. EndsOnce(t)'
  <2>1. Ends(t) = {} /\ t \notin unsent
    BY DEF IInv, PlacesAgree, PlaceAgrees, Open
  <2>2. Ends(t) = {} => Reply(t) \notin events
    BY DEF Ends, Reply
  <2>3. trace'[t] = "open"
    BY DEF IInv, PlacesAgree, PlaceAgrees, Open
  <2> QED
    BY <1>3, <2>1, <2>2, <2>3 DEF EndsOnce
<1>6. (t \in typing => WillSpeak(t))'
  OBVIOUS
<1>7. PlaceAgrees(t)'
  BY <1>3 DEF IInv, TypeOK, PlacesAgree, PlaceAgrees, Open, Inbound, Sending,
     Digesting
<1>8. TargetWasSaid(t)'
  BY DEF TargetWasSaid
<1> QED
  BY <1>1, <1>2, <1>4, <1>5, <1>6, <1>7, <1>8, OneTurnMoves

LEMMA SendFailsPreserves ==
  ASSUME IInv, NEW t \in Turns, SendFails(t)
  PROVE  IInv'
<1> USE DEF SendFails, Goto, Finish, recordVars, wireVars, loopVars, faultVars
<1>1. TypeOK'
  BY DEF IInv, TypeOK, Places, Sending, Outcomes
<1>2. Frame(t)
  BY DEF Frame
<1>3. Ends(t)' = Ends(t)
  BY DEF Ends
<1>4. SaidAsRecorded(t)'
  BY DEF IInv, OnlyTheSaidIsRecorded, SaidAsRecorded
<1>5. EndsOnce(t)'
  <2>1. Ends(t) = {} /\ t \notin unsent
    BY DEF IInv, PlacesAgree, PlaceAgrees, Open
  <2>2. Ends(t) = {} => Reply(t) \notin events
    BY DEF Ends, Reply
  <2>3. trace'[t] = "send_failed"
    BY DEF IInv, TypeOK
  <2> QED
    BY <1>3, <2>1, <2>2, <2>3 DEF EndsOnce
<1>6. (t \in typing => WillSpeak(t))'
  BY DEF WillSpeak
<1>7. PlaceAgrees(t)'
  BY <1>3 DEF IInv, TypeOK, PlacesAgree, PlaceAgrees, Open, Inbound, Sending,
     Confirming, Digesting
<1>8. TargetWasSaid(t)'
  BY DEF TargetWasSaid
<1> QED
  BY <1>1, <1>2, <1>4, <1>5, <1>6, <1>7, <1>8, OneTurnMoves

LEMMA RecordSendFailurePreserves ==
  ASSUME IInv, NEW t \in Turns, RecordSendFailure(t)
  PROVE  IInv'
<1> USE DEF RecordSendFailure, Goto, Finish, recordVars, wireVars, loopVars, faultVars
<1>1. TypeOK'
  BY DEF IInv, TypeOK, Places, Ended
<1>2. Frame(t)
  BY DEF Frame
<1>3. Ends(t)' = Ends(t)
  BY DEF Ends
<1>4. SaidAsRecorded(t)'
  BY DEF IInv, OnlyTheSaidIsRecorded, SaidAsRecorded
<1>5. EndsOnce(t)'
  <2>1. Ends(t) = {}
    BY DEF IInv, PlacesAgree, PlaceAgrees
  <2>2. Ends(t) = {} => Reply(t) \notin events
    BY DEF Ends, Reply
  <2>3. trace'[t] = trace[t]
    OBVIOUS
  <2> QED
    BY <1>3, <2>1, <2>2, <2>3 DEF IInv, OneEndPerTurn, EndsOnce
<1>6. (t \in typing => WillSpeak(t))'
  OBVIOUS
<1>7. PlaceAgrees(t)'
  BY <1>3 DEF IInv, TypeOK, PlaceAgrees, Open, Inbound, Sending, Confirming,
     Digesting
<1>8. TargetWasSaid(t)'
  BY DEF TargetWasSaid
<1> QED
  BY <1>1, <1>2, <1>4, <1>5, <1>6, <1>7, <1>8, OneTurnMoves

LEMMA AppendSentPreserves ==
  ASSUME IInv, NEW t \in Turns, AppendSent(t)
  PROVE  IInv'
<1> USE DEF AppendSent, Goto, Finish, recordVars, wireVars, loopVars, faultVars
<1>1. TypeOK'
  BY DEF IInv, TypeOK, Reply, Facts, Places, Confirming
<1>2. Frame(t)
  BY DEF Frame, Reply
<1>3. Ends(t)' = Ends(t) \cup {Reply(t)}
  BY DEF Ends, Reply
<1>4. SaidAsRecorded(t)'
  BY DEF IInv, OnlyTheSaidIsRecorded, SaidAsRecorded, PlacesAgree, PlaceAgrees,
     Confirming
<1>5. EndsOnce(t)'
  BY <1>3 DEF IInv, EndsOnce, PlacesAgree, PlaceAgrees, Confirming
<1>6. (t \in typing => WillSpeak(t))'
  BY DEF IInv, TypingIsAPromise, WillSpeak
<1>7. PlaceAgrees(t)'
  BY <1>3 DEF IInv, TypeOK, PlacesAgree, PlaceAgrees, Open, Inbound, Confirming
<1>8. TargetWasSaid(t)'
  BY DEF TargetWasSaid
<1> QED
  BY <1>1, <1>2, <1>4, <1>5, <1>6, <1>7, <1>8, OneTurnMoves

LEMMA ProjectSentPreserves ==
  ASSUME IInv, NEW t \in Turns, ProjectSent(t)
  PROVE  IInv'
<1> USE DEF ProjectSent, Goto, Finish, recordVars, wireVars, loopVars, faultVars
<1>1. TypeOK'
  BY DEF IInv, TypeOK, Reply, Utterances, Places, Confirming
<1>2. Frame(t)
  BY DEF IInv, TypeOK, Frame, PlacesAgree, PlaceAgrees
<1>3. Ends(t)' = Ends(t)
  BY DEF Ends
<1>4. SaidAsRecorded(t)'
  BY DEF IInv, OnlyTheSaidIsRecorded, SaidAsRecorded
<1>5. EndsOnce(t)'
  BY <1>3 DEF IInv, OneEndPerTurn, EndsOnce
<1>6. (t \in typing => WillSpeak(t))'
  BY DEF IInv, TypingIsAPromise, WillSpeak
<1>7. PlaceAgrees(t)'
  BY <1>3 DEF IInv, PlacesAgree, PlaceAgrees, Open, Inbound, Confirming
<1>8. TargetWasSaid(t)'
  BY DEF TargetWasSaid
<1> QED
  BY <1>1, <1>2, <1>4, <1>5, <1>6, <1>7, <1>8, OneTurnMoves

LEMMA RecordClaimsPreserves ==
  ASSUME IInv, NEW t \in Turns, RecordClaims(t)
  PROVE  IInv'
<1> USE DEF RecordClaims, Goto, Finish, recordVars, wireVars, loopVars, faultVars
<1>1. TypeOK'
  BY DEF IInv, TypeOK, Places, Confirming, Outcomes, ClaimStatuses
<1>2. Frame(t)
  BY DEF Frame
<1>3. Ends(t)' = Ends(t)
  BY DEF Ends
<1>4. SaidAsRecorded(t)'
  BY DEF IInv, OnlyTheSaidIsRecorded, SaidAsRecorded, PlacesAgree, PlaceAgrees
<1>5. EndsOnce(t)'
  <2>1. t \notin unsent /\ Reply(t) \in rows
    BY DEF IInv, PlacesAgree, PlaceAgrees, Confirming
  <2>2. Ends(t) = {} => Reply(t) \notin events
    BY DEF Ends, Reply
  <2>3. trace'[t] = "sent"
    BY DEF IInv, TypeOK
  <2> QED
    BY <1>3, <2>1, <2>2, <2>3 DEF IInv, OneEndPerTurn, EndsOnce
<1>6. (t \in typing => WillSpeak(t))'
  BY DEF IInv, TypingIsAPromise, WillSpeak
<1>7. PlaceAgrees(t)'
  BY <1>3 DEF IInv, TypeOK, PlacesAgree, PlaceAgrees, Open, Inbound, Confirming
<1>8. TargetWasSaid(t)'
  BY DEF TargetWasSaid
<1> QED
  BY <1>1, <1>2, <1>4, <1>5, <1>6, <1>7, <1>8, OneTurnMoves

LEMMA ProcessSentPreserves ==
  ASSUME IInv, NEW t \in Turns, ProcessSent(t)
  PROVE  IInv'
<1> USE DEF ProcessSent, Goto, Finish, recordVars, wireVars, loopVars, faultVars
<1>1. TypeOK'
  BY DEF IInv, TypeOK, Places, Ended
<1>2. Frame(t)
  BY DEF Frame
<1>3. Ends(t)' = Ends(t)
  BY DEF Ends
<1>4. SaidAsRecorded(t)'
  BY DEF IInv, OnlyTheSaidIsRecorded, SaidAsRecorded
<1>5. EndsOnce(t)'
  BY <1>3 DEF IInv, OneEndPerTurn, EndsOnce
<1>6. (t \in typing => WillSpeak(t))'
  BY DEF IInv, TypingIsAPromise, WillSpeak
<1>7. PlaceAgrees(t)'
  BY <1>3 DEF IInv, PlacesAgree, PlaceAgrees, Open, Inbound, Confirming
<1>8. TargetWasSaid(t)'
  BY DEF TargetWasSaid
<1> QED
  BY <1>1, <1>2, <1>4, <1>5, <1>6, <1>7, <1>8, OneTurnMoves

LEMMA BackgroundEndsPreserves ==
  ASSUME IInv, NEW t \in Turns, BackgroundEnds(t)
  PROVE  IInv'
<1> USE DEF BackgroundEnds, Goto, Finish, recordVars, wireVars, loopVars, faultVars
<1>1. TypeOK'
  BY DEF IInv, TypeOK
<1>2. Frame(t)
  BY DEF Frame
<1>3. Ends(t)' = Ends(t)
  BY DEF Ends
<1>4. SaidAsRecorded(t)'
  BY DEF IInv, OnlyTheSaidIsRecorded, SaidAsRecorded
<1>5. EndsOnce(t)'
  BY <1>3 DEF IInv, OneEndPerTurn, EndsOnce
<1>6. (t \in typing => WillSpeak(t))'
  BY DEF IInv, TypingIsAPromise, WillSpeak
<1>7. PlaceAgrees(t)'
  BY <1>3 DEF IInv, PlacesAgree, PlaceAgrees
<1>8. TargetWasSaid(t)'
  BY DEF IInv, PlacesAgree, TargetWasSaid
<1> QED
  BY <1>1, <1>2, <1>4, <1>5, <1>6, <1>7, <1>8, OneTurnMoves

LEMMA RaisesPreserves ==
  ASSUME IInv, NEW t \in Turns, Raises(t)
  PROVE  IInv'
<1> USE DEF Raises, Goto, Finish, recordVars, wireVars, loopVars, faultVars
<1>1. TypeOK'
  BY BoundsAssumption DEF IInv, TypeOK, Places, Ended, Outcomes
<1>2. Frame(t)
  BY DEF IInv, TypeOK, Frame
<1>3. Ends(t)' = Ends(t)
  BY DEF Ends
<1>4. SaidAsRecorded(t)'
  BY DEF IInv, OnlyTheSaidIsRecorded, SaidAsRecorded
<1>5. EndsOnce(t)'
  <2>1. CASE pc[t] \in Inbound \cup {"failing"} /\ Finish(t, "failed")
    <3>1. Ends(t) = {} /\ t \notin unsent
      BY <2>1 DEF IInv, PlacesAgree, PlaceAgrees, Open
    <3>2. Reply(t) \notin events
      BY <3>1 DEF Ends, Reply
    <3>3. trace'[t] = "failed"
      BY <2>1 DEF IInv, TypeOK
    <3> QED
      BY <1>3, <3>1, <3>2, <3>3 DEF EndsOnce, Reply
  <2>2. CASE pc[t] \in Confirming /\ UNCHANGED trace
    BY <1>3, <2>2 DEF IInv, OneEndPerTurn, EndsOnce
  <2> QED
    BY <2>1, <2>2
<1>6. (t \in typing => WillSpeak(t))'
  OBVIOUS
<1>7. PlaceAgrees(t)'
  BY <1>3 DEF IInv, TypeOK, PlaceAgrees, Open, Inbound, Sending, Confirming,
     Digesting
<1>8. TargetWasSaid(t)'
  BY DEF IInv, PlacesAgree, TargetWasSaid
<1> QED
  BY <1>1, <1>2, <1>4, <1>5, <1>6, <1>7, <1>8, OneTurnMoves

LEMMA CrashPreserves ==
  ASSUME IInv, Crash
  PROVE  IInv'
<1> USE DEF Crash, recordVars, wireVars, faultVars
<1>1. TypeOK'
  BY BoundsAssumption DEF IInv, TypeOK, Places, Ended
<1>2. ASSUME NEW t \in Turns
      PROVE  /\ pc'[t] \in {pc[t], "lost"}
             /\ pc'[t] \in {"away", "done", "lost"}
             /\ Ends(t)' = Ends(t)
  BY DEF IInv, TypeOK, Ends
<1>3. OnlyTheSaidIsRecorded' /\ OneEndPerTurn' /\ TypingIsAPromise'
  BY <1>2 DEF IInv, OnlyTheSaidIsRecorded, SaidAsRecorded, OneEndPerTurn,
     EndsOnce, TypingIsAPromise
<1>4. PlacesAgree'
  BY <1>2 DEF IInv, PlacesAgree, PlaceAgrees, TargetWasSaid, Open, Inbound,
     Sending, Confirming, Digesting
<1> QED
  BY <1>1, <1>3, <1>4 DEF IInv

LEMMA InitHolds == Init => IInv
<1> SUFFICES ASSUME Init PROVE IInv
  OBVIOUS
<1>1. TypeOK
  BY BoundsAssumption DEF Init, TypeOK, Places, Outcomes, ClaimStatuses,
     NoTarget
<1>2. \A t \in Turns : Ends(t) = {} /\ pc[t] = "away" /\ trace[t] = "none"
  BY DEF Init, Ends
<1> QED
  BY <1>1, <1>2 DEF Init, IInv, OnlyTheSaidIsRecorded, SaidAsRecorded,
     OneEndPerTurn, EndsOnce, TypingIsAPromise, PlacesAgree, PlaceAgrees,
     TargetWasSaid, Open, Inbound, Sending, Confirming, Digesting

LEMMA NextPreserves == IInv /\ [Next]_vars => IInv'
<1> SUFFICES ASSUME IInv, [Next]_vars  PROVE IInv'
  OBVIOUS
<1>1. ASSUME NEW t \in Turns, Receive(t)  PROVE IInv'
  BY <1>1, ReceivePreserves
<1>2. ASSUME NEW t \in Turns, ReadRecent(t)  PROVE IInv'
  BY <1>2, ReadRecentPreserves
<1>3. ASSUME NEW t \in Turns, AppendMessage(t)  PROVE IInv'
  BY <1>3, AppendMessagePreserves
<1>4. ASSUME NEW t \in Turns, ProjectMessage(t)  PROVE IInv'
  BY <1>4, ProjectMessagePreserves
<1>5. ASSUME NEW t \in Turns, ProcessMessage(t)  PROVE IInv'
  BY <1>5, ProcessMessagePreserves
<1>6. ASSUME NEW t \in Turns, Recall(t)  PROVE IInv'
  BY <1>6, RecallPreserves
<1>7. ASSUME NEW t \in Turns, ReviewClaim(t)  PROVE IInv'
  BY <1>7, ReviewClaimPreserves
<1>8. ASSUME NEW t \in Turns, ResolveClaim(t)  PROVE IInv'
  BY <1>8, ResolveClaimPreserves
<1>9. ASSUME NEW t \in Turns, Plan(t)  PROVE IInv'
  BY <1>9, PlanPreserves
<1>10. ASSUME NEW t \in Turns, StaySilent(t)  PROVE IInv'
  BY <1>10, StaySilentPreserves
<1>11. ASSUME NEW t \in Turns, DraftReply(t)  PROVE IInv'
  BY <1>11, DraftReplyPreserves
<1>12. ASSUME NEW t \in Turns, RecordRefusal(t)  PROVE IInv'
  BY <1>12, RecordRefusalPreserves
<1>13. ASSUME NEW t \in Turns, Suppress(t)  PROVE IInv'
  BY <1>13, SuppressPreserves
<1>14. ASSUME NEW t \in Turns, Send(t)  PROVE IInv'
  BY <1>14, SendPreserves
<1>15. ASSUME NEW t \in Turns, SendFails(t)  PROVE IInv'
  BY <1>15, SendFailsPreserves
<1>16. ASSUME NEW t \in Turns, RecordSendFailure(t)  PROVE IInv'
  BY <1>16, RecordSendFailurePreserves
<1>17. ASSUME NEW t \in Turns, AppendSent(t)  PROVE IInv'
  BY <1>17, AppendSentPreserves
<1>18. ASSUME NEW t \in Turns, ProjectSent(t)  PROVE IInv'
  BY <1>18, ProjectSentPreserves
<1>19. ASSUME NEW t \in Turns, RecordClaims(t)  PROVE IInv'
  BY <1>19, RecordClaimsPreserves
<1>20. ASSUME NEW t \in Turns, ProcessSent(t)  PROVE IInv'
  BY <1>20, ProcessSentPreserves
<1>21. ASSUME NEW t \in Turns, BackgroundEnds(t)  PROVE IInv'
  BY <1>21, BackgroundEndsPreserves
<1>22. ASSUME NEW t \in Turns, Raises(t)  PROVE IInv'
  BY <1>22, RaisesPreserves
<1>23. CASE Crash
  BY <1>23, CrashPreserves
<1>24. CASE UNCHANGED vars
  <2>1. UNCHANGED <<recordVars, wireVars, trace, pc, loopVars, background, faultVars>>
    BY <1>24 DEF vars
  <2> QED
    BY <2>1 DEF recordVars, wireVars, loopVars, faultVars, IInv, TypeOK,
       OnlyTheSaidIsRecorded, SaidAsRecorded, OneEndPerTurn, EndsOnce, Ends,
       TypingIsAPromise, WillSpeak, PlacesAgree, PlaceAgrees, TargetWasSaid
<1> QED
  BY <1>1, <1>2, <1>3, <1>4, <1>5, <1>6, <1>7, <1>8, <1>9, <1>10, <1>11, <1>12,
     <1>13, <1>14, <1>15, <1>16, <1>17, <1>18, <1>19, <1>20, <1>21, <1>22,
     <1>23, <1>24 DEF Next, TurnStep

-----------------------------------------------------------------------------
(* The invariant: types, and the parts named below.                        *)
THEOREM Invariant == Spec => []IInv
  BY InitHolds, NextPreserves, PTL DEF Spec

(* What is recorded as said was said, and answers a recorded message:      *)
(* nothing that was refused, failed to be sent or was cut short by a crash *)
(* or an exception enters the events, the projection or the common ground. *)
THEOREM OnlyTheSaidIsAlwaysRecorded == Spec => []OnlyTheSaidIsRecorded
<1>1. IInv => OnlyTheSaidIsRecorded
  BY DEF IInv
<1> QED
  BY Invariant, <1>1, PTL

(* A turn has one end, and its trace tells which.                          *)
THEOREM TurnsHaveOneEnd == Spec => []OneEndPerTurn
<1>1. IInv => OneEndPerTurn
  BY DEF IInv
<1> QED
  BY Invariant, <1>1, PTL

(* The typing indicator is on only for a turn that will speak.             *)
THEOREM TypingIsKept == Spec => []TypingIsAPromise
<1>1. IInv => TypingIsAPromise
  BY DEF IInv
<1> QED
  BY Invariant, <1>1, PTL

(* A message read while another utterance is being digested is read in a   *)
(* conversation that holds that utterance.                                 *)
THEOREM SaidIsSeen == Spec => SaidBeforeItIsDigested
<1> DEFINE Seen ==
      \A t, u \in Turns : pc[u] = "recent" /\ pc'[u] = "append" =>
        /\ pc[t] \in Digesting \cup Confirming => Message(t) \in recent'[u]
        /\ pc[t] \in {"claim", "process_sent"} => Reply(t) \in recent'[u]
<1>1. IInv /\ [Next]_vars => [Seen]_vars
  <2> SUFFICES ASSUME IInv, Next, NEW t \in Turns, NEW u \in Turns,
                      pc[u] = "recent", pc'[u] = "append"
               PROVE  /\ pc[t] \in Digesting \cup Confirming => Message(t) \in recent'[u]
                      /\ pc[t] \in {"claim", "process_sent"} => Reply(t) \in recent'[u]
    OBVIOUS
  <2>1. ReadRecent(u)
    <3>1. ~Crash
      BY DEF Crash, IInv, TypeOK
    <3>2. PICK v \in Turns : Receive(v) \/ TurnStep(v) \/ BackgroundEnds(v) \/ Raises(v)
      BY <3>1 DEF Next
    <3>3. v = u
      BY <3>2 DEF IInv, TypeOK, TurnStep, Receive, ReadRecent, AppendMessage,
         ProjectMessage, ProcessMessage, Recall, ReviewClaim, ResolveClaim,
         Plan, StaySilent, DraftReply, RecordRefusal, Suppress, Send,
         SendFails, RecordSendFailure, AppendSent, ProjectSent, RecordClaims,
         ProcessSent, BackgroundEnds, Raises, Goto
    <3> QED
      BY <3>2, <3>3 DEF IInv, TypeOK, TurnStep, Receive, AppendMessage,
         ProjectMessage, ProcessMessage, Recall, ReviewClaim, ResolveClaim,
         Plan, StaySilent, DraftReply, RecordRefusal, Suppress, Send,
         SendFails, RecordSendFailure, AppendSent, ProjectSent, RecordClaims,
         ProcessSent, BackgroundEnds, Raises, Goto
  <2>2. recent'[u] = rows
    BY <2>1 DEF ReadRecent, IInv, TypeOK
  <2> QED
    BY <2>2 DEF IInv, PlacesAgree, PlaceAgrees
<1> QED
  BY Invariant, <1>1, PTL DEF Spec, SaidBeforeItIsDigested

-----------------------------------------------------------------------------
(* Every turn comes to an end.                                             *)

(* The places at which a task has a step of its own to take: TurnStep(t)   *)
(* has an action for each, which asks for nothing but that place.          *)
UnderWay == Inbound \cup Sending \cup Confirming

(* How far along its way a task is.                                        *)
Along(p) ==
  CASE p = "away" -> 0 [] p = "recent" -> 1 [] p = "append" -> 2 [] p = "project" -> 3
    [] p = "process" -> 4 [] p = "recall" -> 5 [] p = "review" -> 6 [] p = "resolve" -> 7
    [] p = "plan" -> 8 [] p = "silent" -> 9 [] p = "draft" -> 10 [] p = "refused" -> 11
    [] p = "suppress" -> 12 [] p = "send" -> 13 [] p = "failing" -> 14
    [] p = "append_sent" -> 15 [] p = "project_sent" -> 16 [] p = "claim" -> 17
    [] p = "process_sent" -> 18 [] p = "done" -> 19 [] p = "lost" -> 20

(* A task only ever goes forward: it never returns to a place it has left. *)
LEMMA StepsGoAlong ==
  ASSUME TypeOK, NEW t \in Turns, TurnStep(t)
  PROVE  Along(pc'[t]) >= Along(pc[t]) + 1
BY DEF TypeOK, Along, TurnStep, ReadRecent, AppendMessage, ProjectMessage, ProcessMessage, Recall,
   ReviewClaim, ResolveClaim, Plan, StaySilent, DraftReply, RecordRefusal, Suppress, Send, SendFails,
   RecordSendFailure, AppendSent, ProjectSent, RecordClaims, ProcessSent, Goto

LEMMA PlacesAreAlong ==
  ASSUME NEW p \in Places
  PROVE  Along(p) \in 0..20
BY DEF Places, Inbound, Sending, Confirming, Ended, Along

(* It has come as far as stage k.                                          *)
Past(t, k) == Along(pc[t]) >= k

(* No step of anyone, an exception or a crash included, takes a task back. *)
LEMMA NobodyMovesBack ==
  ASSUME TypeOK, TypeOK', NEW t \in Turns, NEW k \in Nat, Past(t, k), k >= 1, [Next]_vars
  PROVE  Past(t, k)'
<1>0. Along(pc[t]) \in 0..20 /\ Along(pc'[t]) \in 0..20
  BY PlacesAreAlong DEF TypeOK
<1>1. CASE pc'[t] = pc[t]
  BY <1>1 DEF Past
<1>2. CASE TurnStep(t)
  BY <1>0, <1>2, StepsGoAlong DEF Past
<1>3. ASSUME NEW u \in Turns, Receive(u) \/ BackgroundEnds(u) \/ Raises(u), pc'[t] # pc[t]
      PROVE  Past(t, k)'
  <2>1. CASE Receive(u)
    <3>1. pc[t] = "away"
      BY <1>3, <2>1 DEF Receive, Goto, TypeOK
    <3> QED
      BY <3>1 DEF Past, Along
  <2>2. CASE Raises(u)
    <3>1. pc'[t] = "done" /\ pc[t] \in Inbound \cup {"failing"} \cup Confirming
      BY <1>3, <2>2 DEF Raises, Goto, TypeOK
    <3>2. Along(pc[t]) <= 18 /\ Along(pc'[t]) = 19
      BY <3>1 DEF Along, Inbound, Confirming
    <3> QED
      BY <1>0, <3>2 DEF Past
  <2> QED
    BY <1>3, <2>1, <2>2 DEF BackgroundEnds
<1>4. ASSUME NEW u \in Turns, u # t, TurnStep(u)
      PROVE  pc'[t] = pc[t]
  BY <1>4 DEF TypeOK, TurnStep, ReadRecent, AppendMessage, ProjectMessage, ProcessMessage, Recall,
   ReviewClaim, ResolveClaim, Plan, StaySilent, DraftReply, RecordRefusal, Suppress, Send, SendFails,
   RecordSendFailure, AppendSent, ProjectSent, RecordClaims, ProcessSent, Goto
<1>5. CASE Crash
  <2>1. pc'[t] = pc[t] \/ pc'[t] = "lost"
    BY <1>5 DEF Crash
  <2>2. Along("lost") = 20
    BY DEF Along
  <2> QED
    BY <1>0, <1>1, <2>1, <2>2 DEF Past
<1>6. CASE UNCHANGED vars
  BY <1>1, <1>6 DEF vars
<1> QED
  BY <1>1, <1>2, <1>3, <1>4, <1>5, <1>6 DEF Next

(* From stage k a turn goes on to stage m by its own steps, and never back. *)
Passes(t, k, m) ==
  /\ Past(t, k) => Past(t, k)'
  /\ Past(t, k) /\ TurnStep(t) => Past(t, m)'

LEMMA StagesArePassed ==
  ASSUME TypeOK, TypeOK', [Next]_vars, NEW t \in Turns, NEW k \in 1..19
  PROVE  Passes(t, k, k + 1)
<1>1. Along(pc[t]) \in 0..20 /\ Along(pc'[t]) \in 0..20
  BY PlacesAreAlong DEF TypeOK
<1>2. Past(t, k) => Past(t, k)'
  BY NobodyMovesBack
<1>3. Past(t, k) /\ TurnStep(t) => Past(t, k + 1)'
  BY <1>1, StepsGoAlong DEF Past
<1> QED
  BY <1>2, <1>3 DEF Passes

(* So it takes no steps for ever, fair or not.                             *)
LEMMA StepsComeToAnEnd ==
  ASSUME NEW t \in Turns
  PROVE  Spec => ~[]<><<TurnStep(t)>>_vars
<1>1. TypeOK /\ TypeOK' /\ [Next]_vars =>
        /\ Passes(t, 1, 2) /\ Passes(t, 2, 3) /\ Passes(t, 3, 4) /\ Passes(t, 4, 5)
        /\ Passes(t, 5, 6) /\ Passes(t, 6, 7) /\ Passes(t, 7, 8) /\ Passes(t, 8, 9)
        /\ Passes(t, 9, 10) /\ Passes(t, 10, 11) /\ Passes(t, 11, 12) /\ Passes(t, 12, 13)
        /\ Passes(t, 13, 14) /\ Passes(t, 14, 15) /\ Passes(t, 15, 16) /\ Passes(t, 16, 17)
        /\ Passes(t, 17, 18) /\ Passes(t, 18, 19) /\ Passes(t, 19, 20)
  <2> SUFFICES ASSUME TypeOK, TypeOK', [Next]_vars
               PROVE  \A k \in 1..19 : Passes(t, k, k + 1)
    OBVIOUS
  <2> QED
    BY StagesArePassed
<1>2. TypeOK /\ TypeOK' /\ TurnStep(t) => Past(t, 1)'
  <2> SUFFICES ASSUME TypeOK, TypeOK', TurnStep(t)
               PROVE  Past(t, 1)'
    OBVIOUS
  <2>1. Along(pc[t]) \in 0..20 /\ Along(pc'[t]) \in 0..20
    BY PlacesAreAlong DEF TypeOK
  <2> QED
    BY <2>1, StepsGoAlong DEF Past
<1>3. TypeOK /\ TypeOK' /\ TurnStep(t) => ~Past(t, 20)
  <2> SUFFICES ASSUME TypeOK, TypeOK', TurnStep(t)
               PROVE  ~Past(t, 20)
    OBVIOUS
  <2>1. Along(pc[t]) \in 0..20 /\ Along(pc'[t]) \in 0..20
    BY PlacesAreAlong DEF TypeOK
  <2> QED
    BY <2>1, StepsGoAlong DEF Past
<1>4. TypeOK /\ TypeOK' /\ [Next]_vars => (Past(t, 20) => Past(t, 20)')
  BY NobodyMovesBack
<1>5. IInv => TypeOK
  BY DEF IInv
<1> QED
  BY <1>1, <1>2, <1>3, <1>4, <1>5, Invariant, PTL DEF Spec, Passes

(* What fairness says of a turn, by the guards of its steps: a task that   *)
(* stays at a place with a step to take takes steps, and background work   *)
(* that stays scheduled ends.  FairSpec says it with WF_vars, and so with  *)
(* ENABLED.                                                                *)
Over(t) == pc[t] \in Ended \cup {"away"}
Scheduled(t) ==
  /\ []<>(pc[t] \notin UnderWay) \/ []<><<TurnStep(t)>>_vars
  /\ []<>(t \notin background) \/ []<><<BackgroundEnds(t)>>_vars

(* Background work is begun by the last step of a turn only.               *)
LEMMA BackgroundIsFromTheEnd ==
  ASSUME TypeOK, [Next]_vars, NEW t \in Turns, Over(t), t \notin background
  PROVE  t \notin background'
BY DEF Over, Ended, Next, vars, TypeOK, TurnStep, ReadRecent, AppendMessage, ProjectMessage, ProcessMessage, Recall,
   ReviewClaim, ResolveClaim, Plan, StaySilent, DraftReply, RecordRefusal, Suppress, Send, SendFails,
   RecordSendFailure, AppendSent, ProjectSent, RecordClaims, ProcessSent, Receive, BackgroundEnds, Raises, Crash

(* A message that is received comes to an end, answered, left alone,       *)
(* suppressed, failed or lost, and its background work with it: TurnsEnd,  *)
(* for any number of overlapping turns, exceptions and crashes.            *)
THEOREM EveryTurnEnds ==
  ASSUME NEW t \in Turns
  PROVE  Spec /\ Scheduled(t) => <>[](Over(t) /\ t \notin background)
<1>1. TypeOK /\ TypeOK' /\ [Next]_vars => (Past(t, 1) => Past(t, 1)') /\ (Past(t, 19) => Past(t, 19)')
  BY NobodyMovesBack
<1>2. TypeOK =>
        /\ pc[t] \notin UnderWay => Over(t)
        /\ Over(t) /\ Past(t, 1) => Past(t, 19)
        /\ Past(t, 19) => Over(t)
        /\ ~Past(t, 1) => Over(t)
  <2> SUFFICES ASSUME TypeOK
               PROVE  /\ pc[t] \notin UnderWay => Over(t)
                      /\ Over(t) /\ Past(t, 1) => Past(t, 19)
                      /\ Past(t, 19) => Over(t)
                      /\ ~Past(t, 1) => Over(t)
    OBVIOUS
  <2>1. pc[t] \in UnderWay \cup Ended \cup {"away"}
    BY DEF TypeOK, Places, UnderWay
  <2>2. CASE pc[t] \in UnderWay
    <3>1. Along(pc[t]) \in 1..18
      BY <2>2 DEF Along, UnderWay, Inbound, Sending, Confirming
    <3> QED
      BY <2>2, <3>1 DEF Past, Over, UnderWay, Inbound, Sending, Confirming, Ended
  <2>3. CASE pc[t] \in Ended
    <3>1. Along(pc[t]) \in 19..20
      BY <2>3 DEF Along, Ended
    <3> QED
      BY <2>3, <3>1 DEF Past, Over
  <2>4. CASE pc[t] = "away"
    <3>1. Along(pc[t]) = 0
      BY <2>4 DEF Along
    <3> QED
      BY <2>4, <3>1 DEF Past, Over
  <2> QED
    BY <2>1, <2>2, <2>3, <2>4
<1>3. TypeOK /\ [Next]_vars /\ Over(t) /\ t \notin background => (t \notin background)'
  BY BackgroundIsFromTheEnd
<1>4. BackgroundEnds(t) => (t \notin background)'
  BY DEF BackgroundEnds
<1>5. IInv => TypeOK
  BY DEF IInv
<1> QED
  BY <1>1, <1>2, <1>3, <1>4, <1>5, Invariant, StepsComeToAnEnd, PTL DEF Spec, Scheduled
=============================================================================
