------------------------------- MODULE WebRtc -------------------------------
(* WebRtcService (src/network/webrtc): sessions made by concurrent offers,   *)
(* closed by clients, by the stop of their channel and by the clean-up       *)
(* thread.  The peer connections belong to loong-rtc, which calls back with  *)
(* state changes.  HandleOffer tests the limit under sessions_mutex_, sets   *)
(* the connection up without it and stores the session under it again.       *)
EXTENDS Integers, FiniteSets

CONSTANTS
    OfferThreads,       \* HTTP threads that may be in HandleOffer
    RtcChannels,
    max_sessions,
    StaleAfter,         \* 6 * ice_timeout_sec
    MaxOffers,          \* bound: offers
    MaxRtcTime          \* bound: the clock

ASSUME RtcAssumption ==
    /\ max_sessions \in Nat \ {0} /\ StaleAfter \in Nat
    /\ MaxOffers \in Nat /\ MaxRtcTime \in Nat
    /\ IsFiniteSet(OfferThreads) /\ OfferThreads # {}

VARIABLES
    rtcInitialized,
    sessions_,          \* id -> session
    offering,           \* thread -> {} or {the session being set up}
    closingList,        \* ids CloseSessionsForChannel has still to close
    rtcIds,             \* ids generated
    rtcNow

rtcVars == <<rtcInitialized, sessions_, offering, closingList, rtcIds, rtcNow>>

Session(ch) == [channel |-> ch, state |-> "kConnecting",
                last_activity |-> rtcNow]

Without(S) == [i \in DOMAIN sessions_ \ S |-> sessions_[i]]

RtcInit ==
    /\ rtcInitialized = FALSE
    /\ sessions_ = [i \in {} |-> 0]
    /\ offering = [t \in OfferThreads |-> {}]
    /\ closingList = {} /\ rtcIds = 0 /\ rtcNow = 0

RtcInitialize ==
    /\ ~rtcInitialized /\ rtcIds = 0
    /\ rtcInitialized' = TRUE
    /\ UNCHANGED <<sessions_, offering, closingList, rtcIds, rtcNow>>

(* Mutant: the limit lets one more in.                                      *)
HandleOfferPastLimit(t, ch) ==
    /\ rtcInitialized /\ offering[t] = {} /\ rtcIds < MaxOffers
    /\ Cardinality(DOMAIN sessions_) <= max_sessions
    /\ rtcIds' = rtcIds + 1
    /\ offering' = [offering EXCEPT ![t] = {[id |-> rtcIds + 1, channel |-> ch]}]
    /\ UNCHANGED <<rtcInitialized, sessions_, closingList, rtcNow>>

(* HandleOffer: the test of the limit and GenerateSessionId.  At the limit  *)
(* the offer is refused.                                                    *)
HandleOffer(t, ch) ==
    /\ rtcInitialized /\ offering[t] = {} /\ rtcIds < MaxOffers
    /\ Cardinality(DOMAIN sessions_) < max_sessions
    /\ rtcIds' = rtcIds + 1
    /\ offering' = [offering EXCEPT ![t] = {[id |-> rtcIds + 1, channel |-> ch]}]
    /\ UNCHANGED <<rtcInitialized, sessions_, closingList, rtcNow>>

(* One of the calls of loong-rtc fails; what was made is freed.             *)
OfferFails(t) ==
    /\ offering[t] # {}
    /\ offering' = [offering EXCEPT ![t] = {}]
    /\ UNCHANGED <<rtcInitialized, sessions_, closingList, rtcIds, rtcNow>>

StoreSession(t) ==
    /\ \E o \in offering[t] :
          sessions_' = [i \in DOMAIN sessions_ \union {o.id} |->
                          IF i = o.id THEN Session(o.channel) ELSE sessions_[i]]
    /\ offering' = [offering EXCEPT ![t] = {}]
    /\ UNCHANGED <<rtcInitialized, closingList, rtcIds, rtcNow>>

(* HandleWebRtcIce; activity counts even if the candidate is refused.       *)
HandleIceCandidate(id) ==
    /\ sessions_' = [sessions_ EXCEPT ![id].last_activity = rtcNow]
    /\ UNCHANGED <<rtcInitialized, offering, closingList, rtcIds, rtcNow>>

(* A callback for a session that is not stored yet is lost.                 *)
OnConnectionStateChange(id, state) ==
    /\ sessions_' = [sessions_ EXCEPT ![id].state = state,
                                      ![id].last_activity = rtcNow]
    /\ UNCHANGED <<rtcInitialized, offering, closingList, rtcIds, rtcNow>>

(* A frame goes to the connected sessions of the channel and is no          *)
(* activity: last_activity stays.                                           *)
WriteVideoFrame(ch) ==
    /\ rtcInitialized
    /\ \E i \in DOMAIN sessions_ : /\ sessions_[i].channel = ch
                                   /\ sessions_[i].state = "kConnected"
    /\ UNCHANGED rtcVars

(* HandleWebRtcClose.                                                       *)
CloseSession(id) ==
    /\ id \in DOMAIN sessions_
    /\ sessions_' = Without({id})
    /\ UNCHANGED <<rtcInitialized, offering, closingList, rtcIds, rtcNow>>

(* CloseSessionsForChannel lists the sessions of the channel, ...           *)
ListForChannel(ch) ==
    /\ closingList = {}
    /\ closingList' = {i \in DOMAIN sessions_ : sessions_[i].channel = ch}
    /\ UNCHANGED <<rtcInitialized, sessions_, offering, rtcIds, rtcNow>>

(* ... then closes one after the other, if it is still there.               *)
CloseListed(id) ==
    /\ id \in closingList
    /\ closingList' = closingList \ {id}
    /\ sessions_' = Without({id})
    /\ UNCHANGED <<rtcInitialized, offering, rtcIds, rtcNow>>

Expired ==
    {i \in DOMAIN sessions_ :
        \/ rtcNow - sessions_[i].last_activity > StaleAfter
        \/ sessions_[i].state \in {"kFailed", "kClosed"}}

(* A round of CleanupLoop; StopCleanupTimer comes with Shutdown.            *)
CleanupLoop ==
    /\ rtcInitialized /\ Expired # {}
    /\ sessions_' = Without(Expired)
    /\ UNCHANGED <<rtcInitialized, offering, closingList, rtcIds, rtcNow>>

(* An offer that is being set up may still store its session afterwards.    *)
RtcShutdown ==
    /\ rtcInitialized
    /\ rtcInitialized' = FALSE
    /\ sessions_' = Without(DOMAIN sessions_)
    /\ UNCHANGED <<offering, closingList, rtcIds, rtcNow>>

RtcTick ==
    /\ rtcNow < MaxRtcTime
    /\ rtcNow' = rtcNow + 1
    /\ UNCHANGED <<rtcInitialized, sessions_, offering, closingList, rtcIds>>

RtcNext ==
    \/ RtcInitialize \/ CleanupLoop \/ RtcShutdown \/ RtcTick
    \/ \E t \in OfferThreads : \/ OfferFails(t) \/ StoreSession(t)
                               \/ \E ch \in RtcChannels : HandleOffer(t, ch)
    \/ \E ch \in RtcChannels : WriteVideoFrame(ch) \/ ListForChannel(ch)
    \/ \E id \in DOMAIN sessions_ :
          \/ HandleIceCandidate(id) \/ CloseSession(id)
          \/ \E s \in {"kConnected", "kDisconnected", "kFailed", "kClosed"} :
                OnConnectionStateChange(id, s)
    \/ \E id \in closingList : CloseListed(id)

RtcSpec == RtcInit /\ [][RtcNext]_rtcVars

-----------------------------------------------------------------------------
(* Offers being set up, over all threads.                                   *)
InSetup == {t \in OfferThreads : offering[t] # {}}

(* Concurrent offers that all pass the test of the limit before any of them *)
(* is stored exceed it by at most the threads but one.                      *)
RtcSessionsBounded ==
    Cardinality(DOMAIN sessions_) + Cardinality(InSetup)
        <= max_sessions - 1 + Cardinality(OfferThreads)
=============================================================================
