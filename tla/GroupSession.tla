---------------------------- MODULE GroupSession ----------------------------
(***************************************************************************)
(* session/impl/GroupSession.java: a group of sessions, kept in three      *)
(* collections that the class updates one after the other and under no     *)
(* lock.  Each of the three is thread-safe by itself (two                  *)
(* ConcurrentHashMaps and a netty ChannelGroup), so one map operation is   *)
(* one step and every order of the steps of several threads is possible.   *)
(*                                                                         *)
(* A channel has one session, made by Session.create(id).bindChannel(ch),  *)
(* so an element of Session stands for the session, for its channel and    *)
(* for its channel id (getSessionId()); idOf[s] is its getId(), which the  *)
(* application may set before the session is registered.                   *)
(***************************************************************************)
EXTENDS Naturals, FiniteSets

CONSTANTS
    Session,        \* the sessions, one for each channel
    Id,             \* the values a session's id may take
    Group,          \* the GroupSession objects of the program
    None            \* Java's null

ASSUME NoneAssumption == None \notin Session \cup Group

VARIABLES
    idOf,                   \* session -> its id
    closed,                 \* the sessions whose channel is closed
    groupSession,           \* group -> (id -> session), a ConcurrentHashMap
    channelGroup,           \* group -> the channels netty broadcasts to
    channelIdGroupSession   \* group -> the sessions indexed by channel id

collections == <<groupSession, channelGroup, channelIdGroupSession>>
groupVars == <<idOf, closed, collections>>

GroupTypeOK ==
    /\ idOf \in [Session -> Id]
    /\ closed \in SUBSET Session
    /\ groupSession \in [Group -> [Id -> Session \cup {None}]]
    /\ channelGroup \in [Group -> SUBSET Session]
    /\ channelIdGroupSession \in [Group -> SUBSET Session]

\* create(groupId): a group starts with its three collections empty.
GroupInit ==
    /\ closed = {}
    /\ groupSession = [g \in Group |-> [i \in Id |-> None]]
    /\ channelGroup = [g \in Group |-> {}]
    /\ channelIdGroupSession = [g \in Group |-> {}]

-----------------------------------------------------------------------------
(* add(session): three insertions.                                         *)

PutSession(g, s) ==
    /\ groupSession' = [groupSession EXCEPT ![g][idOf[s]] = s]
    /\ UNCHANGED <<channelGroup, channelIdGroupSession>>

\* Netty adds a close listener with the channel: a channel that is closed
\* already is taken out again at once.
PutChannel(g, s) ==
    /\ channelGroup' =
           [channelGroup EXCEPT ![g] = IF s \in closed THEN @ ELSE @ \cup {s}]
    /\ UNCHANGED <<groupSession, channelIdGroupSession>>

PutChannelId(g, s) ==
    /\ channelIdGroupSession' = [channelIdGroupSession EXCEPT ![g] = @ \cup {s}]
    /\ UNCHANGED <<groupSession, channelGroup>>

-----------------------------------------------------------------------------
(* remove(id): the session the map held under id decides what is removed   *)
(* from the other two; when it held none, nothing is.                      *)

RemoveSession(g, i) ==
    /\ groupSession' = [groupSession EXCEPT ![g][i] = None]
    /\ UNCHANGED <<channelGroup, channelIdGroupSession>>

RemoveChannel(g, s) ==
    /\ channelGroup' = [channelGroup EXCEPT ![g] = @ \ {s}]
    /\ UNCHANGED <<groupSession, channelIdGroupSession>>

RemoveChannelId(g, s) ==
    /\ channelIdGroupSession' = [channelIdGroupSession EXCEPT ![g] = @ \ {s}]
    /\ UNCHANGED <<groupSession, channelGroup>>

\* findSession(id) looks the session up with Map.remove: the session leaves
\* the map and stays in the other two collections.
FindSession(g, i) == RemoveSession(g, i)

HasSession(g, i) == groupSession[g][i] # None

\* The close listener netty registers for every channel of a group.
DropFromChannelGroups(s) ==
    /\ channelGroup' = [g \in Group |-> channelGroup[g] \ {s}]
    /\ UNCHANGED <<groupSession, channelIdGroupSession>>

\* Whether a collection of group g still refers to session s.
Holds(g, s) ==
    \/ \E i \in Id : groupSession[g][i] = s
    \/ s \in channelGroup[g]
    \/ s \in channelIdGroupSession[g]
=============================================================================
