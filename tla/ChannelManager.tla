---------------------------- MODULE ChannelManager ----------------------------
(***************************************************************************)
(* The voice engine's channels: voe::ChannelManager and the shared         *)
(* pointers ChannelOwner by which several threads use a channel while      *)
(* another one removes it.                                                 *)
(*                                                                         *)
(* A holder is a place that may own a reference to a channel: the local    *)
(* ChannelOwner of a call, the vector of an Iterator, the variable         *)
(* `reference` of DestroyChannel.  What is done under lock_ is one step;   *)
(* ref_count is atomic; the deletion that follows the last decrement is a  *)
(* step of its own.                                                        *)
(***************************************************************************)
EXTENDS Integers, FiniteSets

CONSTANTS
    Holders,
    MaxChannels     \* bound: channels created

ASSUME HoldersAssumption == IsFiniteSet(Holders)
ASSUME MaxChannelsAssumption == MaxChannels \in Nat

Channels == 0..(MaxChannels - 1)

VARIABLES
    last_channel_id,    \* last_channel_id_: identifiers are never reused
    channels,           \* channels_, the manager's own references
    held,               \* the references of each holder
    ref_count,
    deleting,           \* channels a holder is about to delete
    deletedChannels

cmVars == <<last_channel_id, channels, held, ref_count, deleting,
            deletedChannels>>

CMInit ==
    /\ last_channel_id = -1
    /\ channels = {}
    /\ held = [h \in Holders |-> {}]
    /\ ref_count = [c \in Channels |-> 0]
    /\ deleting = [h \in Holders |-> {}]
    /\ deletedChannels = {}

-----------------------------------------------------------------------------
(* Slip: the identifier is incremented after its use. *)
CreateChannel_PostIncrement(h) ==
    /\ last_channel_id + 1 \in Channels
    /\ last_channel_id' = last_channel_id + 1
    /\ channels' = channels \cup {last_channel_id}
    /\ held' = [held EXCEPT ![h] = @ \cup {last_channel_id}]
    /\ UNCHANGED <<ref_count, deleting, deletedChannels>>

(* CreateChannelInternal: the new owner is copied into the vector.  Until  *)
(* it is there nobody else knows the channel.                              *)
CreateChannel(h) ==
    LET c == last_channel_id + 1
    IN  /\ c \in Channels
        /\ c \notin held[h]
        /\ last_channel_id' = c
        /\ channels' = channels \cup {c}
        /\ held' = [held EXCEPT ![h] = @ \cup {c}]
        /\ ref_count' = [ref_count EXCEPT ![c] = 2]
        /\ UNCHANGED <<deleting, deletedChannels>>

(* GetChannel (one channel) and GetAllChannels (all of them).              *)
GetChannels(h, C) ==
    /\ C \subseteq channels
    /\ held[h] = {}
    /\ held' = [held EXCEPT ![h] = C]
    /\ ref_count' = [c \in Channels |-> ref_count[c] + (IF c \in C THEN 1 ELSE 0)]
    /\ UNCHANGED <<last_channel_id, channels, deleting, deletedChannels>>

(* DestroyChannel and DestroyAllChannels: the vector's references become   *)
(* those of a local variable.                                              *)
DestroyChannels(h, C) ==
    /\ C \subseteq channels
    /\ held[h] = {}
    /\ held' = [held EXCEPT ![h] = C]
    /\ channels' = channels \ C
    /\ UNCHANGED <<last_channel_id, ref_count, deleting, deletedChannels>>

(* Slip: the count is tested before it is decremented. *)
Drop_TestsFirst(h, c) ==
    /\ c \in held[h]
    /\ held' = [held EXCEPT ![h] = @ \ {c}]
    /\ ref_count' = [ref_count EXCEPT ![c] = @ - 1]
    /\ deleting' = [deleting EXCEPT ![h] =
                       IF ref_count[c] = 0 THEN @ \cup {c} ELSE @]
    /\ UNCHANGED <<last_channel_id, channels, deletedChannels>>

(* ~ChannelOwner *)
Drop(h, c) ==
    /\ c \in held[h]
    /\ held' = [held EXCEPT ![h] = @ \ {c}]
    /\ ref_count' = [ref_count EXCEPT ![c] = @ - 1]
    /\ deleting' = [deleting EXCEPT ![h] =
                       IF ref_count[c] = 1 THEN @ \cup {c} ELSE @]
    /\ UNCHANGED <<last_channel_id, channels, deletedChannels>>

(* delete channel_ref_, with ~Channel. *)
Delete(h, c) ==
    /\ c \in deleting[h]
    /\ deleting' = [deleting EXCEPT ![h] = @ \ {c}]
    /\ deletedChannels' = deletedChannels \cup {c}
    /\ UNCHANGED <<last_channel_id, channels, held, ref_count>>

CMNext ==
    \E h \in Holders :
        \/ CreateChannel(h)
        \/ \E C \in SUBSET channels : GetChannels(h, C) \/ DestroyChannels(h, C)
        \/ \E c \in Channels : Drop(h, c) \/ Delete(h, c)

CMSpec == CMInit /\ [][CMNext]_cmVars

-----------------------------------------------------------------------------
(* The type of the state. *)
CMTypeOK ==
    /\ last_channel_id \in -1..(MaxChannels - 1)
    /\ channels \in SUBSET Channels
    /\ held \in [Holders -> SUBSET Channels]
    /\ ref_count \in [Channels -> Int]
    /\ deleting \in [Holders -> SUBSET Channels]
    /\ deletedChannels \in SUBSET Channels

(* channel_manager.h: "Channels are deleted when no references to them are *)
(* held", and an Iterator's channels "remain valid even if they are        *)
(* removed from the ChannelManager": a channel that has been created is    *)
(* referred to by the manager or a holder, or it is deleted, never both,   *)
(* and one holder only deletes it.                                         *)
HeldXorDeleted ==
    \A c \in 0..last_channel_id :
        LET referred == c \in channels \/ \E h \in Holders : c \in held[h]
            deleters == {h \in Holders : c \in deleting[h]}
        IN  /\ referred => deleters = {} /\ c \notin deletedChannels
            /\ ~ referred => (c \in deletedChannels <=> deleters = {})
            /\ \A g, h \in deleters : g = h
=============================================================================
