------------------------------- MODULE Channel -------------------------------
(***************************************************************************)
(* A Channel together with its entry in the EpollPoller, as operators on   *)
(* one record:                                                             *)
(*   events_     the events the channel is interested in                   *)
(*   index_      the poller's note of where the channel is                 *)
(*   interest    the kernel's interest list: {} or {the events registered} *)
(*   failed      an epoll_ctl returned an error (LOG_FATAL: abort)         *)
(***************************************************************************)
EXTENDS FiniteSets

CONSTANTS kNew, kAdded, kDeleted

ASSUME ChannelAssumption == kNew # kAdded /\ kNew # kDeleted /\ kAdded # kDeleted

ChannelType == [events_ : SUBSET {"read", "write"}, index_ : {kNew, kAdded, kDeleted},
                interest : SUBSET SUBSET {"read", "write"}, failed : BOOLEAN]

newChannel == [events_ |-> {}, index_ |-> kNew, interest |-> {}, failed |-> FALSE]

isReading(c) == "read" \in c.events_
isWriting(c) == "write" \in c.events_
Registered(c) == c.interest # {}

(* epoll_ctl, and the index_ set beside it: ADD fails on a registered      *)
(* descriptor, MOD and DEL on one that is not.                             *)
epoll_ctl(op, c, index) ==
  [events_ |-> c.events_, index_ |-> index,
   interest |-> IF op = "DEL" THEN {} ELSE {c.events_},
   failed |-> c.failed \/ (op = "ADD" <=> Registered(c))]

-----------------------------------------------------------------------------
(* A deliberate defect of a definition below, used to see a property fail: *)
(* a removed channel is always deleted from the interest list.             *)

removeChannel_always(c) == epoll_ctl("DEL", c, kNew)

-----------------------------------------------------------------------------
updateChannel(c) ==
  IF c.index_ \in {kNew, kDeleted} THEN epoll_ctl("ADD", c, kAdded)
  ELSE IF c.events_ = {} THEN epoll_ctl("DEL", c, kDeleted)
                         ELSE epoll_ctl("MOD", c, c.index_)

set_index(c, index) == [events_ |-> c.events_, index_ |-> index, interest |-> c.interest,
                        failed |-> c.failed]

removeChannel(c) ==
  IF c.index_ = kAdded THEN epoll_ctl("DEL", c, kNew) ELSE set_index(c, kNew)

set_events(c, evs) ==
  updateChannel([events_ |-> evs, index_ |-> c.index_, interest |-> c.interest,
                 failed |-> c.failed])

enableReading(c)  == set_events(c, c.events_ \cup {"read"})
disableReading(c) == set_events(c, c.events_ \ {"read"})
enableWriting(c)  == set_events(c, c.events_ \cup {"write"})
disableWriting(c) == set_events(c, c.events_ \ {"write"})
disableAll(c)     == set_events(c, {})
=============================================================================
