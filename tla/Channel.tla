------------------------------ MODULE Channel -------------------------------
(***************************************************************************)
(* A Channel of mymuduo/net and what EPollPoller does for it.  A channel   *)
(* is the record                                                           *)
(*   events_     the events its owner is interested in                     *)
(*   index_      what the poller noted about it (kNew, kAdded, kDeleted)   *)
(*   inMap       it is in the poller's channels_                           *)
(*   registered  its descriptor is in the epoll set of the kernel ...      *)
(*   mask        ... and waits for these events                            *)
(*   ctlFailed   an epoll_ctl on it has failed                             *)
(* and every method is a function from channels to channels.  All of them  *)
(* run in the thread of the channel's loop.                                *)
(***************************************************************************)
EXTENDS Sequences

\* kReadEvent and kWriteEvent; kNoneEvent is the empty set.  Urgent data, and
\* with it the EPOLLPRI of kReadEvent, is left out.
Events == {"EPOLLIN", "EPOLLOUT"}
Revents == Events \cup {"EPOLLHUP", "EPOLLERR"}
Indexes == {"kNew", "kAdded", "kDeleted"}

ChannelType == [events_ : SUBSET Events, index_ : Indexes, inMap : BOOLEAN,
                registered : BOOLEAN, mask : SUBSET Events, ctlFailed : BOOLEAN]

NewChannel == [events_ |-> {}, index_ |-> "kNew", inMap |-> FALSE,
               registered |-> FALSE, mask |-> {}, ctlFailed |-> FALSE]

isNoneEvent(ch) == ch.events_ = {}
isWriting(ch) == "EPOLLOUT" \in ch.events_

-----------------------------------------------------------------------------
(* EPollPoller::update: epoll_ctl.  An ADD of a descriptor that is in the  *)
(* set fails, and so does a MOD or a DEL of one that is not.               *)

epollAdd(ch) == [ch EXCEPT !.registered = TRUE,
                           !.mask = IF ch.registered THEN ch.mask ELSE ch.events_,
                           !.ctlFailed = ch.ctlFailed \/ ch.registered]

epollMod(ch) == [ch EXCEPT !.mask = IF ch.registered THEN ch.events_ ELSE {},
                           !.ctlFailed = ch.ctlFailed \/ ~ch.registered]

epollDel(ch) == [ch EXCEPT !.registered = FALSE,
                           !.mask = {},
                           !.ctlFailed = ch.ctlFailed \/ ~ch.registered]

\* Mutant: a channel without events stays kAdded after the DEL.
updateChannelStaysAdded(ch) ==
    IF ch.index_ = "kAdded"
    THEN IF isNoneEvent(ch) THEN epollDel(ch) ELSE epollMod(ch)
    ELSE epollAdd([ch EXCEPT !.index_ = "kAdded", !.inMap = TRUE])

\* A kDeleted channel is still in channels_ and is not entered again.
updateChannel(ch) ==
    IF ch.index_ = "kAdded"
    THEN IF isNoneEvent(ch)
         THEN [epollDel(ch) EXCEPT !.index_ = "kDeleted"]
         ELSE epollMod(ch)
    ELSE epollAdd([ch EXCEPT !.index_ = "kAdded",
                             !.inMap = ch.inMap \/ ch.index_ = "kNew"])

removeChannel(ch) ==
    LET erased == [ch EXCEPT !.inMap = FALSE, !.index_ = "kNew"]
    IN  IF ch.index_ = "kAdded" THEN epollDel(erased) ELSE erased

-----------------------------------------------------------------------------
(* The methods of Channel, each with the update() it ends in.              *)

enableReading(ch)  == updateChannel([ch EXCEPT !.events_ = @ \cup {"EPOLLIN"}])
enableWriting(ch)  == updateChannel([ch EXCEPT !.events_ = @ \cup {"EPOLLOUT"}])
disableWriting(ch) == updateChannel([ch EXCEPT !.events_ = @ \ {"EPOLLOUT"}])
disableAll(ch)     == updateChannel([ch EXCEPT !.events_ = {}])

\* handleEventWithGuard: the callbacks it makes for revents, in its order.
callbacks(revents) ==
    LET hup == "EPOLLHUP" \in revents /\ "EPOLLIN" \notin revents
    IN  (IF hup THEN <<"close">> ELSE << >>) \o
        (IF "EPOLLERR" \in revents THEN <<"error">> ELSE << >>) \o
        (IF "EPOLLIN" \in revents THEN <<"read">> ELSE << >>) \o
        (IF "EPOLLOUT" \in revents THEN <<"write">> ELSE << >>)

(***************************************************************************)
(* The poller's books agree with the kernel: a channel is in the epoll set *)
(* exactly when it is kAdded, with the events its owner asked for; it is   *)
(* in channels_ exactly when it is not kNew; and no epoll_ctl has failed   *)
(* (EPollPoller.cpp:66-149; an ADD or MOD that fails is a LOG_FATAL).      *)
(***************************************************************************)
InStep(ch) ==
    /\ ch.registered <=> ch.index_ = "kAdded"
    /\ ch.registered => ch.mask = ch.events_
    /\ ch.inMap <=> ch.index_ # "kNew"
    /\ ~ch.ctlFailed

=============================================================================
