----------------------- MODULE RdmDiscoveryProperties -----------------------
(***************************************************************************)
(* What the discovery of one port must guarantee.                          *)
(***************************************************************************)
EXTENDS RdmDiscovery

\* Where the machine is, or is going once the late-response pause is over.
Where == IF state = "LateResponse" THEN savedState ELSE state

\* The states of the binary search.
SearchStates == { "Discovery", "SingleDevice", "Dub", "QuickFind", "QuickFindDiscovery" }
Searching == Where \in SearchStates \cup {"Finished"}

Counted(tries) == [counter : 0..tries, running : BOOLEAN]
UidRange == Uid \X Uid

\* The types, and that the retry counter of kQuickfind is never used up: the
\* branch of the code for that case is never taken.
TypeOK ==
    /\ state \in State
    /\ savedState \in State \ {"LateResponse"}
    /\ isFinished \in BOOLEAN /\ doIncremental \in BOOLEAN /\ response \in BOOLEAN
    /\ tod \in Seq(Uid)
    /\ unmute \in Counted(UnmuteTries)
    /\ mute \in [entries : Nat, counter : 0..MuteTries, running : BOOLEAN, uid : Uid]
    /\ discovery \in [counter : 0..BranchTries, running : BOOLEAN, stack : Seq(UidRange),
                      lower : Uid, upper : Uid, pdl : UidRange]
    /\ single \in [counter : Nat, running : BOOLEAN]
    /\ quickFind \in [counter : 0..QuickFindTries, running : BOOLEAN, uid : Uid]
    /\ quickBranch \in Counted(QuickBranchTries)
    /\ message \in Request
    /\ rx \in [ready : BOOLEAN, frame : Frame]
    /\ wire \in Frame
    /\ present \subseteq Devices
    /\ muted \subseteq present
    /\ lost \in Nat
    /\ Where = "QuickFind" => quickFind.counter # 0

(***************************************************************************)
(* The branches.                                                           *)
(***************************************************************************)
\* The branch popped last is not settled yet.
BranchOpen == \/ Where \in {"SingleDevice", "Dub", "QuickFind", "QuickFindDiscovery"}
              \/ Where = "Discovery" /\ discovery.running

\* The popped branch and the stack, bottom first: the ranges still to search.
OpenRanges == discovery.stack \o (IF BranchOpen THEN <<<<discovery.lower, discovery.upper>>>>
                                  ELSE << >>)

\* The ranges still to search are non-empty, lie below the broadcast UID and
\* ascend from the bottom of the stack to the popped branch without overlap: no
\* UID lies in two branches (the two Push calls of kDub and the recursion they
\* unfold, on a stack that outlives every detour through quick find).
BranchesDisjoint ==
    Searching =>
        /\ \A i \in 1..Len(OpenRanges) :
              OpenRanges[i][1] <= OpenRanges[i][2] /\ OpenRanges[i][2] <= LastUid
        /\ \A i, j \in 1..Len(OpenRanges) :
              i < j => OpenRanges[i][2] < OpenRanges[j][1]

\* No branch is open more than one level deeper than the UID has bits: with 48
\* bits Push(), whose result nobody looks at, never meets a full stack.
StackBounded == 2 ^ Len(discovery.stack) <= 4 * HighBit

\* A branch under quick find is asked again with the limits it was popped with:
\* the buffer pdl, filled in kDiscovery and sent again from kQuickfindDiscovery,
\* is the current branch.
BranchRepeated ==
    Where \in {"Dub", "QuickFind", "QuickFindDiscovery"} =>
        discovery.pdl = <<discovery.lower, discovery.upper>>

(***************************************************************************)
(* The table.                                                              *)
(***************************************************************************)
\* No device is listed twice, however often it is heard, muted and found.
NoDuplicateEntry == NoDuplicates(tod)

\* The probe of the known devices in kMute walks down the table while Delete()
\* moves entries up: the cursor stays inside the table and the UID being
\* probed is the entry it stands on.
ProbeInsideTable ==
    state = "Mute" =>
        /\ mute.entries <= Len(tod)
        /\ (mute.running \/ mute.counter = 0) /\ mute.entries # 0
              => tod[mute.entries] = mute.uid

\* No device is made up: whatever is lost, late, overlapping or unplugged, every
\* entry is the UID of a device whose DISC_MUTE acknowledgement was received.
OnlyDevicesListed == Uids(tod) \subseteq Devices

\* A full discovery lists only devices that acknowledged a DISC_MUTE of this
\* run, whatever is lost, late or overlapping.
OnlyMutedListed ==
    Searching /\ ~doIncremental => Uids(tod) \subseteq muted

\* When answers are punctual and fewer messages are lost than a request is
\* tried (MaxLost < every ...Tries), a discovery that finishes has the table
\* equal to the devices on the line, or the table is full of them.
CompleteAtFinish ==
    (isFinished \/ state = "Finished") /\ state \in {"Idle", "Finished"} =>
        \/ Uids(tod) = present
        \/ Len(tod) = TableSize /\ Uids(tod) \subseteq present

\* The run implements DiscoveryPromise, under the same condition: it forgets only
\* devices that left, lists only devices that are there, and reports an end
\* only with a complete table.
Promise == INSTANCE DiscoveryPromise WITH
    phase <- IF state # "Idle" THEN "running" ELSE IF isFinished THEN "done" ELSE "off",
    full <- ~doIncremental,
    table <- Uids(tod)

ImplementsPromise == Promise!Spec

\* A run that was started ends, finished or stopped.
Terminates == (state = "Unmute") ~> (state = "Idle")
=============================================================================
