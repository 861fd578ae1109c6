-------------------------- MODULE PrLabelerProofs --------------------------
(***************************************************************************)
(* For any users, members, comment bodies, number of overlapping runs and  *)
(* number of events: the bot only carries labels and approvals somebody    *)
(* had the right to ask for, and only labels the repository defines.       *)
(*                                                                         *)
(* Each of the three invariants is about a write that a run decided on     *)
(* from an old snapshot, so none is inductive alone: RunsFit says of every *)
(* run in flight that the call it has pending is one its event allows.     *)
(* RunsRight says more of the runs that no other disturbs: what they read  *)
(* still holds of the labels they have yet to deal with.  RunsHead adds    *)
(* that such a run is on its way to the outcome of its event.              *)
(*                                                                         *)
(* And, of the size label: never two of them.                              *)
(***************************************************************************)
EXTENDS PrLabeler, PrSizeLabeler, FiniteSetTheorems, WellFoundedInduction, TLAPS

\* The sender may be served: the three tests of FetchRefused, passed.
Allowed(ev) == HasText(ev) /\ ev.user \in Members /\ ~QuotesWelcome(ev)

\* me is a run that fits what was asked for (ask, approval) and the labels
\* the repository defines (repo).
Fits(me, ask, approval, repo) ==
    /\ Wanted(me.ev) \subseteq ask
    /\ MayApprove(me.ev) => approval
    /\ me.cmds \subseteq Requested(me.ev.body)
    /\ me.pc \in Calling \cup {"strip", "comment"} => Allowed(me.ev)
    /\ me.pc \in {"comment", "approve"} => me.ev.kind = "comment"
    /\ me.pc \in {"lookup", "create", "attach"} => me.label \in Wanted(me.ev)
    /\ me.pc = "approve" => /\ MayApprove(me.ev)
                            /\ ~me.undo => me.label \in Wanted(me.ev)
    /\ me.pc = "attach" => me.label \in repo

RunsFit == \A r \in Slots : Fits(run[r], asked, approvalAsked, repoLabels)

IInv ==
    /\ TypeOK
    /\ LabelsWereAsked
    /\ ApprovalWasAsked
    /\ AttachedLabelsExist
    /\ RunsFit

-----------------------------------------------------------------------------
(* What events and the operators on them are worth.                        *)

LEMMA EventsTyped == Events \cup {NoEvent} \subseteq Event
<1>1. NoEvent \in Event
  BY UsersAssumption DEF Event, NoEvent
<1>2. QED
  BY <1>1 DEF Events

LEMMA RequestedTyped ==
    ASSUME NEW ev \in Event PROVE Requested(ev.body) \subseteq Token
<1>1. ev.body \in Seq(Token)
  <2>1. <<>> \in Seq(Token)
    OBVIOUS
  <2>2. ev.body \in Bodies \cup {<<>>}
    BY DEF Event
  <2>3. QED
    BY <2>1, <2>2, BodiesAssumption
<1>2. QED
  BY <1>1 DEF Requested

LEMMA LabelsTyped ==
    ASSUME NEW ev \in Event
    PROVE  /\ \A c \in Token : Target(c.cmd, ev.user) \in Label
           /\ ReviewLabelToAdd(ev) \in Label
           /\ <<"commented-by", ev.user>> \in Label
           /\ Wanted(ev) \subseteq Label
<1>1. \A c \in Token : Target(c.cmd, ev.user) \in Label
  BY DEF Event, Token, Commands, Target, Label, VoteKinds
<1>2. ReviewLabelToAdd(ev) \in Label
  BY DEF Event, ReviewLabelToAdd, Label, VoteKinds
<1>3. <<"commented-by", ev.user>> \in Label
  BY DEF Event, Label, VoteKinds
<1>4. Wanted(ev) \subseteq Label
  BY <1>1, <1>2, <1>3, RequestedTyped DEF Wanted
<1>5. QED
  BY <1>1, <1>2, <1>3, <1>4

\* A command that is not passed over and does not undo asks for its label.
LEMMA CommandIsWanted ==
    ASSUME NEW ev \in Event, NEW c \in Requested(ev.body), Allowed(ev), ev.kind = "comment",
           ~OwnApproval(c.cmd, ev.user)
    PROVE  /\ ~Undoes(c, ev) => Target(c.cmd, ev.user) \in Wanted(ev)
           /\ Approves(c, ev) => MayApprove(ev)
<1>1. ev.body # <<>>
  BY DEF Requested
<1>2. ~Undoes(c, ev) => Target(c.cmd, ev.user) \in Wanted(ev)
  BY <1>1 DEF Undoes, Wanted, OwnApproval, Allowed
<1>3. Approves(c, ev) => MayApprove(ev)
  BY DEF Approves, MayApprove, OwnApproval, Allowed
<1>4. QED
  BY <1>2, <1>3

-----------------------------------------------------------------------------
(* Moving one run.                                                         *)

LEMMA FieldsTyped ==
    ASSUME NEW me \in Run
    PROVE  /\ me.ev \in Event /\ me.snap \subseteq Label /\ me.strip \subseteq Label
           /\ me.cmds \subseteq Token /\ me.label \in Label /\ me.undo \in BOOLEAN
           /\ me.disturbed \in BOOLEAN
BY EventsTyped DEF Run

\* The other runs keep everything but their history bit.
LEMMA OneRunMoves ==
    ASSUME run \in [Slots -> Run], RunsFit,
           NEW r \in Slots, NEW rec \in Run,
           Step(r, rec) \/ Write(r, rec),
           asked \subseteq asked', approvalAsked => approvalAsked',
           repoLabels \subseteq repoLabels',
           Fits(rec, asked', approvalAsked', repoLabels')
    PROVE  run' \in [Slots -> Run] /\ RunsFit'
<1>1. \A q \in Slots \ {r} : \/ run'[q] = run[q]
                             \/ run'[q] = [run[q] EXCEPT !.disturbed = TRUE]
  BY DEF Step, Write
<1>2. run'[r] = rec /\ DOMAIN run' = Slots /\ run' = [q \in Slots |-> run'[q]]
  BY DEF Step, Write
<1>3. ASSUME NEW q \in Slots
      PROVE  run'[q] \in Run /\ Fits(run'[q], asked', approvalAsked', repoLabels')
  <2>1. CASE q = r
    BY <1>2, <2>1
  <2>2. CASE q # r
    <3>1. Fits(run[q], asked, approvalAsked, repoLabels) /\ run[q] \in Run
      BY DEF RunsFit
    <3>2. Fits(run[q], asked', approvalAsked', repoLabels')
      BY <3>1 DEF Fits
    <3>3. CASE run'[q] = run[q]
      BY <3>1, <3>2, <3>3
    <3>4. CASE run'[q] = [run[q] EXCEPT !.disturbed = TRUE]
      BY <3>1, <3>2, <3>4 DEF Fits, Run
    <3>5. QED
      BY <1>1, <2>2, <3>3, <3>4
  <2>3. QED
    BY <2>1, <2>2
<1>4. QED
  BY <1>2, <1>3 DEF RunsFit

\* Where a run may go when a label is dealt with.
LEMMA ResumeFits ==
    ASSUME NEW ask, NEW approval, NEW repo, NEW me \in Run,
           Fits(me, ask, approval, repo), Allowed(me.ev)
    PROVE  Resume(me) \in Run /\ Fits(Resume(me), ask, approval, repo)
BY DEF Resume, Run, Fits, Calling, Ended

LEMMA RelabelFits ==
    ASSUME NEW ask, NEW approval, NEW repo, NEW me \in Run,
           Fits([me EXCEPT !.pc = "queued"], ask, approval, repo), Allowed(me.ev),
           ~me.undo => me.label \in Wanted(me.ev)
    PROVE  Relabel(me) \in Run /\ Fits(Relabel(me), ask, approval, repo)
<1>1. CASE Relabel(me) = [me EXCEPT !.pc = "remove"]
  BY <1>1 DEF Run, Fits, Calling, Ended
<1>2. CASE Relabel(me) = [me EXCEPT !.pc = "lookup"] /\ ~me.undo
  BY <1>2 DEF Run, Fits, Calling, Ended
<1>3. CASE Relabel(me) = Resume(me)
  BY <1>3 DEF Resume, Run, Fits, Calling, Ended
<1>4. QED
  BY <1>1, <1>2, <1>3 DEF Relabel

-----------------------------------------------------------------------------
(* One lemma per action.                                                   *)

LEMMA InitIInv == Init => IInv
<1> SUFFICES ASSUME Init PROVE IInv
  OBVIOUS
<1>1. NewRun \in Run
  BY EventsTyped, CommandsAssumption
     DEF NewRun, Run, Ended, Label
<1>2. Fits(NewRun, {}, FALSE, RepoLabels)
  BY DEF Fits, NewRun, NoEvent, Wanted, MayApprove, Calling
<1>3. TypeOK
  <2>1. run \in [Slots -> Run]
    BY <1>1 DEF Init
  <2>2. events \in 0..MaxEvents
    BY BoundAssumption DEF Init
  <2>3. QED
    BY <2>1, <2>2, LabelsAssumption DEF Init, TypeOK
<1>4. RunsFit
  BY <1>2 DEF Init, RunsFit
<1>5. QED
  BY <1>3, <1>4 DEF Init, IInv, LabelsWereAsked, ApprovalWasAsked, AttachedLabelsExist

LEMMA TriggerIInv ==
    ASSUME IInv, NEW r \in Slots, NEW ev \in Events, Trigger(r, ev)
    PROVE  IInv'
<1> DEFINE rec == [NewRun EXCEPT !.pc = "queued", !.ev = ev]
<1>1. ev \in Event
  BY EventsTyped
<1>2. rec \in Run /\ rec.ev = ev /\ rec.pc = "queued" /\ rec.cmds = {}
  BY CommandsAssumption DEF NewRun, Run, Ended, Label
<1>3. Fits(rec, asked', approvalAsked', repoLabels')
  BY <1>2 DEF Trigger, Fits, Calling
<1>4. run' \in [Slots -> Run] /\ RunsFit'
  <2> HIDE DEF rec
  <2>1. Step(r, rec)
    BY DEF Trigger, rec
  <2>2. asked \subseteq asked' /\ approvalAsked => approvalAsked' /\ repoLabels' = repoLabels
    BY DEF Trigger, github
  <2>3. QED
    BY <1>2, <1>3, <2>1, <2>2, OneRunMoves DEF IInv, TypeOK, Trigger, github
<1>5. Wanted(ev) \subseteq Label
  BY <1>1, LabelsTyped
<1>6. events' \in 0..MaxEvents
  BY BoundAssumption DEF IInv, TypeOK, Trigger
<1>7. TypeOK'
  BY <1>4, <1>5, <1>6 DEF IInv, TypeOK, Trigger, github, MayApprove
<1>8. QED
  BY <1>4, <1>7 DEF IInv, LabelsWereAsked, ApprovalWasAsked, AttachedLabelsExist, Trigger, github

\* Actions that only move a run: the pending call must fit the event.
LEMMA QuietIInv ==
    ASSUME IInv, NEW r \in Slots, NEW rec \in Run, Step(r, rec), UNCHANGED <<github, history>>,
           Fits(rec, asked, approvalAsked, repoLabels)
    PROVE  IInv'
<1>1. run' \in [Slots -> Run] /\ RunsFit'
  BY OneRunMoves DEF IInv, TypeOK, github, history
<1>2. TypeOK'
  BY <1>1 DEF IInv, TypeOK, github, history
<1>3. QED
  BY <1>1, <1>2 DEF IInv, LabelsWereAsked, ApprovalWasAsked, AttachedLabelsExist, github, history

LEMMA FetchIInv ==
    ASSUME IInv, NEW r \in Slots,
           FetchRefused(r) \/ FetchOnPush(r) \/ FetchOnReview(r) \/ FetchOnComment(r)
    PROVE  IInv'
<1> DEFINE ev == run[r].ev
           got == Fetched(r)
<1>1. run[r] \in Run /\ Fits(run[r], asked, approvalAsked, repoLabels) /\ ev \in Event
  BY FieldsTyped DEF IInv, TypeOK, RunsFit
<1>2. got \in Run /\ got.ev = ev /\ got.pc = run[r].pc /\ Fits(got, asked, approvalAsked, repoLabels)
  BY <1>1 DEF Fetched, IInv, TypeOK, Run, Fits
<1>3. Served(r) => Allowed(ev) /\ got.pc = "queued"
  BY <1>1, <1>2 DEF Served, Allowed, VerifyAllowedUser, QuotesWelcome
<1>4. CASE FetchRefused(r)
  <2>1. [got EXCEPT !.pc = "done"] \in Run
        /\ Fits([got EXCEPT !.pc = "done"], asked, approvalAsked, repoLabels)
    BY <1>2 DEF Run, Fits, Ended, Calling
  <2>2. QED
    BY <1>4, <2>1, QuietIInv DEF FetchRefused
<1>5. CASE FetchOnPush(r)
  <2> DEFINE rec == [got EXCEPT !.pc = "strip", !.strip = {l \in labels : Sticky(l)}]
  <2>1. rec \in Run /\ Fits(rec, asked, approvalAsked, repoLabels)
    BY <1>2, <1>3, <1>5 DEF FetchOnPush, IInv, TypeOK, Run, Fits, Calling, Ended
  <2>2. QED
    BY <1>5, <2>1, QuietIInv DEF FetchOnPush
<1>6. ASSUME NEW l \in Label, NEW rec \in Run, rec.ev = ev, rec.pc = "queued",
             Fits(rec, asked, approvalAsked, repoLabels), Served(r), l \in Wanted(ev),
             AddUnlessThere(r, l, rec), UNCHANGED <<github, history>>
      PROVE  IInv'
  <2>1. CASE l \in labels
    <3>1. Resume(rec) \in Run /\ Fits(Resume(rec), asked, approvalAsked, repoLabels)
      BY <1>3, <1>6, ResumeFits
    <3>2. QED
      BY <1>6, <2>1, <3>1, QuietIInv DEF AddUnlessThere
  <2>2. CASE l \notin labels
    <3>1. [rec EXCEPT !.pc = "lookup", !.label = l] \in Run
          /\ Fits([rec EXCEPT !.pc = "lookup", !.label = l], asked, approvalAsked, repoLabels)
      BY <1>3, <1>6 DEF Run, Fits, Calling, Ended
    <3>2. QED
      BY <1>6, <2>2, <3>1, QuietIInv DEF AddUnlessThere
  <2>3. QED
    BY <2>1, <2>2
<1>7. CASE FetchOnReview(r)
  <2> DEFINE rec == [got EXCEPT !.strip = ReviewLabelToRemove(ev) \cap labels]
  <2>1. Served(r) /\ got.pc = "queued" /\ ev.kind = "review"
    BY <1>3, <1>7 DEF FetchOnReview
  <2>2. rec \in Run /\ rec.ev = ev /\ rec.pc = "queued"
        /\ Fits(rec, asked, approvalAsked, repoLabels)
    BY <1>2, <2>1 DEF IInv, TypeOK, Run, Fits
  <2>3. ReviewLabelToAdd(ev) \in Wanted(ev) /\ ReviewLabelToAdd(ev) \in Label
    BY <1>1, <1>3, <2>1, LabelsTyped DEF Wanted, Allowed
  <2>4. AddUnlessThere(r, ReviewLabelToAdd(ev), rec) /\ UNCHANGED <<github, history>>
    BY <1>7 DEF FetchOnReview
  <2> HIDE DEF rec, ev
  <2>5. QED
    BY <1>6, <2>1, <2>2, <2>3, <2>4
<1>8. CASE FetchOnComment(r)
  <2>1. Served(r) /\ got.pc = "queued" /\ ev.kind = "comment" /\ Allowed(ev)
        /\ UNCHANGED <<github, history>>
    BY <1>3, <1>8 DEF FetchOnComment
  <2>2. CASE ev.body = <<>>
    <3>1. <<"commented-by", ev.user>> \in Wanted(ev)
      <4>1. Wanted(ev) = {<<"commented-by", ev.user>>}
        BY <2>1, <2>2 DEF Wanted, Allowed
      <4>2. QED
        BY <4>1
    <3>4. <<"commented-by", ev.user>> \in Label
      BY <1>1, LabelsTyped
    <3>2. AddUnlessThere(r, <<"commented-by", ev.user>>, got)
      BY <1>8, <2>2 DEF FetchOnComment
    <3> HIDE DEF got, ev
    <3>3. QED
      BY <1>2, <1>6, <2>1, <3>1, <3>2, <3>4
  <2>3. CASE ev.body # <<>>
    <3> DEFINE rec == [got EXCEPT !.pc = "comment", !.cmds = Requested(ev.body)]
    <3>1. rec \in Run /\ Fits(rec, asked, approvalAsked, repoLabels)
      BY <1>1, <1>2, <2>1, RequestedTyped DEF Run, Fits, Calling, Ended
    <3>2. QED
      BY <1>8, <2>1, <2>3, <3>1, QuietIInv DEF FetchOnComment
  <2>4. QED
    BY <2>2, <2>3
<1>9. QED
  BY <1>4, <1>5, <1>7, <1>8

LEMMA CommandIInv ==
    ASSUME IInv, NEW r \in Slots, NEW c \in run[r].cmds, SkipCommand(r, c) \/ Command(r, c)
    PROVE  IInv'
<1> DEFINE ev == run[r].ev
<1>1. /\ run[r] \in Run /\ Fits(run[r], asked, approvalAsked, repoLabels) /\ ev \in Event
      /\ c \in Requested(ev.body) /\ c \in Token
  BY FieldsTyped DEF IInv, TypeOK, RunsFit, Fits
<1>2. Allowed(ev) /\ ev.kind = "comment" /\ UNCHANGED <<github, history>>
  BY <1>1 DEF SkipCommand, Command, Fits
<1>3. CASE SkipCommand(r, c)
  <2>1. [run[r] EXCEPT !.cmds = @ \ {c}] \in Run
        /\ Fits([run[r] EXCEPT !.cmds = @ \ {c}], asked, approvalAsked, repoLabels)
    BY <1>1, <1>3 DEF Run, Fits
  <2>2. QED
    BY <1>2, <1>3, <2>1, QuietIInv DEF SkipCommand
<1>4. CASE Command(r, c)
  <2> DEFINE rec == [run[r] EXCEPT !.cmds = @ \ {c}, !.label = Target(c.cmd, ev.user),
                                   !.undo = Undoes(c, ev)]
  <2>1. ~OwnApproval(c.cmd, ev.user)
    BY <1>4 DEF Command
  <2>2. /\ ~Undoes(c, ev) => Target(c.cmd, ev.user) \in Wanted(ev)
        /\ Approves(c, ev) => MayApprove(ev)
    BY <1>1, <1>2, <2>1, CommandIsWanted
  <2>3. Target(c.cmd, ev.user) \in Label /\ Undoes(c, ev) \in BOOLEAN
    BY <1>1, LabelsTyped DEF Undoes, Token, Event
  <2>4. rec \in Run /\ rec.ev = ev /\ (~rec.undo => rec.label \in Wanted(ev))
    BY <1>1, <2>2, <2>3 DEF Run
  <2>5. Fits([rec EXCEPT !.pc = "queued"], asked, approvalAsked, repoLabels)
    BY <1>1, <2>4 DEF Run, Fits, Calling
  <2>6. CASE Approves(c, ev)
    <3>1. [rec EXCEPT !.pc = "approve"] \in Run
          /\ Fits([rec EXCEPT !.pc = "approve"], asked, approvalAsked, repoLabels)
      BY <1>1, <1>2, <2>2, <2>4, <2>6 DEF Run, Fits, Calling, Ended
    <3>2. QED
      BY <1>2, <1>4, <2>6, <3>1, QuietIInv DEF Command
  <2>7. CASE ~Approves(c, ev)
    <3>1. Relabel(rec) \in Run /\ Fits(Relabel(rec), asked, approvalAsked, repoLabels)
      BY <1>2, <2>4, <2>5, RelabelFits
    <3>2. QED
      BY <1>2, <1>4, <2>7, <3>1, QuietIInv DEF Command
  <2>8. QED
    BY <2>6, <2>7
<1>5. QED
  BY <1>3, <1>4

LEMMA ApproveIInv ==
    ASSUME IInv, NEW r \in Slots, ApprovePr(r) PROVE IInv'
<1>1. /\ run[r] \in Run /\ Fits(run[r], asked, approvalAsked, repoLabels)
      /\ run[r].pc = "approve"
  BY DEF IInv, TypeOK, RunsFit, ApprovePr
<1>2. /\ Allowed(run[r].ev) /\ MayApprove(run[r].ev) /\ approvalAsked
      /\ ~run[r].undo => run[r].label \in Wanted(run[r].ev)
  BY <1>1 DEF Fits, Calling
<1>3. Fits([run[r] EXCEPT !.pc = "queued"], asked, approvalAsked, repoLabels)
  BY <1>1 DEF Run, Fits, Calling
<1>4. Relabel(run[r]) \in Run /\ Fits(Relabel(run[r]), asked, approvalAsked, repoLabels)
  BY <1>1, <1>2, <1>3, RelabelFits
<1>5. run' \in [Slots -> Run] /\ RunsFit'
  BY <1>4, OneRunMoves DEF IInv, TypeOK, ApprovePr, history
<1>6. QED
  BY <1>2, <1>5 DEF IInv, TypeOK, LabelsWereAsked, ApprovalWasAsked, AttachedLabelsExist,
                    ApprovePr, history

LEMMA LookupIInv ==
    ASSUME IInv, NEW r \in Slots, LookupLabel(r) PROVE IInv'
<1> DEFINE rec == [run[r] EXCEPT !.pc = IF run[r].label \in repoLabels THEN "attach" ELSE "create"]
<1>1. run[r] \in Run /\ Fits(run[r], asked, approvalAsked, repoLabels) /\ run[r].pc = "lookup"
  BY DEF IInv, TypeOK, RunsFit, LookupLabel
<1>2. rec \in Run /\ Fits(rec, asked, approvalAsked, repoLabels)
  BY <1>1 DEF Run, Fits, Calling, Ended
<1>3. QED
  BY <1>2, QuietIInv DEF LookupLabel

LEMMA CreateIInv ==
    ASSUME IInv, NEW r \in Slots, CreateLabel(r) PROVE IInv'
<1>1. run[r] \in Run /\ Fits(run[r], asked, approvalAsked, repoLabels) /\ run[r].pc = "create"
  BY DEF IInv, TypeOK, RunsFit, CreateLabel
<1>2. CASE run[r].label \in repoLabels
  <2>1. [run[r] EXCEPT !.pc = "crashed"] \in Run
        /\ Fits([run[r] EXCEPT !.pc = "crashed"], asked, approvalAsked, repoLabels)
    BY <1>1 DEF Run, Fits, Calling, Ended
  <2>2. QED
    BY <1>2, <2>1, QuietIInv DEF CreateLabel, github
<1>3. CASE run[r].label \notin repoLabels
  <2> DEFINE rec == [run[r] EXCEPT !.pc = "attach"]
  <2>1. repoLabels' = repoLabels \cup {run[r].label} /\ Write(r, rec)
    BY <1>3 DEF CreateLabel
  <2>2. rec \in Run /\ Fits(rec, asked', approvalAsked', repoLabels')
    BY <1>1, <2>1 DEF CreateLabel, history, Run, Fits, Calling, Ended
  <2>3. run' \in [Slots -> Run] /\ RunsFit'
    BY <2>1, <2>2, OneRunMoves DEF IInv, TypeOK, CreateLabel, history
  <2>4. run[r].label \in Label
    BY <1>1 DEF Run
  <2>5. QED
    BY <2>1, <2>3, <2>4 DEF IInv, TypeOK, LabelsWereAsked, ApprovalWasAsked,
                            AttachedLabelsExist, CreateLabel, history
<1>4. QED
  BY <1>2, <1>3

LEMMA AttachIInv ==
    ASSUME IInv, NEW r \in Slots, AttachLabel(r) PROVE IInv'
<1>1. run[r] \in Run /\ Fits(run[r], asked, approvalAsked, repoLabels) /\ run[r].pc = "attach"
  BY DEF IInv, TypeOK, RunsFit, AttachLabel
<1>2. /\ Allowed(run[r].ev) /\ run[r].label \in Label
      /\ run[r].label \in asked /\ run[r].label \in repoLabels
  BY <1>1 DEF Fits, Calling, Run
<1>3. Resume(run[r]) \in Run /\ Fits(Resume(run[r]), asked, approvalAsked, repoLabels)
  BY <1>1, <1>2, ResumeFits
<1>4. run' \in [Slots -> Run] /\ RunsFit'
  BY <1>3, OneRunMoves DEF IInv, TypeOK, AttachLabel, history
<1>5. QED
  BY <1>2, <1>4 DEF IInv, TypeOK, LabelsWereAsked, ApprovalWasAsked, AttachedLabelsExist,
                    AttachLabel, history

LEMMA StripIInv ==
    ASSUME IInv, NEW r \in Slots, NEW l \in run[r].strip, StripLabel(r, l) PROVE IInv'
<1> DEFINE rec == [run[r] EXCEPT !.strip = @ \ {l}, !.label = l, !.pc = "remove"]
<1>1. /\ run[r] \in Run /\ Fits(run[r], asked, approvalAsked, repoLabels)
      /\ run[r].pc = "strip" /\ l \in Label
  BY FieldsTyped DEF IInv, TypeOK, RunsFit, StripLabel
<1>2. rec \in Run /\ Fits(rec, asked, approvalAsked, repoLabels)
  BY <1>1 DEF Run, Fits, Calling, Ended
<1>3. QED
  BY <1>2, QuietIInv DEF StripLabel

LEMMA RemoveIInv ==
    ASSUME IInv, NEW r \in Slots, RemoveLabel(r) PROVE IInv'
<1>1. run[r] \in Run /\ Fits(run[r], asked, approvalAsked, repoLabels) /\ run[r].pc = "remove"
  BY DEF IInv, TypeOK, RunsFit, RemoveLabel
<1>2. Allowed(run[r].ev)
  BY <1>1 DEF Fits, Calling
<1>3. CASE run[r].label \in labels
  <2>1. Resume(run[r]) \in Run /\ Fits(Resume(run[r]), asked, approvalAsked, repoLabels)
    BY <1>1, <1>2, ResumeFits
  <2>2. run' \in [Slots -> Run] /\ RunsFit'
    BY <1>3, <2>1, OneRunMoves DEF IInv, TypeOK, RemoveLabel, history
  <2>3. QED
    BY <1>3, <2>2 DEF IInv, TypeOK, LabelsWereAsked, ApprovalWasAsked, AttachedLabelsExist,
                      RemoveLabel, history
<1>4. CASE run[r].label \notin labels
  <2>1. [run[r] EXCEPT !.pc = "crashed"] \in Run
        /\ Fits([run[r] EXCEPT !.pc = "crashed"], asked, approvalAsked, repoLabels)
    BY <1>1 DEF Run, Fits, Calling, Ended
  <2>2. QED
    BY <1>4, <2>1, QuietIInv DEF RemoveLabel, github
<1>5. QED
  BY <1>3, <1>4

LEMMA FinishIInv ==
    ASSUME IInv, NEW r \in Slots, Finish(r) PROVE IInv'
<1> DEFINE rec == [run[r] EXCEPT !.pc = "done", !.label = NewRun.label, !.undo = FALSE]
<1>1. run[r] \in Run /\ Fits(run[r], asked, approvalAsked, repoLabels)
  BY DEF IInv, TypeOK, RunsFit
<1>2. rec \in Run /\ Fits(rec, asked, approvalAsked, repoLabels)
  BY <1>1, CommandsAssumption DEF NewRun, Label, Run, Fits, Calling, Ended
<1>3. QED
  BY <1>2, QuietIInv DEF Finish

LEMMA StepIInv == IInv /\ [Next]_vars => IInv'
<1> SUFFICES ASSUME IInv, [Next]_vars PROVE IInv'
  OBVIOUS
<1>1. CASE UNCHANGED vars
  BY <1>1 DEF vars, IInv, TypeOK, LabelsWereAsked, ApprovalWasAsked, AttachedLabelsExist, RunsFit
<1>2. ASSUME NEW r \in Slots, NEW ev \in Events, Trigger(r, ev) PROVE IInv'
  BY <1>2, TriggerIInv
<1>3. ASSUME NEW r \in Slots, RunStep(r) PROVE IInv'
  BY <1>3, FetchIInv, CommandIInv, ApproveIInv, LookupIInv, CreateIInv, AttachIInv,
     StripIInv, RemoveIInv, FinishIInv DEF RunStep
<1>4. QED
  BY <1>1, <1>2, <1>3 DEF Next

-----------------------------------------------------------------------------
\* Every state is well typed and every run in flight fits its event.
THEOREM Inductive == Spec => []IInv
BY InitIInv, StepIInv, PTL DEF Spec

\* TypeOK holds of every behaviour of the bot.
THEOREM TypeCorrect == Spec => []TypeOK
<1>1. IInv => TypeOK
  BY DEF IInv
<1>2. QED
  BY <1>1, Inductive, PTL

\* No overlap of runs, no stale snapshot and no failed call puts a label on the
\* pull request that its sender had no right to.
THEOREM OnlyAskedLabels == Spec => []LabelsWereAsked
<1>1. IInv => LabelsWereAsked
  BY DEF IInv
<1>2. QED
  BY <1>1, Inductive, PTL

\* The bot never approves on the word of the author or of an outsider.
THEOREM OnlyAskedApproval == Spec => []ApprovalWasAsked
<1>1. IInv => ApprovalWasAsked
  BY DEF IInv
<1>2. QED
  BY <1>1, Inductive, PTL

\* However two runs race to define a label, the one they attach is defined.
THEOREM OnlyDefinedLabels == Spec => []AttachedLabelsExist
<1>1. IInv => AttachedLabelsExist
  BY DEF IInv
<1>2. QED
  BY <1>1, Inductive, PTL

-----------------------------------------------------------------------------
(* A run that nobody disturbs, and the approval a member's /lgtm is due.    *)

\* Of a run that no other run has disturbed: what it read still holds of the
\* labels that its pending calls are about.
Alone(me, lab, repo) ==
    /\ me.pc = "queued" => me.strip = {} /\ me.cmds = {}
    /\ me.ev.kind = "comment" => me.strip = {}
    /\ me.ev.kind # "comment" => me.cmds = {}
    /\ me.pc \notin {"idle", "queued", "done"} /\ ~me.disturbed =>
          /\ me.pc # "crashed" /\ me.strip \subseteq lab
          /\ me.pc = "create" => me.label \notin repo
          /\ me.pc = "remove" => me.label \in lab
          /\ me.pc = "approve" => (me.label \in me.snap <=> me.label \in lab)
          /\ me.pc \in Calling => me.label \notin me.strip
          /\ \A c \in me.cmds : /\ Target(c.cmd, me.ev.user) \in me.snap
                                     <=> Target(c.cmd, me.ev.user) \in lab
                                /\ me.pc \in Calling => Target(c.cmd, me.ev.user) # me.label

\* A run has approved, or has still to obey the command it must approve for.
Due(me, approved) ==
    MayApprove(me.ev) /\ ~me.ev.deleted /\ me.pc \notin {"idle", "queued", "approve", "crashed"} =>
        /\ me.pc # "strip"
        /\ approved \/ (me.pc # "done" /\ \E c \in me.cmds : c.cmd = "lgtm" /\ ~c.cancel)

RunsRight == \A r \in Slots : Alone(run[r], labels, repoLabels) /\ Due(run[r], botApproved)

\* What another run does leaves a run as it is, or disturbed.
LEMMA OthersRight ==
    ASSUME run \in [Slots -> Run], RunsRight, NEW r \in Slots, NEW rec \in Run,
           (Step(r, rec) /\ UNCHANGED <<labels, repoLabels>>) \/ Write(r, rec),
           botApproved => botApproved', Alone(rec, labels', repoLabels'), Due(rec, botApproved')
    PROVE  RunsRight'
<1> SUFFICES ASSUME NEW q \in Slots
             PROVE  Alone(run'[q], labels', repoLabels') /\ Due(run'[q], botApproved')
  BY DEF RunsRight
<1>1. CASE q = r
  BY <1>1 DEF Step, Write
<1>2. CASE q # r
  <2>1. Alone(run[q], labels, repoLabels) /\ Due(run[q], botApproved) /\ run[q] \in Run
    BY DEF RunsRight
  <2>2. Due(run[q], botApproved')
    BY <2>1 DEF Due
  <2>3. CASE run'[q] = run[q] /\ UNCHANGED <<labels, repoLabels>>
    BY <2>1, <2>2, <2>3
  <2>4. CASE run'[q] = run[q] /\ run[q].pc \in {"idle", "queued"}
    BY <2>1, <2>2, <2>4 DEF Alone
  <2>5. CASE run'[q] = [run[q] EXCEPT !.disturbed = TRUE] /\ run[q].pc \notin {"idle", "queued"}
    <3>1. /\ run'[q].pc = run[q].pc /\ run'[q].ev = run[q].ev /\ run'[q].cmds = run[q].cmds
          /\ run'[q].disturbed /\ run'[q].strip = run[q].strip
      BY <2>1, <2>5 DEF Run
    <3>2. Alone(run'[q], labels', repoLabels')
      BY <2>1, <2>5, <3>1 DEF Alone
    <3>3. Due(run'[q], botApproved')
      BY <2>2, <3>1 DEF Due
    <3>4. QED
      BY <3>2, <3>3
  <2>6. QED
    BY <1>2, <2>3, <2>4, <2>5 DEF Step, Write
<1>3. QED
  BY <1>1, <1>2

LEMMA InitRight == ASSUME Init PROVE RunsRight
BY DEF Init, RunsRight, NewRun, Alone, Due, NoEvent, MayApprove

LEMMA TriggerRight ==
    ASSUME IInv, RunsRight, NEW r \in Slots, NEW ev \in Events, Trigger(r, ev)
    PROVE  RunsRight'
<1> DEFINE rec == [NewRun EXCEPT !.pc = "queued", !.ev = ev]
<1>1. rec \in Run /\ rec.pc = "queued" /\ rec.strip = {} /\ rec.cmds = {}
  BY CommandsAssumption DEF NewRun, Run, Ended, Label
<1>2. Step(r, rec) /\ UNCHANGED <<labels, repoLabels, botApproved>>
  BY DEF Trigger, github
<1> HIDE DEF rec
<1>3. Alone(rec, labels', repoLabels') /\ Due(rec, botApproved')
  BY <1>1 DEF Alone, Due
<1>4. QED
  BY <1>1, <1>2, <1>3, OthersRight DEF IInv, TypeOK

\* Actions that only move a run.
LEMMA QuietRight ==
    ASSUME IInv, RunsRight, NEW r \in Slots, NEW rec \in Run, Step(r, rec), UNCHANGED github,
           Alone(rec, labels, repoLabels), Due(rec, botApproved)
    PROVE  RunsRight'
<1>1. UNCHANGED <<labels, repoLabels, botApproved>>
  BY DEF github
<1>2. QED
  BY <1>1, OthersRight DEF IInv, TypeOK

LEMMA MembersAreServed ==
    ASSUME NEW ev \in Events \cup {NoEvent}, MayApprove(ev)
    PROVE  HasText(ev) /\ VerifyAllowedUser(ev.user) /\ ~QuotesWelcome(ev) /\ ev.kind = "comment"
           /\ ev.body # <<>>
<1>1. ev.kind = "comment" /\ ~QuotesWelcome(ev) /\ ev.user \in Members /\ Requested(ev.body) # {}
  BY DEF MayApprove
<1>2. ev.body # <<>>
  BY <1>1 DEF Requested
<1>3. ev \in Events
  BY <1>1 DEF NoEvent
<1>4. ev.text # "none"
  BY <1>1, <1>3 DEF Events, IsPush, IsComment, IsReview
<1>5. QED
  BY <1>1, <1>2, <1>4 DEF HasText, VerifyAllowedUser

LEMMA FetchRight ==
    ASSUME IInv, RunsRight, NEW r \in Slots,
           FetchRefused(r) \/ FetchOnPush(r) \/ FetchOnReview(r) \/ FetchOnComment(r)
    PROVE  RunsRight'
<1> DEFINE ev == run[r].ev
           got == Fetched(r)
<1>1. /\ run[r] \in Run /\ run[r].pc = "queued" /\ labels \subseteq Label /\ UNCHANGED github
      /\ ev \in Events \cup {NoEvent} /\ ev \in Event
  BY FieldsTyped DEF IInv, TypeOK, FetchRefused, FetchOnPush, FetchOnReview, FetchOnComment, Served,
     Run
<1>2. run[r].strip = {} /\ run[r].cmds = {}
  BY <1>1 DEF RunsRight, Alone
<1>3. got \in Run /\ got.ev = ev /\ got.snap = labels /\ got.strip = {} /\ got.cmds = {}
  BY <1>1, <1>2 DEF Fetched, Run
<1>4. CASE FetchRefused(r)
  <2> DEFINE rec == [got EXCEPT !.pc = "done"]
  <2>1. rec \in Run /\ rec.pc = "done" /\ rec.ev = ev /\ rec.strip = {} /\ rec.cmds = {}
        /\ Step(r, rec)
    BY <1>3, <1>4 DEF FetchRefused, Run, Ended
  <2>2. ~MayApprove(ev)
    BY <1>1, <1>4, MembersAreServed DEF FetchRefused, Served
  <2> HIDE DEF rec, ev
  <2>3. Alone(rec, labels, repoLabels) /\ Due(rec, botApproved)
    BY <2>1, <2>2 DEF Alone, Due
  <2>4. QED
    BY <1>1, <2>1, <2>3, QuietRight
<1>5. CASE FetchOnPush(r)
  <2> DEFINE rec == [got EXCEPT !.pc = "strip", !.strip = {l \in labels : Sticky(l)}]
  <2>1. /\ rec \in Run /\ rec.pc = "strip" /\ rec.ev = ev /\ rec.strip \subseteq labels
        /\ rec.cmds = {} /\ Step(r, rec) /\ ev.kind # "comment"
    BY <1>1, <1>3, <1>5 DEF FetchOnPush, Run
  <2>2. ~MayApprove(ev)
    BY <1>5 DEF FetchOnPush, MayApprove
  <2> HIDE DEF rec, ev
  <2>3. Alone(rec, labels, repoLabels) /\ Due(rec, botApproved)
    BY <2>1, <2>2 DEF Alone, Due, Calling
  <2>4. QED
    BY <1>1, <2>1, <2>3, QuietRight
<1>6. ASSUME NEW l \in Label, NEW rec \in Run, rec.ev = ev, rec.cmds = {}, rec.strip \subseteq labels,
             l \notin rec.strip, ev.kind = "comment" => rec.strip = {}, ~MayApprove(ev),
             AddUnlessThere(r, l, rec)
      PROVE  RunsRight'
  <2> DEFINE there == Resume(rec)
             new == [rec EXCEPT !.pc = "lookup", !.label = l]
  <2>1. /\ there \in Run /\ there.pc \in {"comment", "strip"} /\ there.ev = ev /\ there.cmds = {}
        /\ there.strip = rec.strip
    BY <1>6 DEF Resume, Run
  <2>2. /\ new \in Run /\ new.pc = "lookup" /\ new.ev = ev /\ new.cmds = {}
        /\ new.strip = rec.strip /\ new.label = l
    BY <1>6 DEF Run, Calling
  <2>3. Step(r, there) \/ Step(r, new)
    BY <1>6 DEF AddUnlessThere
  <2> HIDE DEF there, new, ev
  <2>4. Alone(there, labels, repoLabels) /\ Due(there, botApproved)
    BY <1>6, <2>1 DEF Alone, Due, Calling
  <2>5. Alone(new, labels, repoLabels) /\ Due(new, botApproved)
    BY <1>6, <2>2 DEF Alone, Due, Calling
  <2>6. QED
    BY <1>1, <2>1, <2>2, <2>3, <2>4, <2>5, QuietRight
<1>7. CASE FetchOnReview(r)
  <2> DEFINE rec == [got EXCEPT !.strip = ReviewLabelToRemove(ev) \cap labels]
             l == ReviewLabelToAdd(ev)
  <2>1. /\ rec \in Run /\ rec.ev = ev /\ rec.cmds = {}
        /\ rec.strip = ReviewLabelToRemove(ev) \cap labels
    BY <1>1, <1>3 DEF Run
  <2>2. l \in Label /\ l \notin ReviewLabelToRemove(ev)
    BY <1>1, LabelsTyped DEF ReviewLabelToAdd, ReviewLabelToRemove
  <2>3. ~MayApprove(ev) /\ ev.kind # "comment" /\ AddUnlessThere(r, l, rec)
    BY <1>7 DEF FetchOnReview, MayApprove
  <2> HIDE DEF rec, l, ev
  <2>4. QED
    BY <1>6, <2>1, <2>2, <2>3
<1>8. CASE FetchOnComment(r)
  <2>1. CASE ev.body = <<>>
    <3> DEFINE l == <<"commented-by", ev.user>>
    <3>1. l \in Label
      BY <1>1, LabelsTyped
    <3>2. AddUnlessThere(r, l, got)
      BY <1>8, <2>1 DEF FetchOnComment
    <3>3. ~MayApprove(ev)
      BY <1>1, <2>1, MembersAreServed
    <3> HIDE DEF l, ev, got
    <3>4. QED
      BY <1>3, <1>6, <3>1, <3>2, <3>3
  <2>2. CASE ev.body # <<>>
    <3> DEFINE rec == [got EXCEPT !.pc = "comment", !.cmds = Requested(ev.body)]
    <3>1. /\ rec \in Run /\ rec.pc = "comment" /\ rec.ev = ev /\ rec.strip = {}
          /\ rec.snap = labels /\ rec.cmds = Requested(ev.body) /\ Step(r, rec)
          /\ ev.kind = "comment"
      BY <1>1, <1>3, <1>8, <2>2, RequestedTyped DEF FetchOnComment, Run
    <3> HIDE DEF rec, ev
    <3>2. Alone(rec, labels, repoLabels)
      BY <3>1 DEF Alone, Calling
    <3>3. Due(rec, botApproved)
      BY <3>1 DEF Due, MayApprove
    <3>4. QED
      BY <1>1, <3>1, <3>2, <3>3, QuietRight
  <2>3. QED
    BY <2>1, <2>2
<1>9. QED
  BY <1>4, <1>5, <1>7, <1>8

\* Different commands of one comment are about different labels.
LEMMA CommandsApart ==
    ASSUME NEW ev \in Event, NEW c \in Requested(ev.body), NEW d \in Requested(ev.body), c # d
    PROVE  Target(c.cmd, ev.user) # Target(d.cmd, ev.user)
<1>1. ev.body \in Seq(Token)
  <2>1. <<>> \in Seq(Token)
    OBVIOUS
  <2>2. ev.body \in Bodies \cup {<<>>}
    BY DEF Event
  <2>3. QED
    BY <2>1, <2>2, BodiesAssumption
<1>2. PICK i \in DOMAIN ev.body : c = ev.body[i] /\ \A k \in DOMAIN ev.body : k > i => ev.body[k].cmd # c.cmd
  BY DEF Requested
<1>3. PICK j \in DOMAIN ev.body : d = ev.body[j] /\ \A k \in DOMAIN ev.body : k > j => ev.body[k].cmd # d.cmd
  BY DEF Requested
<1>4. i \in Nat /\ j \in Nat
  BY <1>1
<1>5. c.cmd # d.cmd
  BY <1>2, <1>3, <1>4
<1>6. QED
  BY <1>5, UsersAssumption DEF Target, Event

\* The command in hand: its label is as it was read, and no other is about it.
InHand(me, lab) ==
    ~me.disturbed =>
        /\ me.label \in me.snap <=> me.label \in lab
        /\ \A c \in me.cmds : /\ Target(c.cmd, me.ev.user) \in me.snap
                                   <=> Target(c.cmd, me.ev.user) \in lab
                              /\ Target(c.cmd, me.ev.user) # me.label

Owed(me, approved) ==
    MayApprove(me.ev) /\ ~me.ev.deleted =>
        approved \/ \E c \in me.cmds : c.cmd = "lgtm" /\ ~c.cancel

LEMMA RelabelRight ==
    ASSUME NEW me \in Run, NEW lab, NEW repo, NEW approved, me.ev.kind = "comment",
           me.strip = {}, InHand(me, lab), Owed(me, approved)
    PROVE  /\ Relabel(me) \in Run
           /\ Alone(Relabel(me), lab, repo) /\ Due(Relabel(me), approved)
<1>1. CASE Relabel(me) = [me EXCEPT !.pc = "remove"] /\ LabelInPr(me.label, me.snap)
  <2> DEFINE rec == [me EXCEPT !.pc = "remove"]
  <2>1. /\ rec \in Run /\ rec.pc = "remove" /\ rec.ev = me.ev /\ rec.strip = {} /\ rec.cmds = me.cmds
        /\ rec.label = me.label /\ rec.snap = me.snap /\ rec.disturbed = me.disturbed
    BY DEF Run, Calling
  <2>2. me.label \in me.snap
    BY <1>1 DEF LabelInPr
  <2> HIDE DEF rec
  <2>3. Alone(rec, lab, repo) /\ Due(rec, approved)
    BY <2>1, <2>2 DEF Alone, Due, InHand, Owed
  <2>4. QED
    BY <1>1, <2>1, <2>3 DEF rec
<1>2. CASE Relabel(me) = [me EXCEPT !.pc = "lookup"]
  <2> DEFINE rec == [me EXCEPT !.pc = "lookup"]
  <2>1. /\ rec \in Run /\ rec.pc = "lookup" /\ rec.ev = me.ev /\ rec.strip = {} /\ rec.cmds = me.cmds
        /\ rec.label = me.label /\ rec.snap = me.snap /\ rec.disturbed = me.disturbed
    BY DEF Run, Calling
  <2> HIDE DEF rec
  <2>2. Alone(rec, lab, repo) /\ Due(rec, approved)
    BY <2>1 DEF Alone, Due, InHand, Owed
  <2>3. QED
    BY <1>2, <2>1, <2>2 DEF rec
<1>3. CASE Relabel(me) = Resume(me)
  <2> DEFINE rec == Resume(me)
  <2>1. /\ rec \in Run /\ rec.pc = "comment" /\ rec.ev = me.ev /\ rec.strip = {} /\ rec.cmds = me.cmds
        /\ rec.label = me.label /\ rec.snap = me.snap /\ rec.disturbed = me.disturbed
    BY DEF Run, Resume
  <2> HIDE DEF rec
  <2>2. Alone(rec, lab, repo) /\ Due(rec, approved)
    BY <2>1 DEF Alone, Due, InHand, Owed, Calling
  <2>3. QED
    BY <1>3, <2>1, <2>2 DEF rec
<1>4. QED
  BY <1>1, <1>2, <1>3 DEF Relabel

LEMMA CommandRight ==
    ASSUME IInv, RunsRight, NEW r \in Slots, NEW c \in run[r].cmds, SkipCommand(r, c) \/ Command(r, c)
    PROVE  RunsRight'
<1> DEFINE ev == run[r].ev
<1>1. /\ run[r] \in Run /\ run[r].pc = "comment" /\ UNCHANGED github /\ ev \in Event
      /\ run[r].cmds \subseteq Requested(ev.body) /\ ev.kind = "comment" /\ c \in Token
  BY FieldsTyped DEF IInv, TypeOK, RunsFit, Fits, SkipCommand, Command
<1>2. Alone(run[r], labels, repoLabels) /\ Due(run[r], botApproved) /\ run[r].strip = {}
  BY <1>1 DEF RunsRight, Alone
<1>3. CASE SkipCommand(r, c)
  <2> DEFINE rec == [run[r] EXCEPT !.cmds = @ \ {c}]
  <2>1. /\ rec \in Run /\ rec.pc = "comment" /\ rec.ev = ev /\ rec.strip = {} /\ Step(r, rec)
        /\ rec.cmds = run[r].cmds \ {c} /\ rec.snap = run[r].snap
        /\ rec.disturbed = run[r].disturbed
    BY <1>1, <1>2, <1>3 DEF SkipCommand, Run
  <2>2. ~MayApprove(ev)
    BY <1>3 DEF SkipCommand, OwnApproval, MayApprove
  <2> HIDE DEF rec
  <2>3. Alone(rec, labels, repoLabels) /\ Due(rec, botApproved)
    BY <1>1, <1>2, <2>1, <2>2 DEF Alone, Due, Calling
  <2>4. QED
    BY <1>1, <2>1, <2>3, QuietRight
<1>4. CASE Command(r, c)
  <2> DEFINE rec == [run[r] EXCEPT !.cmds = @ \ {c}, !.label = Target(c.cmd, ev.user),
                                   !.undo = Undoes(c, ev)]
  <2>1. Target(c.cmd, ev.user) \in Label /\ Undoes(c, ev) \in BOOLEAN
    BY <1>1, LabelsTyped DEF Undoes, Token, Event
  <2>2. /\ rec \in Run /\ rec.pc = "comment" /\ rec.ev = ev /\ rec.strip = {}
        /\ rec.cmds = run[r].cmds \ {c} /\ rec.snap = run[r].snap
        /\ rec.disturbed = run[r].disturbed /\ rec.label = Target(c.cmd, ev.user)
    BY <1>1, <1>2, <2>1 DEF Run
  <2>3. Step(r, IF Approves(c, ev) THEN [rec EXCEPT !.pc = "approve"] ELSE Relabel(rec))
    BY <1>4 DEF Command
  <2> HIDE DEF rec
  <2>4. \A d \in rec.cmds : Target(d.cmd, ev.user) # rec.label
    BY <1>1, <2>2, CommandsApart
  <2>5. InHand(rec, labels)
    BY <1>1, <1>2, <2>2, <2>4 DEF Alone, InHand
  <2>6. CASE Approves(c, ev)
    <3> DEFINE new == [rec EXCEPT !.pc = "approve"]
    <3>1. /\ new \in Run /\ new.pc = "approve" /\ new.ev = rec.ev /\ new.strip = {}
          /\ new.cmds = rec.cmds /\ new.snap = rec.snap /\ new.disturbed = rec.disturbed
          /\ new.label = rec.label /\ new.ev.kind = "comment"
      BY <1>1, <2>2 DEF Run, Calling
    <3>2. Step(r, new)
      BY <2>3, <2>6
    <3> HIDE DEF new
    <3>3. Alone(new, labels, repoLabels) /\ Due(new, botApproved)
      BY <2>5, <3>1 DEF Alone, Due, InHand
    <3>4. QED
      BY <1>1, <3>1, <3>2, <3>3, QuietRight
  <2>7. CASE ~Approves(c, ev)
    <3>1. Owed(rec, botApproved)
      BY <1>1, <1>2, <2>2, <2>7 DEF Due, Owed, Approves
    <3>2. Relabel(rec) \in Run /\ Alone(Relabel(rec), labels, repoLabels)
          /\ Due(Relabel(rec), botApproved)
      BY <1>1, <2>2, <2>5, <3>1, RelabelRight
    <3>3. Step(r, Relabel(rec))
      BY <2>3, <2>7
    <3>4. QED
      BY <1>1, <3>2, <3>3, QuietRight
  <2>8. QED
    BY <2>6, <2>7
<1>5. QED
  BY <1>3, <1>4

LEMMA ApproveRight ==
    ASSUME IInv, RunsRight, NEW r \in Slots, ApprovePr(r) PROVE RunsRight'
<1>1. /\ run[r] \in Run /\ run[r].pc = "approve" /\ run[r].ev.kind = "comment" /\ botApproved'
      /\ Step(r, Relabel(run[r])) /\ UNCHANGED <<labels, repoLabels>>
  BY DEF IInv, TypeOK, RunsFit, Fits, ApprovePr
<1>2. Alone(run[r], labels, repoLabels) /\ run[r].strip = {}
  BY <1>1 DEF RunsRight, Alone
<1>3. InHand(run[r], labels) /\ Owed(run[r], botApproved')
  BY <1>1, <1>2 DEF Alone, InHand, Owed, Calling
<1>4. Relabel(run[r]) \in Run /\ Alone(Relabel(run[r]), labels, repoLabels)
      /\ Due(Relabel(run[r]), botApproved')
  BY <1>1, <1>2, <1>3, RelabelRight
<1>5. Alone(Relabel(run[r]), labels', repoLabels')
  BY <1>1, <1>4
<1>6. QED
  BY <1>1, <1>4, <1>5, OthersRight DEF IInv, TypeOK

\* The calls about the label in hand.
LEMMA LookupRight ==
    ASSUME IInv, RunsRight, NEW r \in Slots, LookupLabel(r) PROVE RunsRight'
<1> DEFINE rec == [run[r] EXCEPT !.pc = IF run[r].label \in repoLabels THEN "attach" ELSE "create"]
<1>1. /\ run[r] \in Run /\ run[r].pc = "lookup" /\ UNCHANGED github /\ Step(r, rec)
      /\ Alone(run[r], labels, repoLabels) /\ Due(run[r], botApproved)
  BY DEF IInv, TypeOK, LookupLabel, RunsRight
<1>2. /\ rec \in Run /\ rec.ev = run[r].ev /\ rec.strip = run[r].strip /\ rec.cmds = run[r].cmds
      /\ rec.snap = run[r].snap /\ rec.disturbed = run[r].disturbed /\ rec.label = run[r].label
      /\ rec.pc = IF run[r].label \in repoLabels THEN "attach" ELSE "create"
  BY <1>1 DEF Run, Calling
<1> HIDE DEF rec
<1>3. Alone(rec, labels, repoLabels)
  BY <1>1, <1>2 DEF Alone, Calling
<1>4. Due(rec, botApproved)
  BY <1>1, <1>2 DEF Due
<1>5. QED
  BY <1>1, <1>2, <1>3, <1>4, QuietRight

LEMMA CreateRight ==
    ASSUME IInv, RunsRight, NEW r \in Slots, CreateLabel(r) PROVE RunsRight'
<1>1. /\ run[r] \in Run /\ run[r].pc = "create" /\ UNCHANGED <<labels, botApproved>>
      /\ Alone(run[r], labels, repoLabels) /\ Due(run[r], botApproved)
  BY DEF IInv, TypeOK, CreateLabel, RunsRight
<1>2. CASE run[r].label \in repoLabels
  <2> DEFINE rec == [run[r] EXCEPT !.pc = "crashed"]
  <2>1. /\ rec \in Run /\ rec.ev = run[r].ev /\ rec.strip = run[r].strip /\ rec.pc = "crashed"
        /\ rec.cmds = run[r].cmds
        /\ rec.disturbed = run[r].disturbed /\ Step(r, rec) /\ UNCHANGED github
    BY <1>1, <1>2 DEF Run, Ended, CreateLabel, github
  <2> HIDE DEF rec
  <2>2. run[r].disturbed
    BY <1>1, <1>2 DEF Alone
  <2>3. Alone(rec, labels, repoLabels) /\ Due(rec, botApproved)
    BY <1>1, <2>1, <2>2 DEF Alone, Due
  <2>4. QED
    BY <2>1, <2>3, QuietRight
<1>3. CASE run[r].label \notin repoLabels
  <2> DEFINE rec == [run[r] EXCEPT !.pc = "attach"]
  <2>1. /\ rec \in Run /\ rec.ev = run[r].ev /\ rec.strip = run[r].strip /\ rec.cmds = run[r].cmds
        /\ rec.snap = run[r].snap /\ rec.disturbed = run[r].disturbed /\ rec.label = run[r].label
        /\ rec.pc = "attach" /\ Write(r, rec)
    BY <1>1, <1>3 DEF Run, Calling, CreateLabel
  <2> HIDE DEF rec
  <2>2. Alone(rec, labels', repoLabels')
    BY <1>1, <2>1 DEF Alone, Calling
  <2>3. Due(rec, botApproved')
    BY <1>1, <2>1 DEF Due
  <2>4. QED
    BY <1>1, <2>1, <2>2, <2>3, OthersRight DEF IInv, TypeOK
<1>4. QED
  BY <1>2, <1>3

LEMMA ResumeTyped ==
    ASSUME NEW me \in Run
    PROVE  /\ Resume(me) \in Run /\ Resume(me).ev = me.ev /\ Resume(me).strip = me.strip
           /\ Resume(me).cmds = me.cmds /\ Resume(me).snap = me.snap
           /\ Resume(me).disturbed = me.disturbed /\ Resume(me).pc \in {"comment", "strip"}
           /\ (me.ev.kind = "comment" => Resume(me).pc = "comment")
BY DEF Resume, Run

LEMMA AttachRight ==
    ASSUME IInv, RunsRight, NEW r \in Slots, AttachLabel(r) PROVE RunsRight'
<1> DEFINE rec == Resume(run[r])
<1>1. /\ run[r] \in Run /\ run[r].pc = "attach" /\ labels' = labels \cup {run[r].label}
      /\ UNCHANGED <<repoLabels, botApproved>> /\ Write(r, rec)
      /\ Alone(run[r], labels, repoLabels) /\ Due(run[r], botApproved)
  BY DEF IInv, TypeOK, AttachLabel, RunsRight
<1>2. /\ rec \in Run /\ rec.ev = run[r].ev /\ rec.strip = run[r].strip /\ rec.cmds = run[r].cmds
      /\ rec.snap = run[r].snap /\ rec.disturbed = run[r].disturbed
      /\ rec.pc \in {"comment", "strip"} /\ (rec.ev.kind = "comment" => rec.pc = "comment")
  BY <1>1, ResumeTyped
<1> HIDE DEF rec
<1>3. Alone(rec, labels', repoLabels')
  BY <1>1, <1>2 DEF Alone, Calling
<1>4. Due(rec, botApproved')
  BY <1>1, <1>2 DEF Due, MayApprove
<1>5. QED
  BY <1>1, <1>2, <1>3, <1>4, OthersRight DEF IInv, TypeOK

LEMMA StripRight ==
    ASSUME IInv, RunsRight, NEW r \in Slots, NEW l \in run[r].strip, StripLabel(r, l)
    PROVE  RunsRight'
<1> DEFINE rec == [run[r] EXCEPT !.strip = @ \ {l}, !.label = l, !.pc = "remove"]
<1>1. /\ run[r] \in Run /\ run[r].pc = "strip" /\ UNCHANGED github /\ Step(r, rec) /\ l \in Label
      /\ Alone(run[r], labels, repoLabels) /\ Due(run[r], botApproved)
  BY FieldsTyped DEF IInv, TypeOK, StripLabel, RunsRight
<1>2. /\ rec \in Run /\ rec.ev = run[r].ev /\ rec.strip = run[r].strip \ {l}
      /\ rec.cmds = run[r].cmds /\ rec.disturbed = run[r].disturbed /\ rec.label = l
      /\ rec.pc = "remove"
  BY <1>1 DEF Run, Calling
<1> HIDE DEF rec
<1>3. run[r].ev.kind # "comment" /\ run[r].cmds = {}
  BY <1>1 DEF Alone
<1>4. Alone(rec, labels, repoLabels)
  BY <1>1, <1>2, <1>3 DEF Alone
<1>5. Due(rec, botApproved)
  BY <1>1, <1>2 DEF Due
<1>6. QED
  BY <1>1, <1>2, <1>4, <1>5, QuietRight

LEMMA RemoveRight ==
    ASSUME IInv, RunsRight, NEW r \in Slots, RemoveLabel(r) PROVE RunsRight'
<1>1. /\ run[r] \in Run /\ run[r].pc = "remove" /\ UNCHANGED <<repoLabels, botApproved>>
      /\ Alone(run[r], labels, repoLabels) /\ Due(run[r], botApproved)
  BY DEF IInv, TypeOK, RemoveLabel, RunsRight
<1>2. CASE run[r].label \in labels
  <2> DEFINE rec == Resume(run[r])
  <2>1. labels' = labels \ {run[r].label} /\ Write(r, rec)
    BY <1>2 DEF RemoveLabel
  <2>2. /\ rec \in Run /\ rec.ev = run[r].ev /\ rec.strip = run[r].strip /\ rec.cmds = run[r].cmds
        /\ rec.snap = run[r].snap /\ rec.disturbed = run[r].disturbed
        /\ rec.pc \in {"comment", "strip"} /\ (rec.ev.kind = "comment" => rec.pc = "comment")
    BY <1>1, ResumeTyped
  <2> HIDE DEF rec
  <2>3. Alone(rec, labels', repoLabels')
    BY <1>1, <2>1, <2>2 DEF Alone, Calling
  <2>4. Due(rec, botApproved')
    BY <1>1, <2>2 DEF Due, MayApprove
  <2>5. QED
    BY <1>1, <2>1, <2>2, <2>3, <2>4, OthersRight DEF IInv, TypeOK
<1>3. CASE run[r].label \notin labels
  <2> DEFINE rec == [run[r] EXCEPT !.pc = "crashed"]
  <2>1. /\ rec \in Run /\ rec.ev = run[r].ev /\ rec.strip = run[r].strip /\ rec.pc = "crashed"
        /\ rec.cmds = run[r].cmds
        /\ rec.disturbed = run[r].disturbed /\ Step(r, rec) /\ UNCHANGED github
    BY <1>1, <1>3 DEF Run, Ended, RemoveLabel, github
  <2> HIDE DEF rec
  <2>2. run[r].disturbed
    BY <1>1, <1>3 DEF Alone
  <2>3. Alone(rec, labels, repoLabels) /\ Due(rec, botApproved)
    BY <1>1, <2>1, <2>2 DEF Alone, Due
  <2>4. QED
    BY <2>1, <2>3, QuietRight
<1>4. QED
  BY <1>2, <1>3

LEMMA FinishRight ==
    ASSUME IInv, RunsRight, NEW r \in Slots, Finish(r) PROVE RunsRight'
<1> DEFINE rec == [run[r] EXCEPT !.pc = "done", !.label = NewRun.label, !.undo = FALSE]
<1>1. /\ run[r] \in Run /\ UNCHANGED github /\ Step(r, rec) /\ run[r].pc \in {"comment", "strip"}
      /\ (run[r].pc = "comment" => run[r].cmds = {})
      /\ Alone(run[r], labels, repoLabels) /\ Due(run[r], botApproved)
  BY DEF IInv, TypeOK, Finish, RunsRight
<1>2. /\ rec \in Run /\ rec.ev = run[r].ev /\ rec.strip = run[r].strip /\ rec.pc = "done"
      /\ rec.cmds = run[r].cmds
  BY <1>1, CommandsAssumption DEF NewRun, Label, Run, Ended
<1> HIDE DEF rec
<1>3. Alone(rec, labels, repoLabels) /\ Due(rec, botApproved)
  BY <1>1, <1>2 DEF Alone, Due
<1>4. QED
  BY <1>1, <1>2, <1>3, QuietRight

LEMMA StepRight == IInv /\ RunsRight /\ [Next]_vars => RunsRight'
<1> SUFFICES ASSUME IInv, RunsRight, [Next]_vars PROVE RunsRight'
  OBVIOUS
<1>1. CASE UNCHANGED vars
  BY <1>1 DEF vars, RunsRight, Alone, Due
<1>2. ASSUME NEW r \in Slots, NEW ev \in Events, Trigger(r, ev) PROVE RunsRight'
  BY <1>2, TriggerRight
<1>3. ASSUME NEW r \in Slots, RunStep(r) PROVE RunsRight'
  BY <1>3, FetchRight, CommandRight, ApproveRight, LookupRight, CreateRight, AttachRight,
     StripRight, RemoveRight, FinishRight DEF RunStep
<1>4. QED
  BY <1>1, <1>2, <1>3 DEF Next

LEMMA Right == Spec => []RunsRight
<1>1. Init => RunsRight
  BY InitRight
<1>2. QED
  BY <1>1, StepRight, Inductive, PTL DEF Spec

\* No call of a run that nobody disturbed is refused: the labels it was to remove
\* are there, and the label it is to create is not defined.
THEOREM CrashesNeedDisturbance == Spec => []CrashNeedsDisturbance
<1>1. RunsRight => CrashNeedsDisturbance
  BY DEF RunsRight, Alone, CrashNeedsDisturbance
<1>2. QED
  BY <1>1, Right, PTL

\* When the run for a member's /lgtm is done, the bot has approved, whatever order
\* the commands of the comment are obeyed in and whatever other runs do.
THEOREM MembersGetTheirApproval == Spec => []LgtmIsApproved
<1>1. RunsRight => LgtmIsApproved
  BY DEF RunsRight, Due, LgtmIsApproved
<1>2. QED
  BY <1>1, Right, PTL

-----------------------------------------------------------------------------
(* What the commands of a comment amount to.                               *)

LEMMA Smallest ==
    ASSUME NEW S \in SUBSET Nat, S # {}
    PROVE  \E n \in S : \A m \in S : n <= m
<1> DEFINE R == OpToRel(<, Nat)
<1>1. IsWellFoundedOn(R, Nat)
  BY NatLessThanWellFounded, Zenon
<1>2. \A x, y \in Nat : y < x => <<y, x>> \in R
  BY Zenon DEF OpToRel
<1> HIDE DEF R
<1>3. \E n \in S : \A m \in S : ~(<<m, n>> \in R)
  BY <1>1, WFMin, Zenon
<1>4. \E n \in S : \A m \in S : ~(m < n)
  BY <1>2, <1>3, Zenon
<1>5. \A m, n \in Nat : ~(m < n) => n <= m
  OBVIOUS
<1>6. QED
  BY <1>4, <1>5

\* The commands up to the n-th that are about a label, and the last of them.
About(ev, n, l) ==
    {i \in 1..n : ~OwnApproval(ev.body[i].cmd, ev.user) /\ Target(ev.body[i].cmd, ev.user) = l}

Final(ev, n, l) == {i \in About(ev, n, l) : \A j \in About(ev, n, l) : j <= i}

\* Whether the label is there once they are obeyed.
Stands(ev, S, n, l) ==
    \/ About(ev, n, l) = {} /\ l \in S
    \/ \E i \in Final(ev, n, l) : ~Undoes(ev.body[i], ev)

LEMMA BodyTyped ==
    ASSUME NEW ev \in Event
    PROVE  /\ ev.body \in Seq(Token) /\ Len(ev.body) \in Nat
           /\ \A i \in 1..Len(ev.body) : ev.body[i] \in Token
<1>1. ev.body \in Seq(Token)
  <2>1. <<>> \in Seq(Token)
    OBVIOUS
  <2>2. ev.body \in Bodies \cup {<<>>}
    BY DEF Event
  <2>3. QED
    BY <2>1, <2>2, BodiesAssumption
<1>2. QED
  BY <1>1

\* One command more.
LEMMA OneMore ==
    ASSUME NEW ev \in Event, NEW S \in SUBSET Label, NEW T \in SUBSET Label,
           NEW n \in 1..Len(ev.body),
           \A l \in Label : l \in T <=> Stands(ev, S, n - 1, l)
    PROVE  /\ Obey(T, ev.body[n], ev) \subseteq Label
           /\ \A l \in Label : l \in Obey(T, ev.body[n], ev) <=> Stands(ev, S, n, l)
<1> DEFINE c == ev.body[n]
<1>1. n \in Nat /\ n - 1 \in Nat /\ n > 0 /\ c \in Token /\ Target(c.cmd, ev.user) \in Label
  <2>1. Len(ev.body) \in Nat
    BY BodyTyped
  <2>2. c \in Token
    BY BodyTyped
  <2>3. Target(c.cmd, ev.user) \in Label
    BY <2>2, LabelsTyped
  <2>4. QED
    BY <2>1, <2>2, <2>3
<1>2. \A i : i \in 1..n <=> i \in 1..(n - 1) \/ i = n
  BY <1>1
<1>3. CASE OwnApproval(c.cmd, ev.user)
  <2>1. \A l \in Label : About(ev, n, l) = About(ev, n - 1, l)
    BY <1>2, <1>3 DEF About
  <2>2. \A l \in Label : Stands(ev, S, n, l) <=> Stands(ev, S, n - 1, l)
    BY <2>1 DEF Stands, Final
  <2>3. QED
    BY <1>3, <2>2 DEF Obey
<1>4. CASE ~OwnApproval(c.cmd, ev.user)
  <2> DEFINE t == Target(c.cmd, ev.user)
  <2>1. ASSUME NEW l \in Label, l # t PROVE Stands(ev, S, n, l) <=> Stands(ev, S, n - 1, l)
    <3>1. About(ev, n, l) = About(ev, n - 1, l)
      BY <1>2, <2>1 DEF About
    <3>2. QED
      BY <3>1 DEF Stands, Final
  <2>2. Final(ev, n, t) = {n}
    <3>1. \A i \in About(ev, n, t) : i \in Nat /\ i <= n
      BY <1>1 DEF About
    <3>2. n \in About(ev, n, t)
      BY <1>1, <1>4 DEF About
    <3>3. QED
      BY <1>1, <3>1, <3>2 DEF Final
  <2>3. Stands(ev, S, n, t) <=> ~Undoes(c, ev)
    <3>1. About(ev, n, t) # {}
      BY <2>2 DEF Final
    <3>2. QED
      BY <2>2, <3>1 DEF Stands
  <2>4. Obey(T, c, ev) = IF Undoes(c, ev) THEN T \ {t} ELSE T \cup {t}
    BY <1>4 DEF Obey, Undoes
  <2>5. t \in Label
    BY <1>1
  <2> HIDE DEF t, c
  <2>6. CASE Undoes(c, ev)
    <3>1. Obey(T, c, ev) = T \ {t}
      BY <2>4, <2>6
    <3>2. QED
      BY <2>1, <2>3, <2>5, <2>6, <3>1 DEF c
  <2>7. CASE ~Undoes(c, ev)
    <3>1. Obey(T, c, ev) = T \cup {t}
      BY <2>4, <2>7
    <3>2. QED
      BY <2>1, <2>3, <2>5, <2>7, <3>1 DEF c
  <2>8. QED
    BY <2>6, <2>7
<1>5. QED
  BY <1>3, <1>4

\* So the recursion has a solution, and only one.
LEMMA ObeyedIs ==
    ASSUME NEW ev \in Event, NEW S \in SUBSET Label
    PROVE  Obeyed(ev, S) = {l \in Label : Stands(ev, S, Len(ev.body), l)}
<1> DEFINE N == Len(ev.body)
           Is(f) == f = [n \in 0..N |-> IF n = 0 THEN S ELSE Obey(f[n - 1], ev.body[n], ev)]
           after == CHOOSE f : Is(f)
           stand == [n \in 0..N |-> {l \in Label : Stands(ev, S, n, l)}]
<1>1. N \in Nat
  BY BodyTyped
<1>2. stand[0] = S
  <2>1. 0 \in 0..N /\ 1..0 = {}
    BY <1>1
  <2>2. \A l \in Label : About(ev, 0, l) = {}
    BY <2>1 DEF About
  <2>3. \A l \in Label : Stands(ev, S, 0, l) <=> l \in S
    BY <2>2 DEF Stands, Final
  <2>4. QED
    BY <2>1, <2>3
<1>3. \A n \in 1..N : stand[n] = Obey(stand[n - 1], ev.body[n], ev)
  <2>1. SUFFICES ASSUME NEW n \in 1..N PROVE stand[n] = Obey(stand[n - 1], ev.body[n], ev)
    OBVIOUS
  <2>2. n \in 0..N /\ n - 1 \in 0..N
    BY <1>1
  <2>3. stand[n - 1] = {l \in Label : Stands(ev, S, n - 1, l)}
    BY <2>2
  <2>4. stand[n - 1] \in SUBSET Label
    BY <2>3
  <2>5. Obey(stand[n - 1], ev.body[n], ev) = {l \in Label : Stands(ev, S, n, l)}
    <3> DEFINE T == stand[n - 1]
    <3>1. T \in SUBSET Label /\ \A l \in Label : l \in T <=> Stands(ev, S, n - 1, l)
      BY <2>3, <2>4
    <3> HIDE DEF T
    <3>2. /\ Obey(T, ev.body[n], ev) \subseteq Label
          /\ \A l \in Label : l \in Obey(T, ev.body[n], ev) <=> Stands(ev, S, n, l)
      BY <3>1, OneMore
    <3>3. QED
      BY <3>2 DEF T
  <2>6. QED
    BY <2>2, <2>5
<1>4. Is(stand)
  <2>1. stand = [n \in 0..N |-> stand[n]]
    OBVIOUS
  <2> HIDE DEF stand
  <2>2. \A n \in 0..N : stand[n] = IF n = 0 THEN S ELSE Obey(stand[n - 1], ev.body[n], ev)
    <3>1. SUFFICES ASSUME NEW n \in 0..N
                   PROVE stand[n] = IF n = 0 THEN S ELSE Obey(stand[n - 1], ev.body[n], ev)
      OBVIOUS
    <3>2. n = 0 \/ n \in 1..N
      BY <1>1
    <3>3. CASE n = 0
      BY <1>2, <3>3
    <3>4. CASE n \in 1..N /\ n # 0
      BY <1>3, <3>4
    <3>5. QED
      BY <3>2, <3>3, <3>4
  <2>3. QED
    BY <2>1, <2>2
<1>5. Is(after)
  <2> HIDE DEF stand
  <2>1. \E f : Is(f)
    BY <1>4
  <2> HIDE DEF Is
  <2>2. QED
    BY <2>1
<1>6. /\ after[0] = S
      /\ \A n \in 1..N : after[n] = Obey(after[n - 1], ev.body[n], ev)
  <2> HIDE DEF after
  <2>1. \A n \in 0..N : after[n] = IF n = 0 THEN S ELSE Obey(after[n - 1], ev.body[n], ev)
    BY <1>5
  <2>2. 0 \in 0..N /\ \A n \in 1..N : n \in 0..N /\ n # 0
    BY <1>1
  <2>3. QED
    BY <2>1, <2>2, Zenon
<1>7. after[N] = stand[N]
  <2> HIDE DEF after, stand, Is
  <2> DEFINE off == {n \in 0..N : after[n] # stand[n]}
  <2>1. SUFFICES ASSUME off # {} PROVE FALSE
    BY <1>1
  <2>2. off \in SUBSET Nat
    BY <1>1
  <2>3. PICK n \in off : \A m \in off : n <= m
    <3> HIDE DEF off
    <3>1. QED
      BY <2>1, <2>2, Smallest
  <2>4. n \in 1..N
    BY <1>1, <1>2, <1>6, <2>3
  <2>5. n - 1 \in 0..N /\ ~(n <= n - 1)
    BY <1>1, <2>4
  <2>6. after[n - 1] = stand[n - 1]
    BY <2>3, <2>5
  <2>7. after[n] = stand[n]
    BY <1>3, <1>6, <2>4, <2>6
  <2>8. QED
    BY <2>3, <2>7
<1>8. Obeyed(ev, S) = after[N]
  BY DEF Obeyed
<1>9. stand[N] = {l \in Label : Stands(ev, S, N, l)}
  BY <1>1
<1>10. QED
  BY <1>7, <1>8, <1>9

\* The dictionary holds the last command about each label.
LEMMA RequestedIsFinal ==
    ASSUME NEW ev \in Event, NEW l
    PROVE  {c \in Requested(ev.body) : ~OwnApproval(c.cmd, ev.user) /\ Target(c.cmd, ev.user) = l}
             = {ev.body[i] : i \in Final(ev, Len(ev.body), l)}
<1> DEFINE N == Len(ev.body)
<1>1. N \in Nat /\ DOMAIN ev.body = 1..N /\ \A i \in 1..N : ev.body[i] \in Token
  BY BodyTyped
<1>2. \A c, d \in Token : Target(c.cmd, ev.user) = Target(d.cmd, ev.user) <=> c.cmd = d.cmd
  BY UsersAssumption DEF Target, Event
<1>3. ASSUME NEW i \in 1..N, ~OwnApproval(ev.body[i].cmd, ev.user),
             Target(ev.body[i].cmd, ev.user) = l
      PROVE  (\A k \in 1..N : k > i => ev.body[k].cmd # ev.body[i].cmd)
               <=> \A j \in About(ev, N, l) : j <= i
  <2>1. \A k \in 1..N : k \in About(ev, N, l) <=> ev.body[k].cmd = ev.body[i].cmd
    <3>1. SUFFICES ASSUME NEW k \in 1..N
                   PROVE  k \in About(ev, N, l) <=> ev.body[k].cmd = ev.body[i].cmd
      OBVIOUS
    <3>2. Target(ev.body[k].cmd, ev.user) = l <=> ev.body[k].cmd = ev.body[i].cmd
      BY <1>1, <1>2, <1>3
    <3>3. QED
      BY <1>3, <3>2 DEF About
  <2>2. \A k \in 1..N : k > i <=> ~(k <= i)
    BY <1>1
  <2>3. About(ev, N, l) \subseteq 1..N
    BY DEF About
  <2>4. QED
    BY <2>1, <2>2, <2>3
<1>4. \A i \in 1..N :
        (\A k \in DOMAIN ev.body : k > i => ev.body[k].cmd # ev.body[i].cmd)
          /\ ~OwnApproval(ev.body[i].cmd, ev.user) /\ Target(ev.body[i].cmd, ev.user) = l
        <=> i \in Final(ev, N, l)
  BY <1>1, <1>3 DEF Final, About
<1>5. ASSUME NEW c \in Requested(ev.body), ~OwnApproval(c.cmd, ev.user), Target(c.cmd, ev.user) = l
      PROVE  \E i \in Final(ev, N, l) : c = ev.body[i]
  <2>1. PICK i \in DOMAIN ev.body : c = ev.body[i] /\ \A k \in DOMAIN ev.body : k > i => ev.body[k].cmd # c.cmd
    BY DEF Requested
  <2>2. i \in Final(ev, N, l)
    BY <1>1, <1>4, <1>5, <2>1
  <2>3. QED
    BY <2>1, <2>2
<1>6. ASSUME NEW i \in Final(ev, N, l)
      PROVE  /\ ev.body[i] \in Requested(ev.body)
             /\ ~OwnApproval(ev.body[i].cmd, ev.user) /\ Target(ev.body[i].cmd, ev.user) = l
  <2>1. i \in 1..N
    BY DEF Final, About
  <2>2. QED
    BY <1>1, <1>4, <2>1 DEF Requested
<1>7. QED
  BY <1>5, <1>6

\* So the order of the commands and the dictionary agree.
LEMMA ObeyedByDictionary ==
    ASSUME NEW ev \in Event, NEW S \in SUBSET Label, NEW l \in Label
    PROVE  l \in Obeyed(ev, S) <=>
             \/ \E c \in Requested(ev.body) :
                   ~OwnApproval(c.cmd, ev.user) /\ Target(c.cmd, ev.user) = l /\ ~Undoes(c, ev)
             \/ /\ l \in S
                /\ \A c \in Requested(ev.body) :
                      ~OwnApproval(c.cmd, ev.user) => Target(c.cmd, ev.user) # l
<1> DEFINE N == Len(ev.body)
           mine == {c \in Requested(ev.body) : ~OwnApproval(c.cmd, ev.user) /\ Target(c.cmd, ev.user) = l}
<1>1. mine = {ev.body[i] : i \in Final(ev, N, l)}
  BY RequestedIsFinal
<1>2. l \in Obeyed(ev, S) <=> Stands(ev, S, N, l)
  BY ObeyedIs
<1>3. About(ev, N, l) = {} <=> Final(ev, N, l) = {}
  <2>1. ASSUME About(ev, N, l) # {} PROVE Final(ev, N, l) # {}
    <3> DEFINE back == {N - i : i \in About(ev, N, l)}
    <3>1. N \in Nat /\ \A i \in About(ev, N, l) : i \in 1..N
      BY BodyTyped DEF About
    <3>2. back \in SUBSET Nat /\ back # {}
      BY <2>1, <3>1
    <3>3. PICK n \in back : \A m \in back : n <= m
      <4> HIDE DEF back
      <4>1. QED
        BY <3>2, Smallest
    <3>4. PICK i \in About(ev, N, l) : n = N - i
      BY <3>3
    <3>5. \A j \in About(ev, N, l) : N - i <= N - j
      BY <3>3, <3>4
    <3>6. \A j \in About(ev, N, l) : j <= i
      BY <3>1, <3>5
    <3>7. QED
      BY <3>6 DEF Final
  <2>2. QED
    BY <2>1 DEF Final
<1>4. Stands(ev, S, N, l) <=> (mine = {} /\ l \in S) \/ \E c \in mine : ~Undoes(c, ev)
  <2> HIDE DEF mine
  <2>1. QED
    BY <1>1, <1>3 DEF Stands
<1>5. QED
  BY <1>2, <1>4

-----------------------------------------------------------------------------
(* Where a run is heading.                                                 *)

\* What a run has still to do about a label: the call it has pending, the
\* commands it has not come to, the labels it has yet to take off.
Putting(me)      == me.pc \in {"lookup", "create", "attach"} \/ (me.pc = "approve" /\ ~me.undo)
Taking(me)       == me.pc = "remove" \/ (me.pc = "approve" /\ me.undo)
Obeys(c, ev, l)  == ~OwnApproval(c.cmd, ev.user) /\ Target(c.cmd, ev.user) = l

Adds(me, l) ==
    \/ Putting(me) /\ l = me.label
    \/ \E c \in me.cmds : Obeys(c, me.ev, l) /\ ~Undoes(c, me.ev)

Drops(me, l) ==
    \/ Taking(me) /\ l = me.label
    \/ \E c \in me.cmds : Obeys(c, me.ev, l) /\ Undoes(c, me.ev)
    \/ l \in me.strip

\* Whether the label will be there when the run is over.
WillBe(me, lab, l) == (l \in lab \/ Adds(me, l)) /\ ~Drops(me, l)

\* Between its snapshot and its end a run that nobody disturbs heads for the
\* outcome of its event.
Heading(me, lab) ==
    /\ me.pc = "strip" => me.ev.kind # "comment"
    /\ me.pc = "done" => me.cmds = {} /\ me.strip = {}
    /\ me.pc \notin {"idle", "queued", "crashed"} /\ ~me.disturbed /\ me.ev.user \notin MixedCase =>
          /\ \A l \in Label : l \in Outcome(me.ev, me.snap) <=> WillBe(me, lab, l)
          /\ me.pc = "approve" => ~(me.label[1] = "lgtm-by" /\ me.label[2] \in MixedCase)

RunsHead == \A r \in Slots : Heading(run[r], labels)

\* What another run does leaves a run as it is, or disturbed.
LEMMA OthersHead ==
    ASSUME run \in [Slots -> Run], RunsHead, NEW r \in Slots, NEW rec \in Run,
           (Step(r, rec) /\ UNCHANGED labels) \/ Write(r, rec), Heading(rec, labels')
    PROVE  RunsHead'
<1> SUFFICES ASSUME NEW q \in Slots PROVE Heading(run'[q], labels')
  BY DEF RunsHead
<1>1. CASE q = r
  BY <1>1 DEF Step, Write
<1>2. CASE q # r
  <2>1. Heading(run[q], labels) /\ run[q] \in Run
    BY DEF RunsHead
  <2>2. CASE run'[q] = run[q] /\ UNCHANGED labels
    BY <2>1, <2>2
  <2>3. CASE run'[q] = run[q] /\ run[q].pc \in {"idle", "queued"}
    BY <2>3 DEF Heading
  <2>4. CASE run'[q] = [run[q] EXCEPT !.disturbed = TRUE]
    <3>1. run'[q].pc = run[q].pc /\ run'[q].ev = run[q].ev /\ run'[q].disturbed
          /\ run'[q].cmds = run[q].cmds /\ run'[q].strip = run[q].strip
      BY <2>1, <2>4 DEF Run
    <3>2. QED
      BY <2>1, <3>1 DEF Heading
  <2>5. QED
    BY <1>2, <2>2, <2>3, <2>4 DEF Step, Write
<1>3. QED
  BY <1>1, <1>2

\* Actions that only move a run.
LEMMA QuietHead ==
    ASSUME IInv, RunsHead, NEW r \in Slots, NEW rec \in Run, Step(r, rec), UNCHANGED github,
           Heading(rec, labels)
    PROVE  RunsHead'
<1>1. UNCHANGED labels
  BY DEF github
<1>2. QED
  BY <1>1, OthersHead DEF IInv, TypeOK

\* A step on the way: what will be there is what would have been.
LEMMA OnTheWay ==
    ASSUME NEW me \in Run, NEW rec \in Run, NEW before, NEW after, Heading(me, before),
           me.pc \notin {"idle", "queued", "crashed"},
           rec.ev = me.ev, rec.snap = me.snap, rec.disturbed = me.disturbed,
           rec.pc = "strip" => rec.ev.kind # "comment",
           rec.pc = "done" => rec.cmds = {} /\ rec.strip = {},
           rec.pc = "approve" /\ rec.ev.user \notin MixedCase
               => ~(rec.label[1] = "lgtm-by" /\ rec.label[2] \in MixedCase),
           ~me.disturbed /\ rec.ev.user \notin MixedCase
               => \A l \in Label : WillBe(rec, after, l) <=> WillBe(me, before, l)
    PROVE  Heading(rec, after)
BY DEF Heading

LEMMA InitHead == ASSUME Init PROVE RunsHead
BY DEF Init, RunsHead, NewRun, Heading

LEMMA TriggerHead ==
    ASSUME IInv, RunsHead, NEW r \in Slots, NEW ev \in Events, Trigger(r, ev)
    PROVE  RunsHead'
<1> DEFINE rec == [NewRun EXCEPT !.pc = "queued", !.ev = ev]
<1>1. rec \in Run /\ rec.pc = "queued"
  BY CommandsAssumption DEF NewRun, Run, Ended, Label
<1>2. Step(r, rec) /\ UNCHANGED github
  BY DEF Trigger
<1> HIDE DEF rec
<1>3. Heading(rec, labels)
  BY <1>1 DEF Heading
<1>4. QED
  BY <1>1, <1>2, <1>3, QuietHead

\* What the outcome of an event is worth, by what the event is.
LEMMA Outcomes ==
    ASSUME NEW ev \in Event, NEW S \in SUBSET Label
    PROVE  /\ Outcome(ev, S) \subseteq Label
           /\ ev.user \notin Members \/ QuotesWelcome(ev) => Outcome(ev, S) = S
           /\ ~HasText(ev) /\ (ev.kind = "comment" => ev.text # "none") => Outcome(ev, S) = S
           /\ Allowed(ev) /\ ev.kind = "synchronize" => Outcome(ev, S) = {l \in S : ~Sticky(l)}
           /\ Allowed(ev) /\ ev.kind = "comment" =>
                 Outcome(ev, S) = IF ev.body = <<>> THEN S \cup {<<"commented-by", ev.user>>}
                                  ELSE Obeyed(ev, S)
           /\ Allowed(ev) /\ ev.kind = "review" =>
                 Outcome(ev, S) = (S \cup {ReviewLabelToAdd(ev)}) \ ReviewLabelToRemove(ev)
<1>1. Obeyed(ev, S) \subseteq Label /\ ReviewLabelToAdd(ev) \in Label
      /\ <<"commented-by", ev.user>> \in Label
  BY ObeyedIs, LabelsTyped
<1>2. Outcome(ev, S) \subseteq Label
  BY <1>1, Zenon DEF Outcome
<1>3. ev.user \notin Members \/ QuotesWelcome(ev) => Outcome(ev, S) = S
  BY DEF Outcome
<1>4. ~HasText(ev) /\ (ev.kind = "comment" => ev.text # "none") => Outcome(ev, S) = S
  BY DEF Outcome, HasText
<1>5. Allowed(ev) /\ ev.kind = "synchronize" => Outcome(ev, S) = {l \in S : ~Sticky(l)}
  BY DEF Outcome, Allowed
<1>6. Allowed(ev) /\ ev.kind = "comment" =>
                 Outcome(ev, S) = IF ev.body = <<>> THEN S \cup {<<"commented-by", ev.user>>}
                                  ELSE Obeyed(ev, S)
  BY DEF Outcome, Allowed
<1>7. Allowed(ev) /\ ev.kind = "review" =>
                 Outcome(ev, S) = (S \cup {ReviewLabelToAdd(ev)}) \ ReviewLabelToRemove(ev)
  BY DEF Outcome, Allowed
<1>8. QED
  BY <1>2, <1>3, <1>4, <1>5, <1>6, <1>7

LEMMA FetchHead ==
    ASSUME IInv, RunsRight, RunsHead, NEW r \in Slots,
           FetchRefused(r) \/ FetchOnPush(r) \/ FetchOnReview(r) \/ FetchOnComment(r)
    PROVE  RunsHead'
<1> DEFINE ev == run[r].ev
           got == Fetched(r)
<1>1. /\ run[r] \in Run /\ run[r].pc = "queued" /\ labels \in SUBSET Label /\ UNCHANGED github
      /\ ev \in Events \cup {NoEvent} /\ ev \in Event
  BY FieldsTyped DEF IInv, TypeOK, FetchRefused, FetchOnPush, FetchOnReview, FetchOnComment, Served,
     Run
<1>2. run[r].strip = {} /\ run[r].cmds = {}
  BY <1>1 DEF RunsRight, Alone
<1>3. got \in Run /\ got.ev = ev /\ got.snap = labels /\ got.strip = {} /\ got.cmds = {}
  BY <1>1, <1>2 DEF Fetched, Run
<1>4. Served(r) => Allowed(ev)
  BY <1>1 DEF Served, Allowed, VerifyAllowedUser, QuotesWelcome
<1>5. CASE FetchRefused(r)
  <2> DEFINE rec == [got EXCEPT !.pc = "done"]
  <2>1. /\ rec \in Run /\ rec.pc = "done" /\ rec.ev = ev /\ rec.strip = {} /\ rec.cmds = {}
        /\ rec.snap = labels /\ Step(r, rec)
    BY <1>3, <1>5 DEF FetchRefused, Run, Ended
  <2>2. ~HasText(ev) \/ ev.user \notin Members \/ QuotesWelcome(ev)
    BY <1>1, <1>5 DEF FetchRefused, Served, VerifyAllowedUser, QuotesWelcome
  <2>3. ev.kind = "comment" => ev.text # "none"
    BY <1>1 DEF Events, IsPush, IsComment, IsReview, NoEvent
  <2>4. Outcome(ev, labels) = labels
    BY <1>1, <2>2, <2>3, Outcomes
  <2> HIDE DEF rec, ev
  <2>5. Heading(rec, labels)
    BY <2>1, <2>4 DEF Heading, WillBe, Adds, Drops, Putting, Taking
  <2>6. QED
    BY <1>1, <2>1, <2>5, QuietHead
<1>6. CASE FetchOnPush(r)
  <2> DEFINE rec == [got EXCEPT !.pc = "strip", !.strip = {l \in labels : Sticky(l)}]
  <2>1. /\ rec \in Run /\ rec.pc = "strip" /\ rec.ev = ev /\ rec.strip = {l \in labels : Sticky(l)}
        /\ rec.cmds = {} /\ rec.snap = labels /\ Step(r, rec) /\ ev.kind = "synchronize"
    BY <1>1, <1>3, <1>6 DEF FetchOnPush, Run
  <2>2. Outcome(ev, labels) = {l \in labels : ~Sticky(l)}
    BY <1>1, <1>4, <1>6, <2>1, Outcomes DEF FetchOnPush
  <2> HIDE DEF rec, ev
  <2>3. Heading(rec, labels)
    BY <2>1, <2>2 DEF Heading, WillBe, Adds, Drops, Putting, Taking
  <2>4. QED
    BY <1>1, <2>1, <2>3, QuietHead
<1>7. ASSUME NEW l \in Label, NEW rec \in Run, rec.ev = ev, rec.cmds = {}, rec.snap = labels,
             \A m \in Label : m \in Outcome(ev, labels) <=> (m \in labels \/ m = l) /\ m \notin rec.strip,
             AddUnlessThere(r, l, rec)
      PROVE  RunsHead'
  <2> DEFINE there == Resume(rec)
             new == [rec EXCEPT !.pc = "lookup", !.label = l]
  <2>1. /\ there \in Run /\ there.pc \in {"comment", "strip"} /\ there.ev = ev /\ there.cmds = {}
        /\ there.strip = rec.strip /\ there.snap = labels
        /\ (there.pc = "strip" => ev.kind # "comment")
    BY <1>7 DEF Resume, Run
  <2>2. /\ new \in Run /\ new.pc = "lookup" /\ new.ev = ev /\ new.cmds = {}
        /\ new.strip = rec.strip /\ new.label = l /\ new.snap = labels
    BY <1>7 DEF Run, Calling
  <2>3. (l \in labels /\ Step(r, there)) \/ Step(r, new)
    BY <1>7 DEF AddUnlessThere
  <2> HIDE DEF there, new, ev
  <2>4. l \in labels => Heading(there, labels)
    BY <1>7, <2>1 DEF Heading, WillBe, Adds, Drops, Putting, Taking
  <2>5. Heading(new, labels)
    BY <1>7, <2>2 DEF Heading, WillBe, Adds, Drops, Putting, Taking
  <2>6. QED
    BY <1>1, <2>1, <2>2, <2>3, <2>4, <2>5, QuietHead
<1>8. CASE FetchOnReview(r)
  <2> DEFINE rec == [got EXCEPT !.strip = ReviewLabelToRemove(ev) \cap labels]
             l == ReviewLabelToAdd(ev)
  <2>1. /\ rec \in Run /\ rec.ev = ev /\ rec.cmds = {} /\ rec.snap = labels
        /\ rec.strip = ReviewLabelToRemove(ev) \cap labels
    BY <1>1, <1>3 DEF Run
  <2>2. l \in Label /\ l \notin ReviewLabelToRemove(ev)
    BY <1>1, LabelsTyped DEF ReviewLabelToAdd, ReviewLabelToRemove
  <2>3. Allowed(ev) /\ ev.kind = "review" /\ AddUnlessThere(r, l, rec)
    BY <1>4, <1>8 DEF FetchOnReview
  <2>4. Outcome(ev, labels) = (labels \cup {l}) \ ReviewLabelToRemove(ev)
    BY <1>1, <2>3, Outcomes
  <2> HIDE DEF rec, l, ev
  <2>5. \A m \in Label : m \in Outcome(ev, labels) <=> (m \in labels \/ m = l) /\ m \notin rec.strip
    BY <2>1, <2>2, <2>4
  <2>6. QED
    BY <1>7, <2>1, <2>2, <2>3, <2>5
<1>9. CASE FetchOnComment(r)
  <2>1. Allowed(ev) /\ ev.kind = "comment"
    BY <1>4, <1>9 DEF FetchOnComment
  <2>2. CASE ev.body = <<>>
    <3> DEFINE l == <<"commented-by", ev.user>>
    <3>1. l \in Label
      BY <1>1, LabelsTyped
    <3>2. AddUnlessThere(r, l, got)
      BY <1>9, <2>2 DEF FetchOnComment
    <3>3. Outcome(ev, labels) = labels \cup {l}
      BY <1>1, <2>1, <2>2, Outcomes
    <3> HIDE DEF l, ev, got
    <3>4. QED
      BY <1>3, <1>7, <3>1, <3>2, <3>3
  <2>3. CASE ev.body # <<>>
    <3> DEFINE rec == [got EXCEPT !.pc = "comment", !.cmds = Requested(ev.body)]
    <3>1. /\ rec \in Run /\ rec.pc = "comment" /\ rec.ev = ev /\ rec.strip = {}
          /\ rec.snap = labels /\ rec.cmds = Requested(ev.body) /\ Step(r, rec)
      BY <1>1, <1>3, <1>9, <2>3, RequestedTyped DEF FetchOnComment, Run
    <3>2. Outcome(ev, labels) = Obeyed(ev, labels)
      BY <1>1, <2>1, <2>3, Outcomes
    <3>3. ASSUME NEW l \in Label PROVE l \in Obeyed(ev, labels) <=> WillBe(rec, labels, l)
      <4> HIDE DEF rec, ev
      <4>1. l \in Obeyed(ev, labels) <=>
              \/ \E c \in rec.cmds : Obeys(c, ev, l) /\ ~Undoes(c, ev)
              \/ l \in labels /\ \A c \in rec.cmds : ~Obeys(c, ev, l)
        BY <1>1, <3>1, ObeyedByDictionary DEF Obeys
      <4>2. \A c, d \in rec.cmds : Obeys(c, ev, l) /\ Obeys(d, ev, l) => c = d
        BY <1>1, <3>1, CommandsApart DEF Obeys
      <4>3. QED
        BY <3>1, <4>1, <4>2 DEF WillBe, Adds, Drops, Putting, Taking
    <3> HIDE DEF rec, ev
    <3>4. Heading(rec, labels)
      BY <3>1, <3>2, <3>3 DEF Heading
    <3>5. QED
      BY <1>1, <3>1, <3>4, QuietHead
  <2>4. QED
    BY <2>2, <2>3
<1>10. QED
  BY <1>5, <1>6, <1>8, <1>9

\* The same for a run with a command in hand, before it has chosen a call.
WouldBe(me, lab, l) ==
    /\ \/ l \in lab
       \/ ~me.undo /\ l = me.label
       \/ \E c \in me.cmds : Obeys(c, me.ev, l) /\ ~Undoes(c, me.ev)
    /\ ~(me.undo /\ l = me.label)
    /\ \A c \in me.cmds : Obeys(c, me.ev, l) => ~Undoes(c, me.ev)

\* Nothing to do about a label that is as it should be already.
LEMMA RelabelHead ==
    ASSUME NEW me \in Run, NEW lab, me.ev.kind = "comment", me.strip = {}, InHand(me, lab),
           ~me.disturbed /\ me.ev.user \notin MixedCase =>
              /\ \A l \in Label : l \in Outcome(me.ev, me.snap) <=> WouldBe(me, lab, l)
              /\ ~(me.label[1] = "lgtm-by" /\ me.label[2] \in MixedCase)
    PROVE  Heading(Relabel(me), lab)
<1> DEFINE rec == Relabel(me)
<1>1. /\ rec \in Run /\ rec.ev = me.ev /\ rec.strip = {} /\ rec.cmds = me.cmds
      /\ rec.label = me.label /\ rec.snap = me.snap /\ rec.disturbed = me.disturbed
      /\ \/ rec.pc = "remove" /\ me.undo /\ LabelInPr(me.label, me.snap)
         \/ rec.pc = "lookup" /\ ~me.undo
         \/ rec.pc = "comment" /\ (me.undo <=> ~LabelInPr(me.label, me.snap))
  <2>1. CASE rec = [me EXCEPT !.pc = "remove"] /\ me.undo /\ LabelInPr(me.label, me.snap)
    BY <2>1 DEF Run, Calling
  <2>2. CASE rec = [me EXCEPT !.pc = "lookup"] /\ ~me.undo
    BY <2>2 DEF Run, Calling
  <2>3. CASE rec = Resume(me) /\ (me.undo <=> ~LabelInPr(me.label, me.snap))
    BY <2>3 DEF Run, Resume
  <2>4. me.undo \in BOOLEAN
    BY FieldsTyped
  <2>5. QED
    BY <2>1, <2>2, <2>3, <2>4 DEF Relabel
<1> HIDE DEF rec
<1>2. SUFFICES ASSUME ~me.disturbed, me.ev.user \notin MixedCase PROVE Heading(rec, lab)
  BY <1>1 DEF Heading, rec
<1>3. /\ me.label \in me.snap <=> me.label \in lab
      /\ LabelInPr(me.label, me.snap) <=> me.label \in me.snap
      /\ \A c \in me.cmds : ~Obeys(c, me.ev, me.label)
  BY <1>2 DEF InHand, LabelInPr, Obeys
<1>4. ASSUME NEW l \in Label PROVE WillBe(rec, lab, l) <=> WouldBe(me, lab, l)
  BY <1>1, <1>3 DEF WillBe, WouldBe, Adds, Drops, Putting, Taking
<1>5. QED
  BY <1>1, <1>2, <1>4 DEF Heading

LEMMA CommandHead ==
    ASSUME IInv, RunsRight, RunsHead, NEW r \in Slots, NEW c \in run[r].cmds,
           SkipCommand(r, c) \/ Command(r, c)
    PROVE  RunsHead'
<1> DEFINE ev == run[r].ev
<1>1. /\ run[r] \in Run /\ run[r].pc = "comment" /\ UNCHANGED github /\ ev \in Event
      /\ run[r].cmds \subseteq Requested(ev.body) /\ ev.kind = "comment" /\ c \in Token
  BY FieldsTyped DEF IInv, TypeOK, RunsFit, Fits, SkipCommand, Command
<1>2. Alone(run[r], labels, repoLabels) /\ Heading(run[r], labels) /\ run[r].strip = {}
  BY <1>1 DEF RunsRight, Alone, RunsHead
<1>3. CASE SkipCommand(r, c)
  <2> DEFINE rec == [run[r] EXCEPT !.cmds = @ \ {c}]
  <2>1. /\ rec \in Run /\ rec.pc = "comment" /\ rec.ev = ev /\ rec.strip = {} /\ Step(r, rec)
        /\ rec.cmds = run[r].cmds \ {c} /\ rec.snap = run[r].snap
        /\ rec.disturbed = run[r].disturbed
    BY <1>1, <1>2, <1>3 DEF SkipCommand, Run
  <2>2. \A l \in Label : ~Obeys(c, ev, l)
    BY <1>3 DEF SkipCommand, Obeys
  <2> HIDE DEF rec
  <2>3. \A l \in Label : WillBe(rec, labels, l) <=> WillBe(run[r], labels, l)
    BY <1>1, <1>2, <2>1, <2>2 DEF WillBe, Adds, Drops, Putting, Taking
  <2>4. Heading(rec, labels)
    BY <1>1, <1>2, <2>1, <2>3, OnTheWay
  <2>5. QED
    BY <1>1, <2>1, <2>4, QuietHead
<1>4. CASE Command(r, c)
  <2> DEFINE rec == [run[r] EXCEPT !.cmds = @ \ {c}, !.label = Target(c.cmd, ev.user),
                                   !.undo = Undoes(c, ev)]
  <2>1. Target(c.cmd, ev.user) \in Label /\ Undoes(c, ev) \in BOOLEAN
    BY <1>1, LabelsTyped DEF Undoes, Token, Event
  <2>2. /\ rec \in Run /\ rec.pc = "comment" /\ rec.ev = ev /\ rec.strip = {}
        /\ rec.cmds = run[r].cmds \ {c} /\ rec.snap = run[r].snap
        /\ rec.disturbed = run[r].disturbed /\ rec.label = Target(c.cmd, ev.user)
        /\ rec.undo = Undoes(c, ev)
    BY <1>1, <1>2, <2>1 DEF Run
  <2>3. Step(r, IF Approves(c, ev) THEN [rec EXCEPT !.pc = "approve"] ELSE Relabel(rec))
    BY <1>4 DEF Command
  <2>4. \A l \in Label : Obeys(c, ev, l) <=> l = Target(c.cmd, ev.user)
    BY <1>4 DEF Command, Obeys
  <2>5. ev.user \notin MixedCase => ~(rec.label[1] = "lgtm-by" /\ rec.label[2] \in MixedCase)
    BY <2>2, UsersAssumption DEF Target
  <2> HIDE DEF rec
  <2>6. \A d \in rec.cmds : Target(d.cmd, ev.user) # rec.label
    BY <1>1, <2>2, CommandsApart
  <2>7. InHand(rec, labels)
    BY <1>1, <1>2, <2>2, <2>6 DEF Alone, InHand
  <2>8. ASSUME NEW l \in Label PROVE WouldBe(rec, labels, l) <=> WillBe(run[r], labels, l)
    BY <1>1, <1>2, <2>2, <2>4 DEF WouldBe, WillBe, Adds, Drops, Putting, Taking
  <2>9. CASE Approves(c, ev)
    <3> DEFINE new == [rec EXCEPT !.pc = "approve"]
    <3>1. /\ new \in Run /\ new.pc = "approve" /\ new.ev = rec.ev /\ new.strip = {}
          /\ new.cmds = rec.cmds /\ new.snap = rec.snap /\ new.disturbed = rec.disturbed
          /\ new.label = rec.label /\ new.undo = rec.undo
      BY <1>1, <2>2 DEF Run, Calling
    <3>2. Step(r, new)
      BY <2>3, <2>9
    <3> HIDE DEF new
    <3>3. \A l \in Label : WillBe(new, labels, l) <=> WouldBe(rec, labels, l)
      BY <3>1 DEF WouldBe, WillBe, Adds, Drops, Putting, Taking
    <3>4. Heading(new, labels)
      BY <1>1, <1>2, <2>2, <2>5, <2>8, <3>1, <3>3, OnTheWay
    <3>5. QED
      BY <1>1, <3>1, <3>2, <3>4, QuietHead
  <2>10. CASE ~Approves(c, ev)
    <3>1. ~rec.disturbed /\ ev.user \notin MixedCase
            => \A l \in Label : l \in Outcome(ev, rec.snap) <=> WouldBe(rec, labels, l)
      BY <1>1, <1>2, <2>2, <2>8 DEF Heading
    <3>2. Heading(Relabel(rec), labels)
      BY <1>1, <2>2, <2>5, <2>7, <3>1, RelabelHead
    <3>3. Relabel(rec) \in Run
      BY <2>2 DEF Relabel, Resume, Run, Calling
    <3>4. Step(r, Relabel(rec))
      BY <2>3, <2>10
    <3>5. QED
      BY <1>1, <3>2, <3>3, <3>4, QuietHead
  <2>11. QED
    BY <2>9, <2>10
<1>5. QED
  BY <1>3, <1>4

LEMMA ApproveHead ==
    ASSUME IInv, RunsRight, RunsHead, NEW r \in Slots, ApprovePr(r) PROVE RunsHead'
<1>1. /\ run[r] \in Run /\ run[r].pc = "approve" /\ run[r].ev.kind = "comment"
      /\ Step(r, Relabel(run[r])) /\ UNCHANGED labels
  BY DEF IInv, TypeOK, RunsFit, Fits, ApprovePr
<1>2. Alone(run[r], labels, repoLabels) /\ Heading(run[r], labels) /\ run[r].strip = {}
  BY <1>1 DEF RunsRight, Alone, RunsHead
<1>3. InHand(run[r], labels)
  BY <1>1, <1>2 DEF Alone, InHand, Calling
<1>4. \A l \in Label : WouldBe(run[r], labels, l) <=> WillBe(run[r], labels, l)
  BY <1>1, <1>2 DEF WouldBe, WillBe, Adds, Drops, Putting, Taking
<1>5. Heading(Relabel(run[r]), labels)
  BY <1>1, <1>2, <1>3, <1>4, RelabelHead DEF Heading
<1>6. Relabel(run[r]) \in Run
  BY <1>1 DEF Relabel, Resume, Run, Calling
<1>7. Heading(Relabel(run[r]), labels')
  BY <1>1, <1>5
<1>8. QED
  BY <1>1, <1>6, <1>7, OthersHead DEF IInv, TypeOK

LEMMA LookupHead ==
    ASSUME IInv, RunsHead, NEW r \in Slots, LookupLabel(r) PROVE RunsHead'
<1> DEFINE rec == [run[r] EXCEPT !.pc = IF run[r].label \in repoLabels THEN "attach" ELSE "create"]
<1>1. /\ run[r] \in Run /\ run[r].pc = "lookup" /\ UNCHANGED github /\ Step(r, rec)
      /\ Heading(run[r], labels)
  BY DEF IInv, TypeOK, LookupLabel, RunsHead
<1>2. /\ rec \in Run /\ rec.ev = run[r].ev /\ rec.strip = run[r].strip /\ rec.cmds = run[r].cmds
      /\ rec.snap = run[r].snap /\ rec.disturbed = run[r].disturbed /\ rec.label = run[r].label
      /\ rec.pc \in {"attach", "create"}
  BY <1>1 DEF Run, Calling
<1> HIDE DEF rec
<1>3. \A l \in Label : WillBe(rec, labels, l) <=> WillBe(run[r], labels, l)
  BY <1>1, <1>2 DEF WillBe, Adds, Drops, Putting, Taking
<1>4. Heading(rec, labels)
  BY <1>1, <1>2, <1>3, OnTheWay
<1>5. QED
  BY <1>1, <1>2, <1>4, QuietHead

LEMMA CreateHead ==
    ASSUME IInv, RunsHead, NEW r \in Slots, CreateLabel(r) PROVE RunsHead'
<1>1. /\ run[r] \in Run /\ run[r].pc = "create" /\ UNCHANGED labels /\ Heading(run[r], labels)
  BY DEF IInv, TypeOK, CreateLabel, RunsHead
<1>2. CASE run[r].label \in repoLabels
  <2> DEFINE rec == [run[r] EXCEPT !.pc = "crashed"]
  <2>1. rec \in Run /\ rec.pc = "crashed" /\ Step(r, rec) /\ UNCHANGED github
    BY <1>1, <1>2 DEF Run, Ended, CreateLabel, github
  <2> HIDE DEF rec
  <2>2. Heading(rec, labels)
    BY <2>1 DEF Heading
  <2>3. QED
    BY <2>1, <2>2, QuietHead
<1>3. CASE run[r].label \notin repoLabels
  <2> DEFINE rec == [run[r] EXCEPT !.pc = "attach"]
  <2>1. /\ rec \in Run /\ rec.ev = run[r].ev /\ rec.strip = run[r].strip /\ rec.cmds = run[r].cmds
        /\ rec.snap = run[r].snap /\ rec.disturbed = run[r].disturbed /\ rec.label = run[r].label
        /\ rec.pc = "attach" /\ Write(r, rec)
    BY <1>1, <1>3 DEF Run, Calling, CreateLabel
  <2> HIDE DEF rec
  <2>2. \A l \in Label : WillBe(rec, labels', l) <=> WillBe(run[r], labels, l)
    BY <1>1, <2>1 DEF WillBe, Adds, Drops, Putting, Taking
  <2>3. Heading(rec, labels')
    BY <1>1, <2>1, <2>2, OnTheWay
  <2>4. QED
    BY <2>1, <2>3, OthersHead DEF IInv, TypeOK
<1>4. QED
  BY <1>2, <1>3

LEMMA AttachHead ==
    ASSUME IInv, RunsRight, RunsHead, NEW r \in Slots, AttachLabel(r) PROVE RunsHead'
<1> DEFINE rec == Resume(run[r])
<1>1. /\ run[r] \in Run /\ run[r].pc = "attach" /\ labels' = labels \cup {run[r].label}
      /\ Write(r, rec) /\ Heading(run[r], labels) /\ Alone(run[r], labels, repoLabels)
  BY DEF IInv, TypeOK, AttachLabel, RunsHead, RunsRight
<1>2. /\ rec \in Run /\ rec.ev = run[r].ev /\ rec.strip = run[r].strip /\ rec.cmds = run[r].cmds
      /\ rec.snap = run[r].snap /\ rec.disturbed = run[r].disturbed
      /\ rec.pc \in {"comment", "strip"} /\ (rec.ev.kind = "comment" => rec.pc = "comment")
  BY <1>1, ResumeTyped
<1> HIDE DEF rec
<1>3. ~run[r].disturbed => /\ run[r].label \notin run[r].strip
                           /\ \A c \in run[r].cmds : ~Obeys(c, run[r].ev, run[r].label)
  BY <1>1 DEF Alone, Calling, Obeys
<1>4. ~run[r].disturbed
        => \A l \in Label : WillBe(rec, labels', l) <=> WillBe(run[r], labels, l)
  BY <1>1, <1>2, <1>3 DEF WillBe, Adds, Drops, Putting, Taking
<1>5. Heading(rec, labels')
  BY <1>1, <1>2, <1>4, OnTheWay
<1>6. QED
  BY <1>1, <1>2, <1>5, OthersHead DEF IInv, TypeOK

LEMMA StripHead ==
    ASSUME IInv, RunsHead, NEW r \in Slots, NEW l \in run[r].strip, StripLabel(r, l)
    PROVE  RunsHead'
<1> DEFINE rec == [run[r] EXCEPT !.strip = @ \ {l}, !.label = l, !.pc = "remove"]
<1>1. /\ run[r] \in Run /\ run[r].pc = "strip" /\ UNCHANGED github /\ Step(r, rec) /\ l \in Label
      /\ Heading(run[r], labels)
  BY FieldsTyped DEF IInv, TypeOK, StripLabel, RunsHead
<1>2. /\ rec \in Run /\ rec.ev = run[r].ev /\ rec.strip = run[r].strip \ {l}
      /\ rec.cmds = run[r].cmds /\ rec.snap = run[r].snap /\ rec.disturbed = run[r].disturbed
      /\ rec.label = l /\ rec.pc = "remove"
  BY <1>1 DEF Run, Calling
<1> HIDE DEF rec
<1>3. \A m \in Label : WillBe(rec, labels, m) <=> WillBe(run[r], labels, m)
  BY <1>1, <1>2 DEF WillBe, Adds, Drops, Putting, Taking
<1>4. Heading(rec, labels)
  BY <1>1, <1>2, <1>3, OnTheWay
<1>5. QED
  BY <1>1, <1>2, <1>4, QuietHead

LEMMA RemoveHead ==
    ASSUME IInv, RunsRight, RunsHead, NEW r \in Slots, RemoveLabel(r) PROVE RunsHead'
<1>1. /\ run[r] \in Run /\ run[r].pc = "remove" /\ Heading(run[r], labels)
      /\ Alone(run[r], labels, repoLabels)
  BY DEF IInv, TypeOK, RemoveLabel, RunsHead, RunsRight
<1>2. CASE run[r].label \in labels
  <2> DEFINE rec == Resume(run[r])
  <2>1. labels' = labels \ {run[r].label} /\ Write(r, rec)
    BY <1>2 DEF RemoveLabel
  <2>2. /\ rec \in Run /\ rec.ev = run[r].ev /\ rec.strip = run[r].strip /\ rec.cmds = run[r].cmds
        /\ rec.snap = run[r].snap /\ rec.disturbed = run[r].disturbed
        /\ rec.pc \in {"comment", "strip"} /\ (rec.ev.kind = "comment" => rec.pc = "comment")
    BY <1>1, ResumeTyped
  <2> HIDE DEF rec
  <2>3. ~run[r].disturbed => \A c \in run[r].cmds : ~Obeys(c, run[r].ev, run[r].label)
    BY <1>1 DEF Alone, Calling, Obeys
  <2>4. ~run[r].disturbed
          => \A l \in Label : WillBe(rec, labels', l) <=> WillBe(run[r], labels, l)
    BY <1>1, <2>1, <2>2, <2>3 DEF WillBe, Adds, Drops, Putting, Taking
  <2>5. Heading(rec, labels')
    BY <1>1, <2>2, <2>4, OnTheWay
  <2>6. QED
    BY <2>1, <2>2, <2>5, OthersHead DEF IInv, TypeOK
<1>3. CASE run[r].label \notin labels
  <2> DEFINE rec == [run[r] EXCEPT !.pc = "crashed"]
  <2>1. rec \in Run /\ rec.pc = "crashed" /\ Step(r, rec) /\ UNCHANGED github
    BY <1>1, <1>3 DEF Run, Ended, RemoveLabel, github
  <2> HIDE DEF rec
  <2>2. Heading(rec, labels)
    BY <2>1 DEF Heading
  <2>3. QED
    BY <2>1, <2>2, QuietHead
<1>4. QED
  BY <1>2, <1>3

LEMMA FinishHead ==
    ASSUME IInv, RunsRight, RunsHead, NEW r \in Slots, Finish(r) PROVE RunsHead'
<1> DEFINE rec == [run[r] EXCEPT !.pc = "done", !.label = NewRun.label, !.undo = FALSE]
<1>1. /\ run[r] \in Run /\ UNCHANGED github /\ Step(r, rec) /\ run[r].pc \in {"comment", "strip"}
      /\ Heading(run[r], labels)
  BY DEF IInv, TypeOK, Finish, RunsHead
<1>2. run[r].cmds = {} /\ run[r].strip = {}
  BY <1>1 DEF Finish, Heading, RunsRight, Alone, IInv, RunsFit, Fits
<1>3. /\ rec \in Run /\ rec.ev = run[r].ev /\ rec.strip = run[r].strip /\ rec.pc = "done"
      /\ rec.cmds = run[r].cmds /\ rec.snap = run[r].snap /\ rec.disturbed = run[r].disturbed
  BY <1>1, CommandsAssumption DEF NewRun, Label, Run, Ended
<1> HIDE DEF rec
<1>4. \A l \in Label : WillBe(rec, labels, l) <=> WillBe(run[r], labels, l)
  BY <1>1, <1>3 DEF WillBe, Adds, Drops, Putting, Taking
<1>5. Heading(rec, labels)
  BY <1>1, <1>2, <1>3, <1>4, OnTheWay
<1>6. QED
  BY <1>1, <1>3, <1>5, QuietHead

LEMMA StepHead == IInv /\ RunsRight /\ RunsHead /\ [Next]_vars => RunsHead'
<1> SUFFICES ASSUME IInv, RunsRight, RunsHead, [Next]_vars PROVE RunsHead'
  OBVIOUS
<1>1. CASE UNCHANGED vars
  BY <1>1 DEF vars, RunsHead, Heading, WillBe
<1>2. ASSUME NEW r \in Slots, NEW ev \in Events, Trigger(r, ev) PROVE RunsHead'
  BY <1>2, TriggerHead
<1>3. ASSUME NEW r \in Slots, RunStep(r) PROVE RunsHead'
  BY <1>3, FetchHead, CommandHead, ApproveHead, LookupHead, CreateHead, AttachHead,
     StripHead, RemoveHead, FinishHead DEF RunStep
<1>4. QED
  BY <1>1, <1>2, <1>3 DEF Next

\* However its calls are ordered, a run that nobody disturbed leaves the labels
\* that its event asks for: the dictionary of commands, the snapshot, the labels
\* put and those taken off amount to the commands in the order they were written.
THEOREM UndisturbedRunsAreAtomic == Spec => []UndisturbedRunIsAtomic
<1>1. Init => RunsHead
  BY InitHead
<1>2. Spec => []RunsHead
  BY <1>1, StepHead, Inductive, Right, PTL DEF Spec
<1>3. IInv /\ RunsRight /\ RunsHead => UndisturbedRunIsAtomic
  <2> SUFFICES ASSUME IInv, RunsHead, RunsRight, NEW r \in Slots, run[r].pc = "done",
                      ~run[r].disturbed, run[r].ev.user \notin MixedCase
               PROVE  labels = Outcome(run[r].ev, run[r].snap)
    BY DEF UndisturbedRunIsAtomic
  <2>1. /\ run[r].ev \in Event /\ run[r].snap \in SUBSET Label /\ labels \subseteq Label
        /\ Heading(run[r], labels) /\ Alone(run[r], labels, repoLabels)
    BY FieldsTyped DEF IInv, TypeOK, RunsHead, RunsRight
  <2>2. run[r].cmds = {} /\ run[r].strip = {}
    BY <2>1 DEF Heading
  <2>3. \A l \in Label : l \in Outcome(run[r].ev, run[r].snap) <=> l \in labels
    BY <2>1, <2>2 DEF Heading, WillBe, Adds, Drops, Putting, Taking
  <2>4. Outcome(run[r].ev, run[r].snap) \subseteq Label
    BY <2>1, Outcomes
  <2>5. QED
    BY <2>1, <2>3, <2>4
<1>4. QED
  BY <1>2, <1>3, Inductive, Right, PTL

-----------------------------------------------------------------------------
(* The size label: for any sizes and any number of pushes, however they    *)
(* kill the run in progress, never two of them.  The run in progress is    *)
(* the only writer, so its snapshot, less what it has looked at, is the    *)
(* truth.                                                                  *)

SnapshotIsTrue == pc \in {"measure", "sweep"} => todo = sizeLabels

AllEqual == \A l, m \in sizeLabels : l = m

SizeInv == SizeTypeOK /\ SnapshotIsTrue /\ AllEqual

\* Whatever the size, one of the six labels.
LEMMA SizeLabelTyped == ASSUME NEW n \in Nat PROVE GetSizeLabel(n) \in SizeLabels
<1> DEFINE range == <<<<0, 20>>, <<21, 50>>, <<51, 100>>, <<101, 300>>, <<301, 1000>>>>
<1> DEFINE fits == {i \in DOMAIN range : range[i][1] <= n /\ n <= range[i][2]}
<1> DEFINE first == CHOOSE i \in fits : \A j \in fits : i <= j
<1>1. DOMAIN range = 1..5 /\ DOMAIN SizeNames = 1..6
  BY DEF SizeNames
<1>2. CASE fits = {}
  <2>1. GetSizeLabel(n) = SizeNames[6]
    BY <1>2 DEF GetSizeLabel, SizeNames
  <2>2. QED
    BY <1>1, <2>1 DEF SizeLabels
<1>3. CASE fits # {}
  <2>1. \E i \in fits : \A j \in fits : i <= j
    <3>1. fits \subseteq 1..5
      BY <1>1
    <3>2. QED
      BY <1>3, <3>1, SMT
  <2>2. first \in 1..5
    BY <1>1, <2>1
  <2>3. GetSizeLabel(n) = SizeNames[first]
    BY <1>3 DEF GetSizeLabel
  <2>4. SizeNames[first] \in SizeLabels
    <3> HIDE DEF first
    <3>1. first \in DOMAIN SizeNames
      BY <1>1, <2>2
    <3>2. QED
      BY <3>1, Zenon DEF SizeLabels
  <2>5. QED
    BY <2>3, <2>4
<1>4. QED
  BY <1>2, <1>3

LEMMA InitSize == SizeInit => SizeInv
<1>1. "xs" \in SizeLabels
  <2>1. 1 \in DOMAIN SizeNames /\ SizeNames[1] = "xs"
    BY DEF SizeNames
  <2>2. QED
    BY <2>1 DEF SizeLabels
<1>2. QED
  BY <1>1, PushesAssumption DEF SizeInit, SizeInv, SizeTypeOK, SnapshotIsTrue, AllEqual

LEMMA StepSize == SizeInv /\ [SizeNext]_sizeVars => SizeInv'
<1> SUFFICES ASSUME SizeInv, [SizeNext]_sizeVars PROVE SizeInv'
  OBVIOUS
<1> USE DEF SizeInv, SizeTypeOK, SnapshotIsTrue, AllEqual
<1>1. CASE UNCHANGED sizeVars
  BY <1>1 DEF sizeVars
<1>2. CASE Push
  BY <1>2, PushesAssumption DEF Push
<1>3. CASE Cancel
  BY <1>3 DEF Cancel
<1>4. CASE Start
  BY <1>4 DEF Start
<1>5. CASE Measure
  BY <1>5, SizeLabelTyped, SizesAssumption DEF Measure
<1>6. CASE AlreadySet
  BY <1>6 DEF AlreadySet
<1>7. CASE RemoveOther
  BY <1>7 DEF RemoveOther
<1>8. CASE AddLabel
  <2>1. sizeLabels = {}
    BY <1>8 DEF AddLabel
  <2>2. sizeLabels' = {chosen}
    BY <1>8, <2>1 DEF AddLabel
  <2>3. QED
    BY <1>8, <2>2 DEF AddLabel
<1>9. QED
  BY <1>1, <1>2, <1>3, <1>4, <1>5, <1>6, <1>7, <1>8 DEF SizeNext, SizeRun

\* Type correctness, with it that no label is removed that is not there.
THEOREM SizeTypeCorrect == SizeSpec => []SizeTypeOK
<1>1. SizeInv => SizeTypeOK
  BY DEF SizeInv
<1>2. QED
  BY <1>1, InitSize, StepSize, PTL DEF SizeSpec

\* No order of pushes and cancelled runs leaves two size labels.
THEOREM OneSizeLabel == SizeSpec => []AtMostOneSizeLabel
<1>1. SizeInv => AtMostOneSizeLabel
  <2> SUFFICES ASSUME SizeInv PROVE Cardinality(sizeLabels) <= 1
    BY DEF AtMostOneSizeLabel
  <2>1. CASE sizeLabels = {}
    BY <2>1, FS_EmptySet
  <2>2. CASE sizeLabels # {}
    <3>1. PICK l \in sizeLabels : sizeLabels = {l}
      BY <2>2 DEF SizeInv, AllEqual
    <3>2. Cardinality({l}) = 1
      BY FS_Singleton
    <3>3. QED
      BY <3>1, <3>2
  <2>3. QED
    BY <2>1, <2>2
<1>2. QED
  BY <1>1, InitSize, StepSize, PTL DEF SizeSpec
=============================================================================
