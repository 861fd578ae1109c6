------------------------------ MODULE PrLabeler ------------------------------
(***************************************************************************)
(* The pull-request bot of .github/workflows: every push, comment and      *)
(* review starts a run of scripts/pr_workflow.py with the action           *)
(* "add-remove-labels".  add-remove-labels.yml and on-review-add-label.yml *)
(* set no concurrency group, so the runs of one pull request overlap       *)
(* freely.  A run reads the labels once, when PyGithub fetches the pull    *)
(* request, decides everything from that snapshot and writes back with one *)
(* REST call per label.                                                    *)
(*                                                                         *)
(* A label is a pair <<kind, user>>; a label that names nobody carries     *)
(* Nobody.  The colour of a repository label is not modelled.              *)
(***************************************************************************)
EXTENDS Naturals, Sequences

CONSTANTS
    Users,          \* GitHub logins that push, comment and review
    Author,         \* the login that opened the pull request
    Members,        \* logins in the team opendatahub-tests-contributors
    MixedCase,      \* logins spelt with a capital letter
    Nobody,         \* stands in a label that names no user
    PlainCommands,  \* SUPPORTED_LABELS other than /lgtm
    Bodies,         \* comment bodies: sequences of [cmd, cancel] commands
    WelcomeBody,    \* the commands that WELCOME_COMMENT quotes
    RepoLabels,     \* labels the repository knows at the start
    Slots,          \* runs that may be alive at once
    MaxEvents       \* bound: events in one behaviour

Commands  == PlainCommands \cup {"lgtm"}
Token     == [cmd : Commands, cancel : BOOLEAN]
VoteKinds == {"lgtm-by", "changes-requested-by", "commented-by"}
Label     == (PlainCommands \X {Nobody}) \cup (VoteKinds \X Users)

ASSUME UsersAssumption ==
    Author \in Users /\ Members \subseteq Users /\ MixedCase \subseteq Users /\ Nobody \notin Users
ASSUME CommandsAssumption ==
    "lgtm" \notin PlainCommands /\ "verified" \in PlainCommands
ASSUME BodiesAssumption == WelcomeBody \in Bodies /\ \A b \in Bodies : b \in Seq(Token)
ASSUME LabelsAssumption == RepoLabels \subseteq Label
ASSUME BoundAssumption == MaxEvents \in Nat

-----------------------------------------------------------------------------
(* Events, as the workflows hand them to the script in its environment.    *)
(*                                                                         *)
(* WELCOME_COMMENT ends in the text of a set of strings, whose order is    *)
(* that of the interpreter that prints it.  A comment that quotes it is a  *)
(* "welcome" to the run whose interpreter has the set in the same order,   *)
(* and "reordered" to any other; which of the two, nobody chooses.  No     *)
(* text is "none", any other text is "user".                               *)

Event == [kind : {"none", "synchronize", "comment", "review"},
          user : Users,                      \* the sender
          deleted : BOOLEAN,                 \* of a comment; "edited" acts like "created"
          body : Bodies \cup {<<>>},         \* the commands of a comment
          state : {"none", "approved", "changes_requested", "commented"},
          text : {"none", "user", "welcome", "reordered"}]

NoEvent == [kind |-> "none", user |-> Author, deleted |-> FALSE,
            body |-> <<>>, state |-> "none", text |-> "none"]

IsPush(e) ==
    /\ e.kind = "synchronize"
    /\ ~e.deleted /\ e.body = <<>> /\ e.state = "none" /\ e.text = "none"

IsComment(e) ==
    /\ e.kind = "comment" /\ e.state = "none"
    /\ e.text = "user" \/ (e.text \in {"welcome", "reordered"} /\ e.body = WelcomeBody)

\* GitHub lets the author of a pull request comment on it but not judge it.
IsReview(e) ==
    /\ e.kind = "review" /\ e.state # "none" /\ e.text \in {"none", "user"}
    /\ e.user = Author => e.state = "commented"
    /\ ~e.deleted /\ e.body = <<>>

Events == {e \in Event : IsPush(e) \/ IsComment(e) \/ IsReview(e)}

-----------------------------------------------------------------------------
VARIABLES
    labels,       \* labels on the pull request
    repoLabels,   \* labels defined in the repository
    botApproved,  \* an approving review by the bot account stands
    run,          \* the workflow runs
    events,       \* events so far
    asked,        \* history: labels some event had the right to ask for
    askedNow,     \* history: those of them asked for since the last push
    approvalAsked \* history: somebody had the right to the bot's approval

vars == <<labels, repoLabels, botApproved, run, events, asked, askedNow, approvalAsked>>
github == <<labels, repoLabels, botApproved>>
history == <<events, asked, askedNow, approvalAsked>>

Ended == {"idle", "done", "crashed"}
Calling == {"approve", "lookup", "create", "attach", "remove"}

Run == [pc : Ended \cup Calling \cup {"queued", "strip", "comment"},
        ev : Events \cup {NoEvent},
        snap : SUBSET Label,      \* self.pr.labels, read once
        strip : SUBSET Label,     \* labels a push or a review has still to take off
        cmds : SUBSET Token,      \* commands a comment run has still to do, in any order
        label : Label,            \* label the pending REST calls are about
        undo : BOOLEAN,           \* the command in hand takes its label off
        disturbed : BOOLEAN]      \* history: another run wrote since the snapshot

NewRun == [pc |-> "idle", ev |-> NoEvent, snap |-> {}, strip |-> {}, cmds |-> {},
           label |-> <<"verified", Nobody>>, undo |-> FALSE, disturbed |-> FALSE]

Init == /\ labels = {} /\ repoLabels = RepoLabels /\ botApproved = FALSE
        /\ run = [r \in Slots |-> NewRun]
        /\ events = 0
        /\ asked = {} /\ askedNow = {} /\ approvalAsked = FALSE

-----------------------------------------------------------------------------
(* What a run decides from its event and its snapshot.                     *)

\* Fault: the label of /lgtm is not renamed after its user.
TargetNotRenamed(cmd, u) == <<cmd, Nobody>>

\* The label a command is about; /lgtm becomes a label of the commenter.
Target(cmd, u) == IF cmd = "lgtm" THEN <<"lgtm-by", u>> ELSE <<cmd, Nobody>>

\* Fault: the first of several commands about a label is kept.
RequestedFirst(body) ==
    {body[i] : i \in {j \in DOMAIN body :
                        \A k \in DOMAIN body : k < j => body[k].cmd # body[j].cmd}}

\* The dictionary built from the matches: a later command replaces an earlier one.
Requested(body) ==
    {body[i] : i \in {j \in DOMAIN body :
                        \A k \in DOMAIN body : k > j => body[k].cmd # body[j].cmd}}

\* Labels a push invalidates.
Sticky(l) == l[1] = "verified" \/ l[1] \in VoteKinds

\* Fault: everybody passes the membership test.
AnybodyAllowed(u) == TRUE

VerifyAllowedUser(u) == u \in Members

\* verify_labeler_config leaves when a comment or review carries no text.
HasText(ev) == ev.kind = "synchronize" \/ ev.text # "none"

\* The bot's own welcome comment quotes every command.  It is looked for as
\* this run's interpreter spells it.
QuotesWelcome(ev) == ev.text = "welcome"

\* Fault: the author's own /lgtm is not left out.
OwnApprovalMissed(cmd, u) == FALSE

OwnApproval(cmd, u) == cmd = "lgtm" /\ u = Author

Undoes(c, ev) == c.cancel \/ ev.deleted

\* Fault: the command is compared after it was renamed after its user.
ApprovesRenamed(c, ev) == Target(c.cmd, ev.user)[1] = "lgtm" /\ ~c.cancel

\* Deleting a comment approves too, even one that held "/lgtm cancel".
Approves(c, ev) == c.cmd = "lgtm" /\ (~c.cancel \/ ev.deleted)

\* Fault: a cancelled label is taken off without looking whether it is there.
LabelInPrAssumed(l, snap) == TRUE

\* `label == _label.lower()`: a label with a capital letter is never found.
LabelInPr(l, snap) == l \in snap /\ ~(l[1] = "lgtm-by" /\ l[2] \in MixedCase)

ReviewLabelToAdd(ev) ==
    <<CASE ev.state = "approved" -> "lgtm-by"
        [] ev.state = "changes_requested" -> "changes-requested-by"
        [] OTHER -> "commented-by", ev.user>>

ReviewLabelToRemove(ev) ==
    CASE ev.state = "approved" -> {<<"changes-requested-by", ev.user>>}
      [] ev.state = "changes_requested" -> {<<"lgtm-by", ev.user>>}
      [] OTHER -> {}

\* The labels an event may leave behind, whatever was on the pull request.
Wanted(ev) ==
    LET entitled == ev.user \in Members /\ ~QuotesWelcome(ev) IN
    CASE entitled /\ ev.kind = "comment" /\ ev.body = <<>> -> {<<"commented-by", ev.user>>}
      [] entitled /\ ev.kind = "comment" /\ ev.body # <<>> /\ ~ev.deleted ->
            {Target(c.cmd, ev.user) :
                c \in {d \in Requested(ev.body) : ~d.cancel /\ ~(d.cmd = "lgtm" /\ ev.user = Author)}}
      [] entitled /\ ev.kind = "review" /\ HasText(ev) -> {ReviewLabelToAdd(ev)}
      [] OTHER -> {}

\* Events that may make the bot approve.
MayApprove(ev) ==
    /\ ev.kind = "comment" /\ ~QuotesWelcome(ev) /\ ev.user \in Members \ {Author}
    /\ \E c \in Requested(ev.body) : c.cmd = "lgtm" /\ (~c.cancel \/ ev.deleted)

-----------------------------------------------------------------------------
(* A write to GitHub is seen by nobody else: the other runs keep their     *)
(* snapshots.  Step moves a run, Write moves it after a write.             *)

Step(r, rec) == run' = [run EXCEPT ![r] = rec]

Write(r, rec) ==
    run' = [q \in Slots |->
              CASE q = r -> rec
                [] q # r /\ run[q].pc \in {"idle", "queued"} -> run[q]
                [] OTHER -> [run[q] EXCEPT !.disturbed = TRUE]]

\* Where a run goes when the calls for its current label are over.
Resume(rec) == [rec EXCEPT !.pc = IF rec.ev.kind = "comment" THEN "comment" ELSE "strip"]

\* add_pr_label, remove_from_labels or nothing, by the snapshot.
Relabel(rec) ==
    CASE rec.undo /\ LabelInPr(rec.label, rec.snap) -> [rec EXCEPT !.pc = "remove"]
      [] ~rec.undo /\ ~LabelInPr(rec.label, rec.snap) -> [rec EXCEPT !.pc = "lookup"]
      [] OTHER -> Resume(rec)

\* GitHub starts a run for an event, in a slot no live run holds.
Trigger(r, ev) ==
    /\ events < MaxEvents
    /\ run[r].pc \in Ended
    /\ Step(r, [NewRun EXCEPT !.pc = "queued", !.ev = ev])
    /\ events' = events + 1
    /\ asked' = asked \cup Wanted(ev)
    /\ askedNow' = IF ev.kind = "synchronize" THEN {} ELSE askedNow \cup Wanted(ev)
    /\ approvalAsked' = (approvalAsked \/ MayApprove(ev))
    /\ UNCHANGED github

\* PrLabeler.__init__ fetches the pull request; what follows works on that snapshot.
Fetched(r) == [run[r] EXCEPT !.snap = labels]

Served(r) ==
    /\ run[r].pc = "queued"
    /\ HasText(run[r].ev) /\ VerifyAllowedUser(run[r].ev.user) /\ ~QuotesWelcome(run[r].ev)

\* add_pr_label unless the snapshot has the label already.
AddUnlessThere(r, l, rec) ==
    Step(r, IF l \in labels THEN Resume(rec) ELSE [rec EXCEPT !.pc = "lookup", !.label = l])

FetchRefused(r) ==
    /\ run[r].pc = "queued" /\ ~Served(r)
    /\ Step(r, [Fetched(r) EXCEPT !.pc = "done"])
    /\ UNCHANGED <<github, history>>

FetchOnPush(r) ==
    /\ Served(r) /\ run[r].ev.kind = "synchronize"
    /\ Step(r, [Fetched(r) EXCEPT !.pc = "strip", !.strip = {l \in labels : Sticky(l)}])
    /\ UNCHANGED <<github, history>>

FetchOnReview(r) ==
    /\ Served(r) /\ run[r].ev.kind = "review"
    /\ AddUnlessThere(r, ReviewLabelToAdd(run[r].ev),
                      [Fetched(r) EXCEPT !.strip = ReviewLabelToRemove(run[r].ev) \cap labels])
    /\ UNCHANGED <<github, history>>

FetchOnComment(r) ==
    /\ Served(r) /\ run[r].ev.kind = "comment"
    /\ IF run[r].ev.body = <<>>
       THEN AddUnlessThere(r, <<"commented-by", run[r].ev.user>>, Fetched(r))
       ELSE Step(r, [Fetched(r) EXCEPT !.pc = "comment", !.cmds = Requested(run[r].ev.body)])
    /\ UNCHANGED <<github, history>>

\* One turn of the loop over the commands of a comment: the author's own
\* /lgtm is passed over ...
SkipCommand(r, c) ==
    /\ run[r].pc = "comment" /\ c \in run[r].cmds
    /\ OwnApproval(c.cmd, run[r].ev.user)
    /\ Step(r, [run[r] EXCEPT !.cmds = @ \ {c}])
    /\ UNCHANGED <<github, history>>

\* ... any other command approves, if it has to, and then sees to its label.
\* The call of dismiss_pr_approval cannot be reached: it is guarded by
\* label == "lgtm", and by then /lgtm has become the label "lgtm-by-<user>".
Command(r, c) ==
    LET rec == [run[r] EXCEPT !.cmds = @ \ {c}, !.label = Target(c.cmd, run[r].ev.user),
                              !.undo = Undoes(c, run[r].ev)]
    IN
    /\ run[r].pc = "comment" /\ c \in run[r].cmds
    /\ ~OwnApproval(c.cmd, run[r].ev.user)
    /\ Step(r, IF Approves(c, run[r].ev) THEN [rec EXCEPT !.pc = "approve"] ELSE Relabel(rec))
    /\ UNCHANGED <<github, history>>

\* approve_pr: the bot posts an approving review, then goes on with the label.
ApprovePr(r) ==
    /\ run[r].pc = "approve"
    /\ botApproved' = TRUE
    /\ Step(r, Relabel(run[r]))
    /\ UNCHANGED <<labels, repoLabels, history>>

\* Fault: the label is attached without being defined.
LookupSkipped(r) ==
    /\ run[r].pc = "lookup"
    /\ Step(r, [run[r] EXCEPT !.pc = "attach"])
    /\ UNCHANGED <<github, history>>

\* set_label_in_repository: get_label either finds the label ...
LookupLabel(r) ==
    /\ run[r].pc = "lookup"
    /\ Step(r, [run[r] EXCEPT !.pc = IF run[r].label \in repoLabels THEN "attach" ELSE "create"])
    /\ UNCHANGED <<github, history>>

\* ... or the run creates it, which GitHub refuses if another run has just done so.
CreateLabel(r) ==
    /\ run[r].pc = "create"
    /\ IF run[r].label \in repoLabels
       THEN Step(r, [run[r] EXCEPT !.pc = "crashed"]) /\ UNCHANGED repoLabels
       ELSE /\ repoLabels' = repoLabels \cup {run[r].label}
            /\ Write(r, [run[r] EXCEPT !.pc = "attach"])
    /\ UNCHANGED <<labels, botApproved, history>>

\* add_to_labels.
AttachLabel(r) ==
    /\ run[r].pc = "attach"
    /\ labels' = labels \cup {run[r].label}
    /\ Write(r, Resume(run[r]))
    /\ UNCHANGED <<repoLabels, botApproved, history>>

\* The next label of a push or review to take off.
StripLabel(r, l) ==
    /\ run[r].pc = "strip" /\ l \in run[r].strip
    /\ Step(r, [run[r] EXCEPT !.strip = @ \ {l}, !.label = l, !.pc = "remove"])
    /\ UNCHANGED <<github, history>>

\* remove_from_labels: GitHub answers 404 for a label that is not there, and
\* nothing in the script catches it: the run ends with the rest undone.
RemoveLabel(r) ==
    /\ run[r].pc = "remove"
    /\ IF run[r].label \in labels
       THEN /\ labels' = labels \ {run[r].label}
            /\ Write(r, Resume(run[r]))
       ELSE /\ Step(r, [run[r] EXCEPT !.pc = "crashed"])
            /\ UNCHANGED labels
    /\ UNCHANGED <<repoLabels, botApproved, history>>

Finish(r) ==
    /\ \/ run[r].pc = "comment" /\ run[r].cmds = {}
       \/ run[r].pc = "strip" /\ run[r].strip = {}
    /\ Step(r, [run[r] EXCEPT !.pc = "done", !.label = NewRun.label, !.undo = FALSE])
    /\ UNCHANGED <<github, history>>

RunStep(r) ==
    \/ FetchRefused(r) \/ FetchOnPush(r) \/ FetchOnReview(r) \/ FetchOnComment(r)
    \/ ApprovePr(r) \/ LookupLabel(r) \/ CreateLabel(r) \/ AttachLabel(r)
    \/ RemoveLabel(r) \/ Finish(r)
    \/ \E c \in run[r].cmds : SkipCommand(r, c) \/ Command(r, c)
    \/ \E l \in run[r].strip : StripLabel(r, l)

Next == \E r \in Slots : (\E ev \in Events : Trigger(r, ev)) \/ RunStep(r)

Spec == Init /\ [][Next]_vars

-----------------------------------------------------------------------------
(* Type invariant.                                                         *)
TypeOK ==
    /\ labels \subseteq Label /\ repoLabels \subseteq Label
    /\ botApproved \in BOOLEAN
    /\ run \in [Slots -> Run]
    /\ events \in 0..MaxEvents
    /\ asked \subseteq Label /\ askedNow \subseteq asked
    /\ approvalAsked \in BOOLEAN

\* Every label on the pull request was asked for by an event whose sender may
\* ask for it: a team member, for their own vote, never the author for an
\* approval, and not in a text the run knows as the welcome comment.  (One
\* that only another interpreter would know asks for all it lists.)
LabelsWereAsked == labels \subseteq asked

\* The bot's approval stands only if a member other than the author sent a
\* comment event about /lgtm (writing it, or deleting it: see Approves), in a
\* text the run does not know as the welcome comment.
ApprovalWasAsked == botApproved => approvalAsked

\* A label is attached only once the repository defines it, although the run
\* that creates it and the run that attaches it may be different ones.
AttachedLabelsExist == labels \subseteq repoLabels

\* A run dies on an unhandled GithubException only if some other run wrote
\* after it took its snapshot: alone, no call it makes can be refused.
CrashNeedsDisturbance ==
    \A r \in Slots : run[r].pc = "crashed" => run[r].disturbed

\* What the commands of an event amount to when they are obeyed one after the
\* other, in the order they are written, on the labels the run found.
Obey(S, c, ev) ==
    IF OwnApproval(c.cmd, ev.user) THEN S
    ELSE IF c.cancel \/ ev.deleted THEN S \ {Target(c.cmd, ev.user)}
    ELSE S \cup {Target(c.cmd, ev.user)}

Obeyed(ev, S) ==
    LET after[n \in 0..Len(ev.body)] ==
            IF n = 0 THEN S ELSE Obey(after[n - 1], ev.body[n], ev)
    IN  after[Len(ev.body)]

Outcome(ev, S) ==
    LET served == ev.user \in Members /\ ~QuotesWelcome(ev) IN
    CASE served /\ ev.kind = "synchronize" -> {l \in S : ~Sticky(l)}
      [] served /\ ev.kind = "comment" /\ ev.body = <<>> -> S \cup {<<"commented-by", ev.user>>}
      [] served /\ ev.kind = "comment" /\ ev.body # <<>> -> Obeyed(ev, S)
      [] served /\ ev.kind = "review" /\ HasText(ev) ->
            (S \cup {ReviewLabelToAdd(ev)}) \ ReviewLabelToRemove(ev)
      [] OTHER -> S

\* A run nobody disturbed has the effect of one atomic step: however its calls
\* are ordered, the pull request carries what the event asks for, the last of
\* several commands about one label winning.  (Not for a capitalised login.)
UndisturbedRunIsAtomic ==
    \A r \in Slots :
        run[r].pc = "done" /\ ~run[r].disturbed /\ run[r].ev.user \notin MixedCase
            => labels = Outcome(run[r].ev, run[r].snap)

\* A member's /lgtm has the bot's approval once its run is over, unless the run
\* died first on another command of the same comment: nothing takes it back.
LgtmIsApproved ==
    \A r \in Slots :
        run[r].pc = "done" /\ MayApprove(run[r].ev) /\ ~run[r].ev.deleted => botApproved

\* pr_workflow.py: "Welcome message found in PR ... Not processing": a comment
\* that quotes the welcome comment changes nothing.
WelcomeAsksForNothing ==
    \A r \in Slots :
        run[r].pc = "done" /\ ~run[r].disturbed /\ run[r].ev.text \in {"welcome", "reordered"}
            => labels = run[r].snap

Quiescent == \A r \in Slots : run[r].pc \in Ended

\* constants.py: "`lgtm` label removed on each new commit push", "`verified`
\* label removed on each new commit push".
PushClearsVotes == Quiescent => {l \in labels : Sticky(l)} \subseteq askedNow

\* constants.py: "To mark a PR as approved, add `/lgtm` in a comment.  To
\* remove, add `/lgtm cancel`": when a cancellation has taken the last /lgtm
\* label off, the approval goes with it.
CancelRevokesApproval ==
    \A r \in Slots :
        /\ run[r].pc = "done" /\ ~run[r].disturbed
        /\ run[r].ev.kind = "comment" /\ run[r].ev.user \in Members \ {Author}
        /\ ~run[r].ev.deleted /\ run[r].ev.text = "user"
        /\ [cmd |-> "lgtm", cancel |-> TRUE] \in Requested(run[r].ev.body)
        /\ <<"lgtm-by", run[r].ev.user>> \in run[r].snap
        /\ botApproved
        => \E u \in Users : <<"lgtm-by", u>> \in labels

\* docs/GITHUB_WORKFLOWS.md: "To remove a label, add `/<label name> cancel`".
CancelRemovesLabel ==
    \A r \in Slots :
        /\ run[r].pc = "done" /\ ~run[r].disturbed
        /\ run[r].ev.kind = "comment" /\ run[r].ev.user \in Members \ {Author}
        /\ ~run[r].ev.deleted /\ run[r].ev.text = "user"
        => \A c \in Requested(run[r].ev.body) :
              c.cancel => Target(c.cmd, run[r].ev.user) \notin labels
=============================================================================
