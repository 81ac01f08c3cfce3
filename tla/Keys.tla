-------------------------------- MODULE Keys --------------------------------
(***************************************************************************)
(* How the pane adapters of context cycles enter a command                 *)
(* (internal/core/cycle_claude.go, cycle_codex.go, cycle_agy.go and        *)
(* cycle_grok.go): text is typed into the input line of another program,   *)
(* read back, and submitted with one Enter or erased again, while its user *)
(* types, submits, gets dialogs, and the cycle's fence may fall.           *)
(*                                                                         *)
(* A key takes its steps one by one: the fence and the look at the screen, *)
(* before a clear's Enter the turns since the ready report, then the key.  *)
(* The user and the program may act between any two of them, so a key can  *)
(* meet a pane that differs from the one that was looked at.               *)
(***************************************************************************)
EXTENDS Naturals, Sequences

CONSTANTS
    KeyFamilies,    \* subset of {"claude", "codex", "agy", "grok"}
    MaxUser         \* bound: what the user and the program do meanwhile

ASSUME KeysAssumption ==
    KeyFamilies \subseteq {"claude", "codex", "agy", "grok"} /\ MaxUser \in Nat

VARIABLES
    pane,   \* the pane: input line, menu, dialog, turn, and the fence of the cycle
    op,     \* the input under way: family, command, step, error to return, result
    key,    \* the key under way: none, its last reads, or about to be sent
    window, \* whether the user or a dialog touched the pane since the look
    hist,   \* what the adapter submitted, erased and answered, who ran the command,
            \* and whether one of those keys met a pane that was touched
    acts    \* steps of the user and the program so far

keyVars == <<pane, op, key, window, hist, acts>>

-----------------------------------------------------------------------------
(* Readiness: the first obstacle that a look at the pane finds, or "" *)

FirstOf(checks) ==
    LET bad == {i \in DOMAIN checks : checks[i][1]}
    IN IF bad = {} THEN "" ELSE checks[CHOOSE i \in bad : \A j \in bad : i <= j][2]

\* claudeQuiet and codexQuiet refuse a turn; a record that cannot be read is not quiet.
ClaudeQuiet(p) == IF p.turn THEN {"turn_after_ready"} ELSE {"", "turn_after_ready"}
CodexQuiet(p) == ClaudeQuiet(p)
AgyQuiet(p) == {IF p.turn THEN "turn_after_ready" ELSE "", "history_unread"}
GrokTurns(p) == AgyQuiet(p)
GrokQuiet(p) == IF p.queued THEN {"input_queued"} ELSE GrokTurns(p)

\* The record that a family's clear reads once more before its Enter.
Quiet(f, p) ==
    CASE f = "claude" -> ClaudeQuiet(p)
      [] f = "codex" -> CodexQuiet(p)
      [] f = "agy" -> AgyQuiet(p)
      [] f = "grok" -> GrokTurns(p)

ClaudePaneState(p) ==
    FirstOf(<< <<p.running, "status_busy">>, <<p.dialog # 0, "input_line_not_found">>,
               <<p.line # "empty", "input_not_empty">> >>)

CodexNotReady(p) ==
    FirstOf(<< <<p.dialog # 0, "native_dialog">>, <<p.line # "empty", "input_not_empty">>,
               <<p.running, "turn_not_ended">>, <<p.turn, "turn_after_ready">> >>)

AgyNotReady(p) ==
    FirstOf(<< <<p.dialog # 0, "native_dialog">>, <<p.line # "empty", "input_not_empty">>,
               <<p.menu # "none", "menu_open">>, <<p.running, "turn_running">> >>)

GrokNotReady(p) ==
    FirstOf(<< <<AgyNotReady(p) # "", AgyNotReady(p)>>, <<p.queued, "input_queued">> >>)

\* Inspect: the screen, then, before the clear, the turns since the ready report.
ClaudeInspect(p) ==
    IF p.dialog # 0 THEN {"native_dialog"}
    ELSE IF ClaudePaneState(p) # "" THEN {ClaudePaneState(p)} ELSE ClaudeQuiet(p)
CodexInspect(p) == {CodexNotReady(p)}
AgyInspect(p) == IF AgyNotReady(p) # "" THEN {AgyNotReady(p)} ELSE AgyQuiet(p)
GrokInspect(p) == IF GrokNotReady(p) # "" THEN {GrokNotReady(p)} ELSE GrokQuiet(p)

KeysInspect(f, p) ==
    CASE f = "claude" -> ClaudeInspect(p)
      [] f = "codex" -> CodexInspect(p)
      [] f = "agy" -> AgyInspect(p)
      [] f = "grok" -> GrokInspect(p)

\* The check of keyIf before the text is typed; Claude Code's text follows Inspect.
TypeCheck(f, p) ==
    CASE f = "claude" -> ""
      [] f = "codex" -> CodexNotReady(p)
      [] f = "agy" -> AgyNotReady(p)
      [] f = "grok" -> GrokNotReady(p)

-----------------------------------------------------------------------------
(* The steps of each family's commands *)

ClaudeCommand == <<"inspect", "type", "typed", "menu", "escape", "closed", "enter", "receipt">>
CodexCommand == <<"inspect", "type", "typed", "enter", "receipt">>
CodexPickup == <<"inspect", "type", "typed", "menu", "escape", "closed", "enter", "receipt">>
CodexCompact == <<"inspect", "type", "typed", "enter", "receipt">>
AgyCommand == <<"inspect", "type", "typed", "enter", "receipt">>
GrokCommand == <<"inspect", "type", "typed", "enter", "receipt">>

\* A digit answers a dialog at once; in agy it selects, and an Enter confirms it.
ClaudeChoose == <<"digit", "gone">>
CodexChoose == <<"digit", "gone">>
GrokChoose == <<"digit", "gone">>
AgyChoose == <<"select", "selected", "confirm", "gone">>

Program(f, c) ==
    CASE f = "claude" /\ c = "choose" -> ClaudeChoose
      [] f = "codex" /\ c = "choose" -> CodexChoose
      [] f = "agy" /\ c = "choose" -> AgyChoose
      [] f = "grok" /\ c = "choose" -> GrokChoose
      [] f = "claude" /\ c # "choose" -> ClaudeCommand
      [] f = "codex" /\ c = "clear" -> CodexCommand
      [] f = "codex" /\ c = "pickup" -> CodexPickup
      [] f = "codex" /\ c = "compact" -> CodexCompact
      [] f = "agy" /\ c # "choose" -> AgyCommand
      [] OTHER -> GrokCommand

Commands(f) == {"clear", "pickup", "choose"} \cup (IF f = "codex" THEN {"compact"} ELSE {})

\* A dialog hides the input line.
Shows(p, text) == p.dialog = 0 /\ p.line = text

\* The line holds exactly the command; agy and Grok also need its row in the menu.
AgyMenuReady(p) == Shows(p, "ours") /\ (op.cmd = "pickup" => p.menu = "row")
GrokMenuReady(p) == Shows(p, "ours") /\ p.menu = "row"

Typed(p) ==
    CASE op.fam = "agy" -> AgyMenuReady(p)
      [] op.fam = "grok" -> GrokMenuReady(p)
      [] OTHER -> Shows(p, "ours")

\* The refusals that say that nothing was entered (unsentRefusal).
UnsentCodes == {"turn_after_ready", "history_unread", "input_queued"}

Running == op.res = "" /\ op.fam # "none"
Step == IF op.err # "" THEN op.clean ELSE Program(op.fam, op.cmd)[op.at]
Goto == op' = [op EXCEPT !.at = @ + 1]
Return(res) == op' = [op EXCEPT !.res = res]

\* Text that is not submitted is erased before the error is returned.
Abandon(err) == op' = [op EXCEPT !.err = err, !.clean = "erase"]

\* keyIf: the look that admits a key, and the key.
Looked(next) == key' = next /\ UNCHANGED <<op, window>>
NoKey == UNCHANGED <<key, window>>
Sent == key' = "none" /\ window' = "same"

Raced == IF window = "touched" THEN "yes" ELSE hist.raced

InspectStep ==
    /\ Running /\ Step = "inspect"
    /\ \E seen \in KeysInspect(op.fam, pane) : IF seen = "" THEN Goto ELSE Return("not_idle")
    /\ NoKey /\ UNCHANGED <<pane, hist, acts>>

\* Why nothing was typed.  Codex reads its rollout once more to tell a turn.
TypeRefusals(p) ==
    IF ~p.fence THEN {"error"}
    ELSE IF op.fam = "codex" /\ op.cmd = "clear" /\ p.turn THEN {"turn_after_ready", "error"}
    ELSE IF op.fam = "grok" /\ GrokNotReady(p) = "input_queued" THEN {"input_queued"}
    ELSE {"error"}

TypeLook ==
    /\ Running /\ Step = "type" /\ key = "none"
    /\ IF pane.fence /\ TypeCheck(op.fam, pane) = ""
       THEN Looked("send")
       ELSE NoKey /\ \E refusal \in TypeRefusals(pane) : Return(refusal)
    /\ UNCHANGED <<pane, hist, acts>>

\* An open dialog takes the keys that come.
TypeKey ==
    /\ Running /\ Step = "type" /\ key = "send"
    /\ Goto /\ Sent
    /\ pane' = IF pane.dialog # 0 THEN pane
               ELSE [pane EXCEPT !.line = IF @ = "empty" THEN "ours" ELSE "mixed"]
    /\ UNCHANGED <<hist, acts>>

\* await: the screen shows it in time, or not.
AwaitStep ==
    /\ Running
    /\ \/ Step = "typed" /\ ((Typed(pane) /\ Goto) \/ Abandon("error"))
       \/ /\ Step = "menu"
          /\ \/ /\ IF op.cmd = "clear" THEN "" \in ClaudeQuiet(pane) ELSE pane.menu = "row"
                /\ Goto
             \/ Abandon(IF op.cmd = "clear" THEN "turn_after_ready" ELSE "error")
       \/ Step = "closed" /\ ((Typed(pane) /\ pane.menu = "none" /\ Goto) \/ Abandon("error"))
       \/ Step = "receipt" /\ ((Shows(pane, "empty") /\ Return("ok")) \/ Return("error"))
    /\ NoKey /\ UNCHANGED <<pane, hist, acts>>

\* An Escape cancels a dialog, closes the menu or interrupts a turn.
Escaped(p) ==
    IF p.dialog # 0 THEN [p EXCEPT !.dialog = 0, !.selected = FALSE]
    ELSE IF p.menu # "none" THEN [p EXCEPT !.menu = "none"]
    ELSE [p EXCEPT !.running = FALSE]

\* Only the fence admits the Escape: no look at the screen goes before it.
EscapeStep ==
    /\ Running /\ Step = "escape"
    /\ IF pane.fence
       THEN Goto /\ pane' = Escaped(pane)
       ELSE Abandon("error") /\ UNCHANGED pane
    /\ NoKey /\ UNCHANGED <<hist, acts>>

\* Mutant of MayEnter: the line is not read again before the Enter.
MayEnterUnread(p) == TRUE

MayEnter(p) ==
    Typed(p) /\ (op.fam = "claude" \/ (op.fam = "codex" /\ op.cmd = "pickup") => p.menu = "none")

\* The fence, the line, and for Grok's clear its queue, which the same screen shows.
EnterLook ==
    /\ Running /\ Step = "enter" /\ key = "none"
    /\ IF ~pane.fence \/ ~MayEnter(pane)
       THEN NoKey /\ Abandon(IF op.cmd = "compact" THEN "unsubmitted" ELSE "error")
       ELSE IF op.cmd = "clear" /\ op.fam = "grok" /\ pane.queued THEN NoKey /\ Abandon("input_queued")
       ELSE Looked(IF op.cmd = "clear" THEN "final" ELSE "send")
    /\ UNCHANGED <<pane, hist, acts>>

\* final of a clear: the turns since the ready report, after the look at the line.
FinalRead ==
    /\ Running /\ Step = "enter" /\ key = "final"
    /\ \E seen \in Quiet(op.fam, pane) :
         IF seen = "" THEN Looked("send") ELSE Abandon(seen) /\ Sent
    /\ UNCHANGED <<pane, hist, acts>>

\* What an Enter at the line does: a command that stands there runs, a draft starts a turn,
\* in Grok through its queue.
Entered(p) ==
    IF p.line \in {"empty", "ours"} THEN [p EXCEPT !.line = "empty", !.menu = "none"]
    ELSE IF op.fam = "grok" THEN [p EXCEPT !.line = "empty", !.menu = "none", !.queued = TRUE]
    ELSE [p EXCEPT !.line = "empty", !.menu = "none", !.turn = TRUE, !.running = TRUE]

\* An adapter's Enter or digit that meets a dialog answers it.
DialogAnswered(p) == [p EXCEPT !.dialog = 0, !.selected = FALSE]
AnswerOf(p) == IF op.cmd = "choose" /\ p.dialog = 1 THEN "chosen" ELSE "other"

EnterKey ==
    /\ Running /\ Step \in {"enter", "confirm"} /\ key = "send"
    /\ Goto /\ Sent
    /\ IF pane.dialog # 0
       THEN /\ pane' = DialogAnswered(pane)
            /\ hist' = [hist EXCEPT !.answered = AnswerOf(pane), !.raced = Raced]
       ELSE /\ pane' = Entered(pane)
            /\ hist' = [hist EXCEPT !.sent = IF pane.line = "empty" THEN @ ELSE pane.line,
                                    !.ran = IF pane.line = "ours" THEN "adapter" ELSE @, !.raced = Raced]
    /\ UNCHANGED acts

MayErase(p) == Shows(p, "ours")

\* erase: only exactly the text that was typed.
EraseLook ==
    /\ Running /\ Step = "erase" /\ key = "none"
    /\ IF pane.fence /\ MayErase(pane)
       THEN Looked("send")
       ELSE NoKey /\ op' = [op EXCEPT !.clean = "unerased"]
    /\ UNCHANGED <<pane, hist, acts>>

\* C-u clears a line whatever it holds; the Backspaces of the others may leave some of it.
Leftovers(line) ==
    IF line \in {"draft", "mixed"} /\ op.fam \in {"claude", "codex"} THEN {"empty", "draft"} ELSE {"empty"}

EraseKey ==
    /\ Running /\ Step = "erase" /\ key = "send"
    /\ op' = [op EXCEPT !.clean = "erased"] /\ Sent
    /\ IF pane.dialog # 0
       THEN hist' = [hist EXCEPT !.raced = Raced] /\ UNCHANGED pane
       ELSE /\ \E left \in Leftovers(pane.line) : pane' = [pane EXCEPT !.line = left, !.menu = "none"]
            /\ hist' = [hist EXCEPT !.erased = IF pane.line = "empty" THEN @ ELSE pane.line, !.raced = Raced]
    /\ UNCHANGED acts

\* A refusal that says that nothing was entered holds only after the erase.
AbandonResult(erased) == IF op.err \in UnsentCodes /\ ~erased THEN "error" ELSE op.err

EraseReturn ==
    /\ Running /\ Step \in {"erased", "unerased"}
    /\ \/ Step = "erased" /\ Shows(pane, "empty") /\ Return(AbandonResult(TRUE))
       \/ Return(AbandonResult(FALSE))
    /\ NoKey /\ UNCHANGED <<pane, hist, acts>>

\* The maintainer chose an option of dialog 1.
Chosen == pane.dialog = 1

\* keyIf of the digit and of agy's Enter, while the pane shows the same dialog.
ChooseLook ==
    /\ Running /\ Step \in {"digit", "select", "confirm"} /\ key = "none"
    /\ IF pane.fence /\ Chosen /\ (Step = "confirm" => pane.selected)
       THEN Looked("send")
       ELSE NoKey /\ Return(IF pane.fence THEN "dialog_changed" ELSE "error")
    /\ UNCHANGED <<pane, hist, acts>>

\* Without a dialog the digit stands in the input line.
DigitKey ==
    /\ Running /\ Step \in {"digit", "select"} /\ key = "send"
    /\ Goto /\ Sent
    /\ IF pane.dialog = 0
       THEN pane' = [pane EXCEPT !.line = "draft"] /\ UNCHANGED hist
       ELSE IF Step = "select"
       THEN pane' = [pane EXCEPT !.selected = TRUE] /\ UNCHANGED hist
       ELSE /\ pane' = DialogAnswered(pane)
            /\ hist' = [hist EXCEPT !.answered = AnswerOf(pane), !.raced = Raced]
    /\ UNCHANGED acts

ChooseReads ==
    /\ Running
    /\ \/ Step = "selected" /\ ((Chosen /\ pane.selected /\ Goto) \/ Return("error"))
       \/ Step = "gone" /\ ((~Chosen /\ Return("ok")) \/ Return("error"))
    /\ NoKey /\ UNCHANGED <<pane, hist, acts>>

-----------------------------------------------------------------------------
(* The user and the program in the pane *)

Act == acts < MaxUser /\ acts' = acts + 1 /\ Running /\ UNCHANGED <<op, key>>

Touch == window' = IF key = "none" THEN window ELSE "touched"

UserTypes ==
    /\ Act /\ Touch /\ pane.dialog = 0
    /\ \/ /\ pane.line \in {"empty", "ours"}
          /\ pane' = [pane EXCEPT !.line = IF @ = "empty" THEN "draft" ELSE "mixed"]
       \/ /\ pane.line \in {"draft", "mixed"}
          /\ pane' = [pane EXCEPT !.line = IF @ = "draft" THEN "empty" ELSE "ours"]
    /\ UNCHANGED hist

\* The command that stands in the line runs by the user's own Enter.
UserEnters ==
    /\ Act /\ Touch /\ pane.dialog = 0 /\ pane.line # "empty"
    /\ pane' = Entered(pane)
    /\ hist' = IF pane.line = "ours" THEN [hist EXCEPT !.ran = "user"] ELSE hist

\* A queued prompt or a delivered message starts a turn, and a turn ends.
ProgramRuns ==
    /\ Act /\ UNCHANGED window
    /\ pane' = IF pane.running THEN [pane EXCEPT !.running = FALSE]
               ELSE [pane EXCEPT !.running = TRUE, !.turn = TRUE, !.queued = FALSE]
    /\ UNCHANGED hist

\* A dialog comes or goes.
DialogShows ==
    /\ Act /\ Touch
    /\ \E d \in 0 .. 2 : d # pane.dialog /\ pane' = [pane EXCEPT !.dialog = d, !.selected = FALSE]
    /\ UNCHANGED hist

\* The menu opens; the fence falls.
ProgramShows ==
    /\ Act /\ UNCHANGED window
    /\ \/ \E m \in {"row", "other"} : pane.line = "ours" /\ pane.menu = "none" /\ pane' = [pane EXCEPT !.menu = m]
       \/ pane.fence /\ pane' = [pane EXCEPT !.fence = FALSE]
    /\ UNCHANGED hist

-----------------------------------------------------------------------------
KeysInit ==
    /\ pane = [line |-> "empty", menu |-> "none", dialog |-> 0, selected |-> FALSE, turn |-> FALSE, running |-> FALSE,
               queued |-> FALSE, fence |-> TRUE]
    /\ op = [fam |-> "none", cmd |-> "", at |-> 1, err |-> "", clean |-> "", res |-> ""]
    /\ key = "none" /\ window = "same"
    /\ hist = [sent |-> "none", erased |-> "none", ran |-> "none", answered |-> "none", raced |-> "no"]
    /\ acts = 0

KeysStart ==
    /\ op.fam = "none"
    /\ \E f \in KeyFamilies : \E c \in Commands(f) :
         /\ op' = [op EXCEPT !.fam = f, !.cmd = c]
         /\ pane' = [pane EXCEPT !.dialog = IF c = "choose" THEN 1 ELSE 0]
    /\ NoKey /\ UNCHANGED <<hist, acts>>

KeysNext ==
    \/ KeysStart \/ InspectStep \/ TypeLook \/ TypeKey \/ AwaitStep \/ EscapeStep
    \/ EnterLook \/ FinalRead \/ EnterKey \/ EraseLook \/ EraseKey \/ EraseReturn
    \/ ChooseLook \/ DigitKey \/ ChooseReads
    \/ UserTypes \/ UserEnters \/ ProgramRuns \/ DialogShows \/ ProgramShows

KeysSpec == KeysInit /\ [][KeysNext]_keyVars

-----------------------------------------------------------------------------
(* Properties *)

\* The adapter's keys submit and erase exactly its own text, never a draft that the user
\* started before or after it was typed, and answer the chosen dialog only, unless the user
\* typed or a dialog came or went in the short time between the look that admits the key and
\* the key: turns, menus and a fence that falls there are harmless (keyIf, erase).  The
\* Escape is not meant: it cancels whatever dialog it meets.
UserTextSafe ==
    hist.raced = "no" =>
        /\ hist.sent \in {"none", "ours"} /\ hist.erased \in {"none", "ours"}
        /\ hist.answered \in {"none", "chosen"}

\* A clear that is refused as not entered, which returns the cycle to ready and may
\* be entered again, left none of its text in the line and was run by nobody, the
\* user's own Enter included, but for an Enter between the erase's look and its keys; a
\* choice refused for a changed dialog, which may be made again, answered nothing
\* (unsentRefusal, abandon, Choose).
RefusalLeavesNothing ==
    /\ op.cmd = "clear" /\ op.res \in UnsentCodes /\ hist.raced = "no" =>
          hist.ran = "none" /\ pane.line \in {"empty", "draft"}
    /\ op.res = "dialog_changed" => hist.answered = "none"

\* What the keys of an adapter do to a pane that its user types into as well: they act on
\* the adapter's own text only, and a refusal means that nothing was done (keyIf, abandon).
KeysSafe == UserTextSafe /\ RefusalLeavesNothing
=============================================================================
