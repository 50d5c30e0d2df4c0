------------------------------ MODULE Console ------------------------------
(***************************************************************************)
(* Keys and time: wait_for_key (util.c), cmd_edit (commands.c) with the    *)
(* tab function (main.c), getchar and nbgetchar (prom.c), and their two    *)
(* callers, the skip question for the preboot script in prom_init (prom.c) *)
(* and the prompt of get_params (main.c).                                  *)
(*                                                                         *)
(* The firmware queues the keys that are typed.  Its clock is an int and   *)
(* wraps; it moves on whenever the firmware is called.  What happens with  *)
(* a line is the Prompt module: here the loader comes back for another.    *)
(***************************************************************************)
EXTENDS Integers, Sequences, SequencesExt

CONSTANTS
    NoKey,            \* KEY_NONE
    NUL,
    Printable,        \* keys >= ' ' but not DEL
    Bang,             \* '!'
    Erase,            \* '\b' and DEL
    Other,            \* further control keys
    CmdLeng,          \* CMD_LENG, 512 in the code
    Cleared,          \* how much of the line memset clears: sizeof (char *)
    MaxInt,           \* the largest int
    PerTenth,         \* clock ticks in a tenth of a second, 100
    PrebootTimeout,
    Timeouts,         \* what timeout= may say
    MaxCall,          \* bound: ticks a call of the firmware may take
    MaxKeys,          \* bound: how many keys are typed
    MaxAhead          \* bound: how many keys the firmware queues

Keys == Printable \cup Erase \cup Other \cup {"cr", "tab"}

ASSUME ConsoleAssumption ==
    /\ NoKey \notin Keys /\ NUL \notin Keys
    /\ Bang \in Printable /\ (Printable \cup Erase \cup Other) \cap {"cr", "tab"} = {}
    /\ Printable \cap Erase = {} /\ Other \cap (Printable \cup Erase) = {}
    /\ {CmdLeng, MaxInt, PerTenth, MaxCall, PrebootTimeout} \subseteq Nat \ {0}
    /\ Cleared \in 0 .. CmdLeng /\ Timeouts \subseteq -MaxInt .. MaxInt
    /\ MaxKeys \in Nat /\ MaxAhead \in Nat

VARIABLES
    kpc,       \* "start", "poll", "clock", "prompt", "getc", "key", "line", "command", "auto"
    wait,      \* the wait_for_key that is going on, or NoWait
    tried,     \* TRIED_AUTO
    preboot,   \* the preboot script: "none", "asked", "run", "skipped"
    queue,     \* keys the firmware has for us
    typed,     \* bound: how many keys were typed
    c,         \* cmd_edit: the key
    x,         \* ... how many characters the line has
    cbuff,     \* ... the buffer
    screen,    \* what is shown behind the last prompt
    taken,     \* history: keys taken since the last prompt
    early      \* history: a wait timed out before its time, the clock not wrapping

consoleVars == <<kpc, wait, tried, preboot, queue, typed, c, x, cbuff, screen, taken, early>>
editVars == <<x, cbuff, screen>>

NoWait == [who |-> "", beg |-> 0, end |-> 0, now |-> 0, ticks |-> 0, passed |-> 0]

(* Arithmetic on int. *)
Int32(n) == ((n + MaxInt + 1) % (2 * MaxInt + 2)) - MaxInt - 1
Clock == -MaxInt - 1 .. MaxInt

ConsoleInit ==
    /\ kpc = "start"
    /\ wait = NoWait
    /\ tried = FALSE
    /\ preboot \in {"none", "asked"}
    /\ queue = <<>> /\ typed = 0
    /\ c = NoKey
    /\ x = 0
    /\ cbuff = [k \in 0 .. CmdLeng - 1 |-> NUL]
    /\ screen = <<>>
    /\ taken = <<>>
    /\ early = FALSE

(* The user presses a key, at any time. *)
Type(k) ==
    /\ typed < MaxKeys /\ Len(queue) < MaxAhead
    /\ typed' = typed + 1
    /\ queue' = Append(queue, k)
    /\ UNCHANGED <<kpc, wait, tried, preboot, c, editVars, taken, early>>

-----------------------------------------------------------------------------
(* wait_for_key *)

(* Mutant: the period is taken in seconds. *)
EndInSeconds(beg, t) == Int32(beg + Int32(PerTenth * t) \div 10)

EndOf(beg, t) == Int32(beg + Int32(PerTenth * t))

BeginWait(who, t) ==
    /\ \E now \in Clock :
         wait' = [who |-> who, beg |-> now, end |-> EndOf(now, t), now |-> now,
                  ticks |-> PerTenth * t, passed |-> 0]
    /\ kpc' = "poll"

(* The sums in wait_for_key are exact, and the clock does not wrap before  *)
(* a reading of it can show that the time is over.                         *)
Exact(w) == w.beg + w.ticks + 2 * MaxCall <= MaxInt

(* nbgetchar and get_ms take a little time each. *)
TimePasses(d) ==
    wait' = [wait EXCEPT !.now = Int32(@ + d),
                         !.passed = IF @ > wait.ticks THEN @ ELSE @ + d]

PollNothing ==
    /\ kpc = "poll" /\ queue = <<>>
    /\ \E d \in 1 .. MaxCall : TimePasses(d)
    /\ kpc' = "clock"
    /\ UNCHANGED <<tried, preboot, queue, typed, c, editVars, taken, early>>

(* cmd_edit up to its loop. *)
BeginEdit(key) ==
    /\ x' = 0
    /\ cbuff' = [k \in DOMAIN cbuff |-> IF k < Cleared THEN NUL ELSE cbuff[k]]
    /\ screen' = <<>>
    /\ c' = key
    /\ kpc' = IF key = NoKey THEN "getc" ELSE "key"

(* A key: prom_init skips the script, whichever key it was; get_params     *)
(* takes the default for Enter and hands any other to cmd_edit.            *)
PollKey ==
    /\ kpc = "poll" /\ queue # <<>>
    /\ queue' = Tail(queue)
    /\ wait' = NoWait
    /\ IF wait.who = "preboot"
       THEN /\ preboot' = "skipped" /\ kpc' = "prompt"
            /\ UNCHANGED <<c, editVars, taken>>
       ELSE /\ taken' = <<Head(queue)>>
            /\ UNCHANGED preboot
            /\ IF Head(queue) = "cr" THEN kpc' = "auto" /\ UNCHANGED <<c, editVars>>
                                     ELSE BeginEdit(Head(queue))
    /\ UNCHANGED <<tried, typed, early>>

(* Mutant: the clock must be exactly at the end. *)
TimeLeftUnequal == wait.now # wait.end

TimeLeft == wait.now <= wait.end

StillTime ==
    /\ kpc = "clock" /\ TimeLeft
    /\ \E d \in 1 .. MaxCall : TimePasses(d)
    /\ kpc' = "poll"
    /\ UNCHANGED <<tried, preboot, queue, typed, c, editVars, taken, early>>

TimedOut ==
    /\ kpc = "clock" /\ ~TimeLeft
    /\ wait' = NoWait
    /\ early' = (early \/ (Exact(wait) /\ wait.passed < wait.ticks))
    /\ IF wait.who = "preboot" THEN preboot' = "run" /\ kpc' = "prompt"
                               ELSE kpc' = "auto" /\ UNCHANGED preboot
    /\ UNCHANGED <<tried, queue, typed, c, editVars, taken>>

-----------------------------------------------------------------------------
(* prom_init, the question whether to skip the preboot script *)
Start ==
    /\ kpc = "start"
    /\ IF preboot = "none" THEN kpc' = "prompt" /\ UNCHANGED wait
                           ELSE BeginWait("preboot", PrebootTimeout)
    /\ UNCHANGED <<tried, preboot, queue, typed, c, editVars, taken, early>>

(* get_params: the first time there may be a default to wait for, later    *)
(* the line is edited at once.                                             *)
FirstPrompt(t) ==
    /\ kpc = "prompt" /\ ~tried
    /\ tried' = TRUE
    /\ taken' = <<>>
    /\ \/ t = -1 /\ BeginEdit(NoKey) /\ UNCHANGED wait
       \/ /\ t <= 0 /\ t # -1
          /\ kpc' = "auto"
          /\ UNCHANGED <<wait, c, editVars>>
       \/ t > 0 /\ BeginWait("prompt", t) /\ UNCHANGED <<c, editVars, early>>
    /\ UNCHANGED <<preboot, queue, typed, early>>

LaterPrompt ==
    /\ kpc = "prompt" /\ tried
    /\ taken' = <<>>
    /\ BeginEdit(NoKey)
    /\ UNCHANGED <<wait, tried, preboot, queue, typed, early>>

-----------------------------------------------------------------------------
(* cmd_edit *)

GetChar ==
    /\ kpc = "getc" /\ queue # <<>>
    /\ c' = Head(queue)
    /\ queue' = Tail(queue)
    /\ taken' = Append(taken, Head(queue))
    /\ kpc' = "key"
    /\ UNCHANGED <<wait, tried, preboot, typed, editVars, early>>

(* getchar has an error, or there is no console: this ends the line. *)
GetCharFails ==
    /\ kpc = "getc"
    /\ c' = NoKey
    /\ kpc' = "key"
    /\ UNCHANGED <<wait, tried, preboot, queue, typed, editVars, taken, early>>

KeyStep(keys) ==
    /\ kpc = "key" /\ c \in keys
    /\ kpc' = "getc"
    /\ UNCHANGED <<wait, tried, preboot, queue, typed, c, taken, early>>

(* The C string that starts at cbuff. *)
Line == LET ends == { k \in DOMAIN cbuff : cbuff[k] = NUL }
            n == IF ends = {} THEN CmdLeng ELSE CHOOSE k \in ends : \A j \in ends : k <= j
        IN  [k \in 1 .. n |-> cbuff[k - 1]]

(* maintabfunc prints a screenful and then the prompt and the line. *)
KeyTab ==
    /\ KeyStep({"tab"})
    /\ cbuff' = [cbuff EXCEPT ![x] = NUL]
    /\ screen' = Line'
    /\ UNCHANGED x

(* Mutant: the character stays on the screen. *)
KeyEraseSilently ==
    /\ KeyStep(Erase)
    /\ IF x > 0
       THEN x' = x - 1 /\ cbuff' = [cbuff EXCEPT ![x - 1] = NUL] /\ UNCHANGED screen
       ELSE UNCHANGED editVars

KeyErase ==
    /\ KeyStep(Erase)
    /\ IF x > 0
       THEN /\ x' = x - 1
            /\ cbuff' = [cbuff EXCEPT ![x - 1] = NUL]
            /\ screen' = Front(screen)
       ELSE UNCHANGED editVars

Room == x < CmdLeng - 1

KeyPrint ==
    /\ KeyStep(Printable)
    /\ IF Room
       THEN /\ cbuff' = [cbuff EXCEPT ![x] = c]
            /\ screen' = Append(screen, c)
            /\ x' = x + 1
       ELSE UNCHANGED editVars

KeyIgnored ==
    /\ KeyStep(Other)
    /\ UNCHANGED editVars

(* Mutant: the line is taken to be ended by what memset cleared. *)
EndLineUnterminated ==
    /\ kpc = "key" /\ c \in {NoKey, "cr"}
    /\ UNCHANGED cbuff
    /\ kpc' = IF cbuff[0] = Bang THEN "command" ELSE "line"
    /\ UNCHANGED <<wait, tried, preboot, queue, typed, c, x, screen, taken, early>>

(* Enter, or no key: the line is a command if it starts with '!'. *)
EndLine ==
    /\ kpc = "key" /\ c \in {NoKey, "cr"}
    /\ cbuff' = [cbuff EXCEPT ![x] = NUL]
    /\ kpc' = IF cbuff'[0] = Bang THEN "command" ELSE "line"
    /\ UNCHANGED <<wait, tried, preboot, queue, typed, c, x, screen, taken, early>>

(* A command was run, or what was asked for could not be booted. *)
Again ==
    /\ kpc \in {"line", "command", "auto"}
    /\ kpc' = "prompt"
    /\ UNCHANGED <<wait, tried, preboot, queue, typed, c, editVars, taken, early>>

WaitStep == PollNothing \/ PollKey \/ StillTime \/ TimedOut

ConsoleNext ==
    \/ \E k \in Keys : Type(k)
    \/ Start \/ WaitStep
    \/ \E t \in Timeouts : FirstPrompt(t)
    \/ LaterPrompt
    \/ GetChar \/ GetCharFails
    \/ KeyTab \/ KeyErase \/ KeyPrint \/ KeyIgnored \/ EndLine
    \/ Again

(* The loop in wait_for_key polls and does not block. *)
ConsoleSpec == ConsoleInit /\ [][ConsoleNext]_consoleVars /\ WF_consoleVars(WaitStep)

-----------------------------------------------------------------------------
(* Every variable has its type; there is always room for the NUL at the    *)
(* end of the line.                                                        *)
ConsoleTypeOK ==
    /\ kpc \in {"start", "poll", "clock", "prompt", "getc", "key", "line", "command", "auto"}
    /\ wait = NoWait \/ {wait.beg, wait.end, wait.now} \subseteq Clock
    /\ tried \in BOOLEAN
    /\ preboot \in {"none", "asked", "run", "skipped"}
    /\ queue \in Seq(Keys) /\ typed \in 0 .. MaxKeys
    /\ c \in Keys \cup {NoKey}
    /\ x \in 0 .. CmdLeng - 1
    /\ cbuff \in [0 .. CmdLeng - 1 -> Keys \cup {NUL}]
    /\ screen \in Seq(Keys) /\ taken \in Seq(Keys)

(* What a line is, from the keys. *)
Edit(line, key) ==
    IF key \in Erase THEN (IF line = <<>> THEN line ELSE Front(line))
    ELSE IF key \in Printable /\ Len(line) < CmdLeng - 1 THEN Append(line, key)
    ELSE line
Edited(keys) ==
    LET line[n \in 0 .. Len(keys)] ==
            IF n = 0 THEN <<>> ELSE Edit(line[n - 1], keys[n])
    IN  line[Len(keys)]

(* The line that is returned is what the keys typed since the prompt give, *)
(* the one that ended the wait for the default included, and nothing that  *)
(* an earlier line left in the buffer.                                     *)
LineIsTyped == kpc \in {"line", "command"} => Line = Edited(taken)

(* While a line is edited the screen shows it, also after tab has listed   *)
(* the choices and when the buffer is full.                                *)
ScreenShowsLine ==
    kpc \in {"getc", "key", "line", "command"} => screen = [k \in 1 .. x |-> cbuff[k - 1]]

(* The default is booted, and the preboot script run, unasked only after   *)
(* the full time, unless the int clock was about to wrap.                  *)
NotEarly == ~early

(* A wait ends, unless the int clock was about to wrap. *)
WaitEnds == (wait # NoWait /\ Exact(wait)) ~> wait = NoWait
=============================================================================
