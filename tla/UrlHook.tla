------------------------------ MODULE UrlHook ------------------------------
(***************************************************************************)
(* The HTTP hook of ijkurlhook.c: a wrapper round a network connection     *)
(* that, when a read or a seek fails, asks the application whether it      *)
(* wants the hook to connect again, and goes on at the old position.       *)
(*                                                                         *)
(* The module has the hook's own steps.  It is called by one thread at a   *)
(* time; IjkAsync composes it with its caller, the background thread.      *)
(* The byte of the file at position p is p itself.                         *)
(***************************************************************************)
EXTENDS Integers

CONSTANTS FileSize,     \* logical_size: the length of the file
          MaxFaults     \* bound: network failures in a behaviour

ASSUME FileSizeAssumption == FileSize \in Nat \ {0}
ASSUME MaxFaultsAssumption == MaxFaults \in Nat

\* libavutil's error numbers, all negative.
Eof == -1
Eio == -2
Exit == -3
Einval == -4
Errors == {Eof, Eio, Exit, Einval}

VARIABLES hook,         \* the hook's Context and the call it is in
          faults,       \* network failures still possible
          interrupted   \* what h->interrupt_callback answers

hookVars == <<hook, faults, interrupted>>

Positions == 0 .. FileSize

Hooks == [call : {"none", "open", "read", "seek"},
          step : {"ask", "try", "inject", "reconnect"},
          arg : Nat,                \* bytes wanted, or position wanted
          pos : Positions,          \* logical_pos
          err : Errors \cup {0},    \* io_error
          ret : Positions \cup Errors,
          declined : BOOLEAN,       \* ghost: the application left a failed read alone
          lied : BOOLEAN]           \* ghost: the last seek failed and returned 0

HookType == hook \in Hooks /\ faults \in 0 .. MaxFaults /\ interrupted \in BOOLEAN

HookInit ==
    /\ hook = [call |-> "none", step |-> "try", arg |-> 0, pos |-> 0, err |-> 0, ret |-> 0,
               declined |-> FALSE, lied |-> FALSE]
    /\ faults = MaxFaults
    /\ interrupted = FALSE

\* The player asks every input and output of the clip to stop, for good.
Interrupt ==
    /\ ~interrupted
    /\ interrupted' = TRUE
    /\ UNCHANGED <<hook, faults>>

Returned(h, r) == [h EXCEPT !.call = "none", !.step = "try", !.arg = 0, !.ret = r]

-----------------------------------------------------------------------------
(* Opening and reading.                                                    *)

\* The application is asked before the first connection, and its answer to
\* whether it handled anything is not looked at.
CallHookOpen == hook' = [hook EXCEPT !.call = "open", !.step = "ask"]

CallHookRead(n) ==
    hook' = [hook EXCEPT !.call = "read", !.step = "try", !.arg = n]

\* The end of ijkhttphook_read: whatever is not data is kept in io_error, so a
\* 0 wipes an error out.
ReadReturned(h, r) == [Returned(h, r) EXCEPT !.err = IF r <= 0 THEN r ELSE @]

\* The condition of the retry loop and the switch behind it.
AfterRead(h, r) ==
    IF r < 0 /\ r # Exit /\ h.pos < FileSize THEN [h EXCEPT !.step = "inject"]
                                             ELSE ReadReturned(h, r)

\* What a read of n bytes from the connection may give, and what it costs.
InnerRead(n) ==
    [r : 1 .. n, cost : {0}] \cup
    {o \in [r : {Eof, Eio, Exit}, cost : {0, 1}] :
        CASE o.r = Eof  -> hook.pos = FileSize /\ o.cost = 0
          [] o.r = Exit -> interrupted /\ o.cost = 0
          [] o.r = Eio  -> o.cost = 1 /\ faults > 0}

\* ijkurlhook_read: an earlier error is returned again without a read.
TryRead ==
    /\ hook.call = "read" /\ hook.step = "try"
    /\ \/ /\ hook.err < 0
          /\ hook' = AfterRead(hook, hook.err)
          /\ UNCHANGED faults
       \/ /\ hook.err = 0
          /\ \E o \in InnerRead(IF hook.arg < FileSize - hook.pos THEN hook.arg ELSE FileSize - hook.pos) :
                /\ hook' = AfterRead([hook EXCEPT !.pos = IF o.r > 0 THEN @ + o.r ELSE @,
                                                  !.err = IF o.r > 0 THEN @ ELSE o.r], o.r)
                /\ faults' = faults - o.cost
    /\ UNCHANGED interrupted

\* The first connection is made, or one that failed is replaced by one opened
\* at logical_pos.  The HTTP protocol refuses a server that answers with
\* another position.
Reconnect ==
    /\ hook.call \in {"open", "read"} /\ hook.step = "reconnect"
    /\ \/ /\ hook' = IF hook.call = "open" THEN [Returned(hook, 0) EXCEPT !.err = 0]
                                          ELSE [hook EXCEPT !.err = 0, !.step = "try"]
          /\ UNCHANGED faults
       \/ /\ faults > 0
          /\ faults' = faults - 1
          /\ hook' = [hook EXCEPT !.step = "inject"]
       \/ /\ interrupted
          /\ hook' = IF hook.call = "open" THEN Returned(hook, Exit) ELSE ReadReturned(hook, Exit)
          /\ UNCHANGED faults
    /\ UNCHANGED interrupted

-----------------------------------------------------------------------------
(* Seeking.                                                                *)

\* A seek to where the hook already is returns at once, and keeps an error.
CallHookSeek(p) ==
    hook' = IF p = hook.pos
            THEN [Returned(hook, p) EXCEPT !.lied = FALSE]
            ELSE [hook EXCEPT !.call = "seek", !.step = "ask", !.arg = p]

\* ijkhttphook_reseek_at: a seek of the connection or, when the application
\* has given another address, a new connection; both fail or are at arg.  The
\* end of ijkhttphook_seek returns ret, which is 0 here, and not the error.
TrySeek ==
    /\ hook.call = "seek" /\ hook.step = "try"
    /\ \/ /\ hook' = [Returned(hook, hook.arg) EXCEPT !.pos = hook.arg, !.err = 0, !.lied = FALSE]
          /\ UNCHANGED faults
       \/ /\ faults > 0
          /\ faults' = faults - 1
          /\ \/ hook' = [hook EXCEPT !.err = Eio, !.step = "inject"]
             \/ hook' = [Returned(hook, 0) EXCEPT !.err = Eof, !.lied = TRUE]
       \/ /\ interrupted
          /\ hook' = [Returned(hook, 0) EXCEPT !.err = Exit, !.lied = TRUE]
          /\ UNCHANGED faults
    /\ UNCHANGED interrupted

-----------------------------------------------------------------------------
(* The application is asked (ijkurlhook_call_inject).                      *)

\* Before an open or a seek: only the address the answer gives is used.
Ask ==
    /\ hook.call \in {"open", "seek"} /\ hook.step = "ask"
    /\ ~interrupted
    /\ hook' = [hook EXCEPT !.step = IF hook.call = "open" THEN "reconnect" ELSE "try"]
    /\ UNCHANGED <<faults, interrupted>>

\* It wants a new attempt.
Handled ==
    /\ hook.call # "none" /\ hook.step = "inject"
    /\ ~interrupted
    /\ hook' = [hook EXCEPT !.step = IF hook.call = "seek" THEN "try" ELSE "reconnect"]
    /\ UNCHANGED <<faults, interrupted>>

\* It does nothing, or there is none.  An open returns the error; in a read and
\* a seek ret is by now the 0 of the question, and that is what they return.
NotHandled ==
    /\ hook.call # "none" /\ hook.step = "inject"
    /\ ~interrupted
    /\ hook' = CASE hook.call = "open" -> Returned(hook, Eio)
                 [] hook.call = "read" -> [ReadReturned(hook, 0) EXCEPT !.declined = TRUE]
                 [] hook.call = "seek" -> [Returned(hook, 0) EXCEPT !.lied = TRUE]
    /\ UNCHANGED <<faults, interrupted>>

\* It refuses, or the player is stopping: AVERROR_EXIT.
Refused ==
    /\ hook.call # "none" /\ hook.step \in {"ask", "inject"}
    /\ hook' = IF hook.call = "read" THEN ReadReturned(hook, Exit) ELSE Returned(hook, Exit)
    /\ UNCHANGED <<faults, interrupted>>

HookStep == TryRead \/ Reconnect \/ TrySeek \/ Ask \/ Handled \/ NotHandled \/ Refused

=============================================================================
