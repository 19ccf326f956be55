----------------------------- MODULE Subprocess -----------------------------
(***************************************************************************)
(* A subprocess of libcork (posix/subprocess.c, exec.c and env.c) and the  *)
(* process it stands for.  sub is the structure the program keeps, child   *)
(* the process as the system knows it; child.state is                      *)
(*     none     not forked                                                 *)
(*     forked   fork returned, the program is not executed yet             *)
(*     running  or stopped                                                 *)
(*     zombie   ended, nobody waited for it                                *)
(*     reaped   somebody did                                               *)
(* Ends of pipes are <<pipe, "r">> and <<pipe, "w">>.                      *)
(***************************************************************************)
EXTENDS Integers, FiniteSets

CONSTANTS Spins     \* how often abort looks before it kills (50)

ASSUME SubprocessAssumption == Spins \in Nat

VARIABLES sub, child, spins

subVars == <<sub, child, spins>>

NoSub == [there |-> FALSE, pid |-> 0, consumers |-> {}, ends |-> {}, env |-> << >>, exit_code |-> 0]

NoChild == [state |-> "none", parent |-> 0, mask |-> {}, term |-> FALSE, kill |-> FALSE, stubborn |-> FALSE,
            ends |-> {}, env |-> << >>, code |-> 0, missed |-> FALSE]

SubprocessInit == sub = NoSub /\ child = NoChild /\ spins = 0

Ends(pipes) == pipes \X {"r", "w"}

\* The ends the parent keeps: it writes stdin and reads the others.
Kept(pipes) == {<<p, IF p = "in" THEN "w" ELSE "r">> : p \in pipes}

\* cork_subprocess_new: stdout and stderr have pipes only with a consumer.
NewExec(env, consumers) == [NoSub EXCEPT !.there = TRUE, !.consumers = consumers, !.env = env]

Pipes(s) == {"in"} \union s.consumers

\* cork_subprocess_start of s by process me, whose handlers the child inherits.
\* A pipe that cannot be opened closes those before; a failed fork leaves
\* them to cork_subprocess_free.
PipeFails(s) == sub' = s /\ UNCHANGED <<child, spins>>
ForkFails(s) == sub' = [s EXCEPT !.ends = Ends(Pipes(s))] /\ UNCHANGED <<child, spins>>
Forks(s, me, handlers) ==
    /\ sub' = [s EXCEPT !.pid = 1, !.ends = Kept(Pipes(s))]
    /\ child' = [NoChild EXCEPT !.state = "forked", !.parent = me, !.mask = handlers, !.ends = Ends(Pipes(s)),
                                !.env = s.env]
    /\ UNCHANGED spins

\* What the child keeps of the pipes.
ChildEnds(pipes) == Ends(pipes) \ Kept(pipes)

\* The child closes the parent's ends, binds its own to its standard streams,
\* replaces the environment and executes the program (cork_exec_run), which
\* may ignore SIGTERM; or it exits.
ChildExec ==
    /\ child.state = "forked"
    /\ \E stubborn \in BOOLEAN :
          child' = [child EXCEPT !.state = "running", !.ends = ChildEnds({e[1] : e \in @}), !.mask = {},
                                 !.stubborn = stubborn]
    /\ UNCHANGED <<sub, spins>>

\* A process ends: its descriptors are closed.  missed records that nobody had
\* asked to be told.
Died(c, code, unseen) == [c EXCEPT !.state = "zombie", !.ends = {}, !.code = code, !.missed = unseen]

\* kill(pid, SIGTERM): before the program is executed the signal goes to the
\* handler the child inherited, if there is one, and is lost.
Sigterm ==
    child' = IF child.state = "forked" /\ "TERM" \in child.mask THEN child
             ELSE IF child.state \in {"forked", "running", "stopped"} THEN [child EXCEPT !.term = TRUE]
             ELSE child
Sigkill ==
    child' = IF child.state \in {"forked", "running", "stopped"} THEN [child EXCEPT !.kill = TRUE] ELSE child

\* waitpid(pid, WNOHANG) by process me.
CanReap(me) == sub.pid > 0 /\ child.state = "zombie" /\ child.parent = me
NotYet(me) == sub.pid > 0 /\ child.state \in {"forked", "running", "stopped"} /\ child.parent = me
NoSuchChild(me) == ~CanReap(me) /\ ~NotYet(me)

\* cork_subprocess_reap when there is something to reap.
Reap(me) ==
    /\ CanReap(me)
    /\ sub' = [sub EXCEPT !.pid = 0, !.exit_code = child.code]
    /\ child' = [child EXCEPT !.state = "reaped"]

IsFinished(s) == s.pid = 0 /\ s.ends \intersect {<<"out", "r">>, <<"err", "r">>} = {}

\* cork_subprocess_abort in three steps: SIGTERM; looking whether the child is
\* gone, Spins times; SIGKILL.  An error of waitpid is no progress either.
AbortTerm == sub.pid > 0 /\ Sigterm /\ spins' = 0 /\ UNCHANGED sub
AbortReaps(me) == Reap(me) /\ UNCHANGED spins
AbortSpins(me) == ~CanReap(me) /\ spins < Spins /\ spins' = spins + 1 /\ UNCHANGED <<sub, child>>

\* Mutant of AbortKill: the child is left to itself.
AbortKillNot(me) == ~CanReap(me) /\ spins = Spins /\ UNCHANGED <<child, sub, spins>>

AbortKill(me) == ~CanReap(me) /\ spins = Spins /\ Sigkill /\ UNCHANGED <<sub, spins>>

\* One round of cork_subprocess_wait; it gives up when waitpid fails.
WaitReaps(me) == ~IsFinished(sub) /\ Reap(me) /\ UNCHANGED spins
WaitFails(me) == ~IsFinished(sub) /\ NoSuchChild(me) /\ UNCHANGED subVars

\* cork_subprocess_free: the caller keeps its pointer.
Freed(s) == [s EXCEPT !.ends = {}]
=============================================================================
