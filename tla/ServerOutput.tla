---------------------------- MODULE ServerOutput -----------------------------
(***************************************************************************)
(* What the agent learns from a running Factorio server: the task that     *)
(* reads the server's standard output (parse_process_stdout,               *)
(* server/proc.rs) and the task that asks for the number of players over   *)
(* RCON every 60 s (server/mod.rs).                                        *)
(*                                                                         *)
(* player_count is an atomic u32 that the first task adds to and subtracts *)
(* from while the second one stores into it.  Handing the line on to the   *)
(* connected clients (stdout_handler) changes none of this state.          *)
(***************************************************************************)
EXTENDS Integers, Sequences, FiniteSets

CONSTANTS
  MaxPlayers,  \* most players online at a time
  MaxMoves,    \* bound on joins and leaves together
  MaxUnread,   \* lines the pipe holds; a server that finds it full waits
  Width        \* bits of player_count (32 in the code)

ASSUME ConstantsAssumption ==
  /\ MaxPlayers \in Nat /\ MaxMoves \in Nat /\ MaxUnread \in Nat
  /\ Width \in Nat /\ 2 ^ Width > MaxPlayers

Counts == 0..(2 ^ Width - 1)

(* Mutant: a counter that does not wrap. *)
NoWrap(n) == n

Wrap(n) == n % (2 ^ Width)

(* The states a server goes through; the saving state is left again. *)
GameStates == {"Ready", "CreatingGame", "InGame", "InGameSavingMap", "Disconnected", "Closed"}
NextStates(s) == CASE s = "Ready"           -> {"CreatingGame", "Closed"}
                   [] s = "CreatingGame"    -> {"InGame", "Closed"}
                   [] s = "InGame"          -> {"InGameSavingMap", "Disconnected"}
                   [] s = "InGameSavingMap" -> {"InGame"}
                   [] s = "Disconnected"    -> {"Closed"}
                   [] s = "Closed"          -> {}

VARIABLES
  game,         \* the server's own state
  ready,        \* has it said that RCON is ready?
  alive,        \* does its process run?
  online,       \* players in the game
  moves,        \* joins and leaves so far
  lines,        \* its standard output, not yet read
  reader,       \* the task in parse_process_stdout
  rcon,         \* is the RCON connection there?
  internal_server_state,
  player_count,
  refresh,      \* player_count_refresh_task
  answer,       \* the count it was answered with
  instance,     \* the StartedInstance
  quiet,        \* nobody has joined or left since the refresh asked, and no
                \* join or leave was unread when it did
  settled       \* there was no refresh yet, or the last one was quiet

server == <<game, ready, alive, online, moves>>
learnt == <<rcon, internal_server_state, player_count>>
vars == <<game, ready, alive, online, moves, lines, reader, rcon, internal_server_state,
          player_count, refresh, answer, instance, quiet, settled>>

(* Every variable holds a value of the kind the code keeps in it.          *)
TypeOK ==
  /\ game \in GameStates /\ ready \in BOOLEAN /\ alive \in BOOLEAN
  /\ online \in 0..MaxPlayers /\ moves \in 0..MaxMoves
  /\ lines \in Seq({"JOIN", "LEAVE", "RCON"} \cup GameStates)
  /\ reader \in {"reading", "connecting", "ended"}
  /\ rcon \in BOOLEAN
  /\ internal_server_state \in GameStates
  /\ player_count \in Counts
  /\ refresh \in {"sleeping", "asked", "answered", "aborted"}
  /\ answer \in 0..MaxPlayers
  /\ instance \in {"running", "stopping", "gone"}
  /\ quiet \in BOOLEAN /\ settled \in BOOLEAN

Init ==
  /\ game = "Ready" /\ ready = FALSE /\ alive = TRUE
  /\ online = 0 /\ moves = 0 /\ lines = << >>
  /\ reader = "reading" /\ rcon = FALSE
  /\ internal_server_state = "Ready" /\ player_count = 0
  /\ refresh = "sleeping" /\ answer = 0
  /\ instance = "running"
  /\ quiet = FALSE /\ settled = TRUE

-----------------------------------------------------------------------------
(* The Factorio server                                                     *)

WriteOut(line) == Len(lines) < MaxUnread /\ lines' = Append(lines, line)

ChangeState(s) ==
  /\ alive /\ s \in NextStates(game)
  /\ game' = s
  /\ WriteOut(s)
  /\ online' = IF s = "Disconnected" THEN 0 ELSE online
  /\ quiet' = (quiet /\ s # "Disconnected")
  /\ settled' = (settled /\ (s # "Disconnected" \/ online = 0))
  /\ UNCHANGED <<ready, alive, moves, reader, learnt, refresh, answer, instance>>

AnnounceRcon ==
  /\ alive /\ ~ready
  /\ ready' = TRUE
  /\ WriteOut("RCON")
  /\ UNCHANGED <<game, alive, online, moves, reader, learnt, refresh, answer, instance,
                 quiet, settled>>

Move(line, n) ==
  /\ alive /\ game \in {"InGame", "InGameSavingMap"}
  /\ n \in 0..MaxPlayers /\ moves < MaxMoves
  /\ online' = n
  /\ moves' = moves + 1
  /\ WriteOut(line)
  /\ quiet' = FALSE
  /\ UNCHANGED <<game, ready, alive, reader, learnt, refresh, answer, instance, settled>>

Exit ==
  /\ alive
  /\ alive' = FALSE
  /\ online' = 0 /\ quiet' = FALSE /\ settled' = FALSE
  /\ UNCHANGED <<game, ready, moves, lines, reader, learnt, refresh, answer, instance>>

-----------------------------------------------------------------------------
(* parse_process_stdout                                                    *)

(* Mutant: leaving players are not counted. *)
CountNoLeave(line) == IF line = "JOIN" THEN Wrap(player_count + 1) ELSE player_count

(* fetch_add and fetch_sub. *)
Count(line) == CASE line = "JOIN"  -> Wrap(player_count + 1)
                 [] line = "LEAVE" -> Wrap(player_count - 1)
                 [] OTHER          -> player_count

(* A line is a state change, a join or a leave, or the RCON message, after   *)
(* which the task connects before it reads on.                              *)
ReadLine ==
  /\ reader = "reading" /\ lines # << >>
  /\ lines' = Tail(lines)
  /\ internal_server_state' = IF Head(lines) \in GameStates THEN Head(lines)
                              ELSE internal_server_state
  /\ player_count' = Count(Head(lines))
  /\ reader' = IF Head(lines) = "RCON" /\ ~rcon THEN "connecting" ELSE "reading"
  /\ UNCHANGED <<server, rcon, refresh, answer, instance, quiet, settled>>

(* A failed connection is logged; the message does not come again. *)
RconConnect ==
  /\ reader = "connecting"
  /\ reader' = "reading"
  /\ \/ alive /\ rcon' = TRUE
     \/ UNCHANGED rcon
  /\ UNCHANGED <<server, lines, internal_server_state, player_count, refresh, answer,
                 instance, quiet, settled>>

(* End of the stream, or a read error other than invalid UTF-8. *)
ReaderEnds ==
  /\ reader = "reading"
  /\ reader' = "ended"
  /\ settled' = (settled /\ lines = << >> /\ ~alive)
  /\ UNCHANGED <<server, lines, learnt, refresh, answer, instance, quiet>>

-----------------------------------------------------------------------------
(* player_count_refresh_task                                               *)

Unread == {lines[i] : i \in 1..Len(lines)} \cap {"JOIN", "LEAVE"}

(* Every 60 s, if there is an RCON connection. *)
RefreshAsks ==
  /\ refresh = "sleeping" /\ rcon
  /\ refresh' = "asked"
  /\ quiet' = (Unread = {})
  /\ UNCHANGED <<server, lines, reader, learnt, answer, instance, settled>>

RefreshAnswered ==
  /\ refresh = "asked" /\ alive
  /\ refresh' = "answered"
  /\ answer' = online
  /\ UNCHANGED <<server, lines, reader, learnt, instance, quiet, settled>>

(* An RCON error, or an answer without a number, is logged. *)
RefreshFails ==
  /\ refresh = "asked"
  /\ refresh' = "sleeping"
  /\ UNCHANGED <<server, lines, reader, learnt, answer, instance, quiet, settled>>

(* Mutant: the task asks once. *)
RefreshStoresOnce ==
  /\ refresh = "answered"
  /\ refresh' = "aborted"
  /\ player_count' = answer
  /\ settled' = quiet
  /\ UNCHANGED <<server, lines, reader, rcon, internal_server_state, answer, instance, quiet>>

RefreshStores ==
  /\ refresh = "answered"
  /\ refresh' = "sleeping"
  /\ player_count' = answer
  /\ settled' = quiet
  /\ UNCHANGED <<server, lines, reader, rcon, internal_server_state, answer, instance, quiet>>

-----------------------------------------------------------------------------
(* The end of the instance                                                 *)

(* stop(), or the wait() of a status request that found the process gone. *)
Stop ==
  /\ instance = "running"
  /\ refresh' = "aborted"
  /\ instance' = IF alive THEN "stopping" ELSE "gone"
  /\ UNCHANGED <<server, lines, reader, learnt, answer, quiet, settled>>

Waited ==
  /\ instance = "stopping" /\ ~alive
  /\ instance' = "gone"
  /\ UNCHANGED <<server, lines, reader, learnt, refresh, answer, quiet, settled>>

-----------------------------------------------------------------------------
ServerStep == \/ \E s \in GameStates : ChangeState(s)
              \/ AnnounceRcon \/ Move("JOIN", online + 1) \/ Move("LEAVE", online - 1)
              \/ Exit

Next == \/ ServerStep
        \/ ReadLine \/ RconConnect \/ ReaderEnds
        \/ RefreshAsks \/ RefreshAnswered \/ RefreshFails \/ RefreshStores
        \/ Stop \/ Waited

Spec == Init /\ [][Next]_vars

(* The tasks run and the timer fires; a server that is asked again and again *)
(* answers at last.                                                         *)
Fairness == /\ WF_vars(ReadLine) /\ WF_vars(RconConnect)
            /\ WF_vars(RefreshAsks) /\ SF_vars(RefreshAnswered) /\ WF_vars(RefreshStores)

FairSpec == Spec /\ Fairness

-----------------------------------------------------------------------------
(* Properties                                                              *)

(* As long as every refresh was quiet, player_count differs from the number  *)
(* of players online by exactly the joins and leaves not yet read: it never  *)
(* wraps, and a quiet refresh repairs what an unlucky one has spoilt.        *)
CountExact ==
  settled => player_count = online - Cardinality({i \in DOMAIN lines : lines[i] = "JOIN"})
                                   + Cardinality({i \in DOMAIN lines : lines[i] = "LEAVE"})

(* While the server runs with RCON connected and players no longer come and  *)
(* go, player_count comes to be the number of players and stays it, even     *)
(* after a refresh that raced with a leave has made it wrap, and even when   *)
(* the reading task has ended.                                               *)
CountHeals ==
  <>[](rcon /\ alive /\ instance = "running") => <>[](player_count = online)
=============================================================================
