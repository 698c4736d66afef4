------------------------------ MODULE BleLink ------------------------------
(***************************************************************************)
(* The Bluetooth link (components/comms/src/ble_link.cpp) and the part of  *)
(* nav_task that switches it off for a real flight and on again after it.  *)
(*                                                                         *)
(* Two tasks work on it without a lock: the NimBLE host task, which calls  *)
(* gap_event and on_sync, and nav_task in set_enabled.  A connection is    *)
(* made by the stack, and told to gap_event one step later.                *)
(***************************************************************************)
EXTENDS Integers

VARIABLES
  flying,    \* a real flight is going on
  bleState,  \* nav_task's ble_state, what it last asked for, -1 at first
  enabled,   \* s_enabled
  synced,    \* s_synced
  conn,      \* s_conn holds a connection
  adv,       \* the stack advertises
  peer,      \* a client is connected
  closing,   \* the stack has been told to terminate the connection
  event,     \* what the stack has still to tell gap_event
  host,      \* where the host task is
  nav        \* where nav_task is

flags   == <<flying, bleState>>
atomics == <<enabled, synced, conn>>
stack   == <<adv, peer, closing, event>>
vars    == <<flags, atomics, stack, host, nav>>

Init ==
  /\ flying = FALSE /\ bleState = -1
  /\ enabled = TRUE /\ synced = FALSE /\ conn = FALSE
  /\ adv = FALSE /\ peer = FALSE /\ closing = FALSE /\ event = "sync"
  /\ host = "idle" /\ nav = "idle"
-----------------------------------------------------------------------------
(***************************************************************************)
(* advertise(), which either task may be in: first its checks, then the    *)
(* start, which the stack refuses when it is not synced or has a client.   *)
(***************************************************************************)
MayAdvertise == enabled /\ synced /\ ~conn /\ ~adv
Checked(pc)  == IF pc = "check" THEN IF MayAdvertise THEN "start" ELSE "idle" ELSE pc
Started      == adv \/ (synced /\ ~peer)

HostAdvertises ==
  /\ UNCHANGED <<flags, atomics, peer, closing, event, nav>>
  /\ \/ host = "check" /\ host' = Checked(host) /\ UNCHANGED adv
     \/ host = "start" /\ host' = "idle" /\ adv' = Started

NavAdvertises ==
  /\ UNCHANGED <<flags, atomics, peer, closing, event, host>>
  /\ \/ nav = "check" /\ nav' = Checked(nav) /\ UNCHANGED adv
     \/ nav = "start" /\ nav' = "idle" /\ adv' = Started
-----------------------------------------------------------------------------
(***************************************************************************)
(* gap_event, on_sync and on_reset, in the host task.                      *)
(***************************************************************************)
AfterLoss == "idle"   \* mutant of AfterEvent
AfterEvent == "check"

Event(e) == host = "idle" /\ event = e /\ event' = "none" /\ UNCHANGED <<flags, enabled, adv, peer, closing, nav>>

OnConnected    == Event("connected") /\ conn' = TRUE /\ UNCHANGED <<synced, host>>
OnAdvEnded     == Event("ended") /\ host' = AfterEvent /\ UNCHANGED <<synced, conn>>
OnDisconnected == Event("disconnected") /\ conn' = FALSE /\ host' = AfterEvent /\ UNCHANGED synced
OnSync         == Event("sync") /\ synced' = TRUE /\ host' = AfterEvent /\ UNCHANGED conn

\* The stack resets itself: it tells of the connection it loses and syncs again
OnReset ==
  /\ host = "idle" /\ event = "none" /\ synced /\ synced' = FALSE
  /\ adv' = FALSE /\ peer' = FALSE /\ closing' = FALSE
  /\ event' = IF peer THEN "disconnected" ELSE "none"
  /\ UNCHANGED <<flags, enabled, conn, host, nav>>

Resync ==
  /\ ~synced /\ event = "none" /\ event' = "sync"
  /\ UNCHANGED <<flags, atomics, adv, peer, closing, host, nav>>

HostTask == OnConnected \/ OnAdvEnded \/ OnDisconnected \/ OnSync \/ HostAdvertises \/ Resync
-----------------------------------------------------------------------------
(***************************************************************************)
(* The stack and the client.  One connection at most                       *)
(* (CONFIG_BT_NIMBLE_MAX_CONNECTIONS), and no advertising beside it.       *)
(***************************************************************************)
Connect ==
  /\ adv /\ event = "none" /\ adv' = FALSE /\ peer' = TRUE /\ event' = "connected"
  /\ UNCHANGED <<flags, atomics, closing, host, nav>>

\* A connection that fails to be established, or the end of advertising
AdvEnds ==
  /\ adv /\ event = "none" /\ adv' = FALSE /\ event' = "ended"
  /\ UNCHANGED <<flags, atomics, peer, closing, host, nav>>

Disconnect ==
  /\ peer /\ event = "none" /\ peer' = FALSE /\ closing' = FALSE /\ event' = "disconnected"
  /\ UNCHANGED <<flags, atomics, adv, host, nav>>

Client == Connect \/ AdvEnds \/ Disconnect
-----------------------------------------------------------------------------
(***************************************************************************)
(* nav_task: set_enabled when what it wants differs from the last time.    *)
(***************************************************************************)
Flight == nav = "idle" /\ flying' = ~flying /\ UNCHANGED <<bleState, atomics, stack, host, nav>>

Want == IF flying THEN 0 ELSE 1   \* want_ble

Switch ==
  /\ nav = "idle" /\ bleState # Want /\ bleState' = Want /\ enabled' = ~flying
  /\ nav' = IF enabled = ~flying THEN "idle" ELSE IF flying THEN "stop" ELSE "check"
  /\ UNCHANGED <<flying, synced, conn, stack, host>>

StopAdvertising ==
  /\ nav = "stop" /\ nav' = "terminate" /\ adv' = FALSE
  /\ UNCHANGED <<flags, atomics, peer, closing, event, host>>

Terminate ==
  /\ nav = "terminate" /\ nav' = "idle" /\ closing' = (peer /\ conn)
  /\ UNCHANGED <<flags, atomics, adv, peer, event, host>>

NavTask == Switch \/ NavAdvertises \/ StopAdvertising \/ Terminate

Next == HostTask \/ OnReset \/ Client \/ NavTask \/ Flight
=============================================================================
