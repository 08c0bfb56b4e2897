------------------------------ MODULE KeyDriver ------------------------------
(***************************************************************************)
(* The interrupt-driven keys of driver/key.c, part of libdriver (the strip      *)
(* scans its button itself, see KeyScan).  One handler serves all the keys; a    *)
(* press arms a timer of 5 s, a release one of 50 ms that looks at the key       *)
(* again.  A timer may fire at any time after it is armed.                     *)
(***************************************************************************)
EXTENDS Naturals

CONSTANT Keys

VARIABLES
  pin,        \* key -> level of its pin: 0 is pressed
  intrType,   \* key -> the edge that interrupts: "NEGEDGE", "POSEDGE" or "DISABLE"
  status,     \* keys whose bit of GPIO_STATUS is set
  key,        \* key -> key_level and the timers that are armed
  heard       \* history: key -> the call of the last step, and whether the key was
              \* read up since key_5s was armed

keyVars == <<pin, intrType, status, key, heard>>

\* The levels the pins of ks may have after a callback that took some time: the
\* edges of a pin whose interrupt is disabled are lost.
Meanwhile(ks) ==
  pin' \in {p \in [Keys -> {0, 1}] : \A k \in Keys \ ks : p[k] = pin[k]}

Silent == [k \in Keys |-> [heard[k] EXCEPT !.call = "none"]]

\* A level changes; the edge is latched if it is one that interrupts.
Edge(k) ==
  /\ pin' = [pin EXCEPT ![k] = 1 - @]
  /\ status' = IF intrType[k] = (IF pin[k] = 1 THEN "NEGEDGE" ELSE "POSEDGE")
               THEN status \cup {k} ELSE status
  /\ heard' = Silent
  /\ UNCHANGED <<intrType, key>>

\* The handler reads the status once.  A first press arms key_5s; any later edge
\* arms key_50ms and leaves the interrupt of the key disabled until it fires.
key_intr_handler ==
  /\ status # {}
  /\ key' = [k \in Keys |->
               IF k \notin status THEN key[k]
               ELSE IF key[k].key_level = 1
                    THEN [key[k] EXCEPT !.key_5s = TRUE, !.key_level = 0]
                    ELSE [key[k] EXCEPT !.key_50ms = TRUE]]
  /\ intrType' = [k \in Keys |->
                    IF k \notin status THEN intrType[k]
                    ELSE IF key[k].key_level = 1 THEN "POSEDGE" ELSE "DISABLE"]
  /\ heard' = [k \in Keys |->
                 IF k \in status /\ key[k].key_level = 1
                 THEN [call |-> "none", up |-> FALSE] ELSE Silent[k]]
  /\ Meanwhile(status)
  /\ status' = {}

key_5s_cb(k) ==
  /\ key[k].key_5s
  /\ key' = [key EXCEPT ![k].key_5s = FALSE]
  /\ heard' = IF pin[k] = 0 THEN [Silent EXCEPT ![k].call = "long_press"] ELSE Silent
  /\ UNCHANGED <<pin, intrType, status>>

\* The mutant leaves key_5s armed after a release.
UpButArmed(s) == [s EXCEPT !.key_50ms = FALSE, !.key_level = 1]

\* The timers and the interrupt of a key that was read up, and of one still down.
ReadUp(s) == [s EXCEPT !.key_50ms = FALSE, !.key_5s = FALSE, !.key_level = 1]
ReadDown(s) == [s EXCEPT !.key_50ms = FALSE]

key_50ms_cb(k) ==
  /\ key[k].key_50ms
  /\ key' = [key EXCEPT ![k] = IF pin[k] = 1 THEN ReadUp(@) ELSE ReadDown(@)]
  /\ intrType' = [intrType EXCEPT ![k] = IF pin[k] = 1 THEN "NEGEDGE" ELSE "POSEDGE"]
  /\ heard' = IF pin[k] = 1
              THEN [Silent EXCEPT ![k] = [call |-> "short_press", up |-> TRUE]]
              ELSE Silent
  /\ Meanwhile({k})
  /\ UNCHANGED status

key_init ==
  /\ pin \in [Keys -> {0, 1}]
  /\ intrType = [k \in Keys |-> "NEGEDGE"]
  /\ status = {}
  /\ key = [k \in Keys |-> [key_level |-> 1, key_5s |-> FALSE, key_50ms |-> FALSE]]
  /\ heard = [k \in Keys |-> [call |-> "none", up |-> TRUE]]

KeysNext ==
  \/ key_intr_handler
  \/ \E k \in Keys : Edge(k) \/ key_5s_cb(k) \/ key_50ms_cb(k)

KeysSpec == key_init /\ [][KeysNext]_keyVars

-----------------------------------------------------------------------------

\* Whatever edges the handler misses, a key stays heard and a long press is of one
\* press.  A key waits for an edge or for the timer that will look at it, and for a
\* press exactly when its last press is over; long_press is not called for a key
\* that was read up since its 5 s began.
KeysAreHeard ==
  \A k \in Keys :
    /\ intrType[k] = "DISABLE" <=> key[k].key_50ms
    /\ intrType[k] = "NEGEDGE" <=> key[k].key_level = 1
    /\ key[k].key_5s => key[k].key_level = 0
    /\ k \in status => intrType[k] # "DISABLE"
    /\ heard[k].call = "long_press" => ~ heard[k].up
=============================================================================
