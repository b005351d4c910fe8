----------------------------- MODULE PlayQueue -----------------------------
(***************************************************************************)
(* What serial slave mode promises to the host that loads motions: each    *)
(* one asked for is acknowledged or given up, at most once; what is given  *)
(* up is not played; motions are played one at a time, once each and in    *)
(* the order of the requests, every scene announced in its turn; and the   *)
(* robot comes to rest only when nothing it acknowledged is left.          *)
(***************************************************************************)
EXTENDS Integers, Sequences
CONSTANTS MaxLoads, MaxScenes
VARIABLES asked,           \* the scenes of each motion the host asked to load
          acked, failed,   \* what it was told of them
          begun, note,     \* what has been played; the last notification
          moving

vars == <<asked, acked, failed, begun, note, moving>>

Asked == 1 .. Len(asked)
Told  == acked \cup failed

Init ==
  /\ asked = <<>> /\ acked = {} /\ failed = {} /\ begun = {} /\ moving = FALSE
  /\ note = [type |-> "none", motion |-> 0, scene |-> 0]

Ask ==
  /\ Len(asked) < MaxLoads
  /\ \E s \in 1 .. MaxScenes : asked' = Append(asked, s)
  /\ UNCHANGED <<acked, failed, begun, note, moving>>

Acknowledge(m) ==
  /\ m \notin Told /\ acked' = acked \cup {m}
  /\ UNCHANGED <<asked, failed, begun, note, moving>>

GiveUp(m) ==
  /\ m \notin Told \cup begun /\ failed' = failed \cup {m}
  /\ UNCHANGED <<asked, acked, begun, note, moving>>

SetOut == ~moving /\ moving' = TRUE /\ UNCHANGED <<asked, acked, failed, begun, note>>

Says(type, m, s) == note' = [type |-> type, motion |-> m, scene |-> s]

Begin(m) ==
  /\ moving /\ note.type # "b"
  /\ m \notin begun \cup failed
  /\ \A k \in begun : k < m
  /\ \A k \in acked : k < m => k \in begun
  /\ begun' = begun \cup {m} /\ Says("b", m, 0)
  /\ UNCHANGED <<asked, acked, failed, moving>>

Scenes == asked[note.motion]

GoOn ==
  /\ note.type = "b" /\ note.scene + 1 < Scenes
  /\ Says("b", note.motion, note.scene + 1)
  /\ UNCHANGED <<asked, acked, failed, begun, moving>>

End ==
  /\ note.type = "b" /\ note.scene + 1 = Scenes
  /\ Says("d", note.motion, 0)
  /\ UNCHANGED <<asked, acked, failed, begun, moving>>

Rest ==
  /\ moving /\ note.type = "d" /\ acked \subseteq begun
  /\ moving' = FALSE
  /\ UNCHANGED <<asked, acked, failed, begun, note>>

Next == \/ Ask \/ SetOut \/ GoOn \/ End \/ Rest
        \/ \E m \in Asked : Acknowledge(m) \/ GiveUp(m) \/ Begin(m)

Spec == Init /\ [][Next]_vars
=============================================================================
