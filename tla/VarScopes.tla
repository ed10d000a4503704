----------------------------- MODULE VarScopes -----------------------------
(***************************************************************************)
(* What shell variables promise: dynamic scoping.  Every function call and *)
(* every command with prefix assignments has a frame of the bindings made  *)
(* for it; a name means its innermost binding, writes go there, a frame's  *)
(* bindings go with the frame, and a readonly binding keeps its content.   *)
(* The project environment may replace visible bindings.                   *)
(*                                                                         *)
(* The actions relate the frames f before a step to the frames g after it. *)
(***************************************************************************)
EXTENDS Integers, Sequences

CONSTANTS Names, Bindings

VARIABLES
  frames,  \* bindings per frame, the globals first
  project, \* the names that the project environment in force sets
  broken   \* a defect of the implementation has happened

scopeVars == <<frames, project, broken>>

Content(x) == <<x.var, x.arr, x.assoc, x.born>>

Owner(f, n) == CHOOSE i \in DOMAIN f :
                 /\ n \in DOMAIN f[i]
                 /\ \A j \in DOMAIN f : n \in DOMAIN f[j] => j <= i

Visible(f, n) == f[Owner(f, n)][n]

Init == broken = FALSE /\ project = {} /\ Len(frames) = 1 /\ frames[1] \in [Names -> Bindings]

\* The visible binding changes; a readonly one only in its export attribute.
Write(f, g, n) ==
  /\ Len(g) = Len(f)
  /\ LET i == Owner(f, n)
     IN /\ n \in DOMAIN g[i] /\ g[i][n] \in Bindings
        /\ f[i][n].readonly => g[i][n].readonly /\ Content(g[i][n]) = Content(f[i][n])
        /\ g = [f EXCEPT ![i][n] = g[i][n]]

\* A binding of its own for a frame inside the owner's.
Declare(f, g, n) ==
  /\ Len(g) = Len(f)
  /\ ~Visible(f, n).readonly
  /\ \E i \in (Owner(f, n) + 1)..Len(f) :
       /\ n \in DOMAIN g[i] /\ g[i][n] \in Bindings
       /\ g = [f EXCEPT ![i] = [m \in DOMAIN @ \cup {n} |-> IF m = n THEN g[i][n] ELSE @[m]]]

\* A function is called, or a command with prefix assignments starts.
Enter(f, g) ==
  /\ Len(g) = Len(f) + 1
  /\ SubSeq(g, 1, Len(f)) = f
  /\ \A n \in DOMAIN g[Len(g)] :
       n \in Names /\ g[Len(g)][n] \in Bindings /\ ~Visible(f, n).readonly

Leave(f, g) == Len(f) > 1 /\ g = SubSeq(f, 1, Len(f) - 1)

\* The directory changes, and with it PWD and the project environment: visible
\* bindings are replaced, a readonly one only if the environment had set it.
Rebind(f, g) ==
  /\ Len(g) = Len(f)
  /\ \A i \in DOMAIN f :
       /\ DOMAIN g[i] = DOMAIN f[i]
       /\ \A n \in DOMAIN f[i] :
            /\ g[i][n] \in Bindings
            /\ \/ g[i][n] = f[i][n]
               \/ /\ i = Owner(f, n)
                  /\ n \in project \/ ~f[i][n].readonly

Step(f, g) == \/ Rebind(f, g)
              \/ /\ UNCHANGED project
                 /\ \/ Enter(f, g) \/ Leave(f, g)
                    \/ \E n \in Names : Write(f, g, n) \/ Declare(f, g, n)

Next == \/ broken'
        \/ ~broken /\ ~broken' /\ \E f \in {frames}, g \in {frames'} : Step(f, g)

Spec == Init /\ [][Next]_scopeVars
=============================================================================
