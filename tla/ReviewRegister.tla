---- MODULE ReviewRegister ----
(***************************************************************************)
(* What the persistence of a review session promises to its tabs: one      *)
(* shared register that a tab may save to only while it knows the          *)
(* register's present content, and that a user may reset.  Nothing here    *)
(* speaks of queues, timers or transactions.                               *)
(***************************************************************************)
EXTENDS Integers

CONSTANTS Tabs, Contents, Blank

VARIABLES
    register,   \* the shared register: generation, content, autosave
    known       \* per tab, the generation and content its session rests on

vars == <<register, known>>

Knowledge(r) == [generation |-> r.generation, content |-> r.content]

Unknowing == [generation |-> 0, content |-> Blank]

Init ==
    /\ register \in [generation : Int, content : Contents, autosave : BOOLEAN]
    /\ known = [t \in Tabs |-> Unknowing]

Observe(t) ==
    /\ known' = [known EXCEPT ![t] = Knowledge(register)]
    /\ UNCHANGED register

Forget(t) ==
    /\ known' = [known EXCEPT ![t] = Unknowing]
    /\ UNCHANGED register

(* A save replaces only the content the tab knows.                         *)
Save(t) ==
    /\ known[t] = Knowledge(register)
    /\ \E c \in Contents :
          register' = [generation |-> register.generation + 1,
                       content |-> c, autosave |-> TRUE]
    /\ known' = [known EXCEPT ![t] = Knowledge(register')]

(* A reset is the user's explicit wish.  It blanks the register and takes  *)
(* a generation no tab has ever seen; the tab may or may not go on from    *)
(* the blank session.                                                      *)
Reset(t) ==
    /\ register'.generation \in Int
    /\ register'.generation > register.generation
    /\ register'.generation > 0
    /\ \E on \in BOOLEAN :
          register' = [generation |-> register'.generation,
                       content |-> Blank, autosave |-> on]
    /\ \/ UNCHANGED known
       \/ known' = [known EXCEPT ![t] = Knowledge(register')]

Next == \E t \in Tabs : Observe(t) \/ Forget(t) \/ Save(t) \/ Reset(t)

Spec == Init /\ [][Next]_vars
====
