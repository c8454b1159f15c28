------------------------------ MODULE Delivery ------------------------------
(***************************************************************************)
(* What a topic promises, without streams, buffers and bytes: a            *)
(* publication is one message; it reaches the subscription whole and at    *)
(* most once; messages are claimed in the order they arrived; and a thread *)
(* that claims one gets that message, keeps it, or fails.  A message that  *)
(* is kept can be read, or published again, as it was.                     *)
(***************************************************************************)
EXTENDS Naturals, Sequences

CONSTANTS
  Threads, Subscriber, Supports,
  Repertoire(_),      \* the messages of a type support
  Transfer(_, _, _),  \* what a message of one type support is to another
  Nothing, Unreadable

VARIABLES
  support,  \* the type support of each thread's publisher and of the subscription
  count,    \* count[t]: publications of t
  sent,     \* publications on their way
  arrived,  \* publications that nobody has claimed
  held,     \* held[t]: what t has claimed
  kept,     \* kept[t]: what t keeps
  got       \* got[t]: what t was given last

vars == <<support, count, sent, arrived, held, kept, got>>

\* A publication is a message with the number it has of its publisher; what
\* was not published yet has none.
Publication(pub, of) == [pub |-> pub, of |-> of]

Value(p) == Transfer(p.of.support, support[Subscriber], p.of.message)

Init ==
  /\ support \in [Threads \cup {Subscriber} -> Supports]
  /\ count = [t \in Threads |-> 0]
  /\ sent = {}
  /\ arrived = <<>>
  /\ held = [t \in Threads |-> Nothing]
  /\ kept = [t \in Threads |-> Nothing]
  /\ got = [t \in Threads |-> Nothing]

Send(t, of) ==
  /\ count' = [count EXCEPT ![t] = @ + 1]
  /\ sent' = sent \cup {Publication(<<t, count'[t]>>, of)}
  /\ UNCHANGED <<support, arrived, held, kept, got>>

SendNew(t) ==
  \E m \in Repertoire(support[t]) : Send(t, [support |-> support[t], message |-> m])

SendKept(t) == kept[t] # Nothing /\ Send(t, kept[t].of)

Lose(p) ==
  /\ p \in sent
  /\ sent' = sent \ {p}
  /\ UNCHANGED <<support, count, arrived, held, kept, got>>

Arrive(p) ==
  /\ p \in sent
  /\ sent' = sent \ {p}
  /\ arrived' = Append(arrived, p)
  /\ UNCHANGED <<support, count, held, kept, got>>

Claim(t) ==
  /\ held[t] = Nothing /\ arrived # <<>>
  /\ held' = [held EXCEPT ![t] = Head(arrived)]
  /\ arrived' = Tail(arrived)
  /\ got' = [got EXCEPT ![t] = Nothing]
  /\ UNCHANGED <<support, count, sent, kept>>

Give(t, p) ==
  /\ Value(p) # Unreadable
  /\ got' = [got EXCEPT ![t] = [pub |-> p.pub, value |-> Value(p)]]

\* The thread gets the message that it claimed.
Receive(t) ==
  /\ held[t] # Nothing /\ Give(t, held[t])
  /\ held' = [held EXCEPT ![t] = Nothing]
  /\ UNCHANGED <<support, count, sent, arrived, kept>>

Keep(t) ==
  /\ held[t] # Nothing
  /\ kept' = [kept EXCEPT ![t] = held[t]]
  /\ held' = [held EXCEPT ![t] = Nothing]
  /\ UNCHANGED <<support, count, sent, arrived, got>>

\* The call fails and the message is gone.
Fail(t) ==
  /\ held[t] # Nothing
  /\ held' = [held EXCEPT ![t] = Nothing]
  /\ UNCHANGED <<support, count, sent, arrived, kept, got>>

\* A message is made for later.
Make(t) ==
  /\ \E m \in Repertoire(support[t]) :
        kept' = [kept EXCEPT ![t] =
                   Publication(Nothing, [support |-> support[t], message |-> m])]
  /\ UNCHANGED <<support, count, sent, arrived, held, got>>

ReadKept(t) ==
  /\ kept[t] # Nothing /\ Give(t, kept[t])
  /\ UNCHANGED <<support, count, sent, arrived, held, kept>>

Next ==
  \/ \E t \in Threads : \/ SendNew(t) \/ SendKept(t) \/ Claim(t) \/ Receive(t)
                        \/ Keep(t) \/ Fail(t) \/ Make(t) \/ ReadKept(t)
  \/ \E p \in sent : Lose(p) \/ Arrive(p)

Spec == Init /\ [][Next]_vars

=============================================================================
