------------------------------- MODULE TcpPeer -------------------------------
(***************************************************************************)
(* A TCP socket together with the program at its far end: the local        *)
(* application behind the client's listener, or the target behind the      *)
(* server's TcpStream.  Kernel sockets are external to the repository;     *)
(* what is modelled is what read(), write_all() and shutdown() can answer. *)
(*                                                                         *)
(* The peer writes the chunks 1, 2, 3, ...; a chunk is what one read()     *)
(* returns.  `sent' were written by the peer, `taken' of those were read   *)
(* from the socket; `got' is what write_all() put into the socket for the  *)
(* peer, of which it has read the first `seen'.  `fin' says that the peer  *)
(* shut down its write half, `gone' that the connection was reset.         *)
(***************************************************************************)
EXTENDS Naturals, Sequences

CONSTANT SOCK_BUF    \* chunks a socket buffers before write_all().await blocks

ASSUME SockAssumption == SOCK_BUF \in Nat \ {0}

Peers == [sent : Nat, taken : Nat, fin : BOOLEAN, gone : BOOLEAN,
          got : Seq(Nat), seen : Nat]

\* A connection whose first `n' chunks were read before the relay started.
NewPeer(n) == [sent |-> n, taken |-> n, fin |-> FALSE, gone |-> FALSE,
               got |-> <<>>, seen |-> 0]

(***************************************************************************)
(* The program's side of the socket.  After a reset, read() may still      *)
(* return what was buffered or fail, write_all() may still be swallowed by *)
(* the socket or fail.                                                     *)
(***************************************************************************)
Readable(p) == p.taken < p.sent

AtEof(p) == p.fin /\ p.taken = p.sent

Broken(p) == p.gone

Writable(p) == p.gone \/ Len(p.got) < p.seen + SOCK_BUF

Taken(p) == [p EXCEPT !.taken = @ + 1]

Wrote(p, chunk) == [p EXCEPT !.got = Append(@, chunk)]

(***************************************************************************)
(* The steps of the peer itself, from p to pp; it writes at most `limit'   *)
(* chunks.                                                                 *)
(***************************************************************************)
PeerWrites(p, pp, limit) ==
  ~p.fin /\ ~p.gone /\ p.sent < limit /\ pp = [p EXCEPT !.sent = @ + 1]

PeerFins(p, pp) == ~p.fin /\ ~p.gone /\ pp = [p EXCEPT !.fin = TRUE]

PeerGoes(p, pp) == ~p.gone /\ pp = [p EXCEPT !.gone = TRUE]

PeerReads(p, pp) ==
  ~p.gone /\ p.seen < Len(p.got) /\ pp = [p EXCEPT !.seen = @ + 1]

(***************************************************************************)
(* What a peer was written, `got', lists the members of a set of numbers   *)
(* from the smallest on, in ascending order and without a gap.             *)
(***************************************************************************)
FirstOf(got, numbers) ==
  \A k \in DOMAIN got :
    /\ got[k] \in numbers
    /\ \A h \in 1..k - 1 : got[h] < got[k]
    /\ \A m \in numbers : m < got[k] => \E h \in 1..k - 1 : got[h] = m
=============================================================================
