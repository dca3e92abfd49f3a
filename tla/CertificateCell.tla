--------------------------- MODULE CertificateCell ---------------------------
(***************************************************************************)
(* What CertificateStore promises to SecService and to the TLS credential  *)
(* provider: one cell that holds the device certificate chain.  A commit   *)
(* replaces its content in one step or not at all, as far as the running   *)
(* service can see.  A commit that switched CURRENT and was then cut off,  *)
(* or refused because the last fsync failed, is on offer: a restart may    *)
(* serve it.  A restart serves nothing else: neither an older content than *)
(* that of the last successful commit nor one that was never offered.  A   *)
(* damaged file may cost one commit; the store keeps two generations, so   *)
(* no lower bound is promised after two.                                   *)
(***************************************************************************)
EXTENDS Integers

Stopped == -1

VARIABLES
  served,   \* version readers get, Stopped while the store is not open
  acked,    \* version of the newest commit that succeeded
  offered,  \* newest version a commit has switched CURRENT to
  lost      \* commits that damaged files may have cost

cellVars == <<served, acked, offered, lost>>

CellInit == served = Stopped /\ acked = 0 /\ offered = 0 /\ lost = 0

open ==
  /\ served = Stopped
  /\ served' \in 0..offered
  /\ lost <= 1 => served' + lost >= acked
  /\ UNCHANGED <<acked, offered, lost>>

offer ==
  /\ served # Stopped
  /\ offered' = IF served + 1 > offered THEN served + 1 ELSE offered
  /\ UNCHANGED <<served, acked, lost>>

publish ==
  /\ served # Stopped /\ served < offered
  /\ served' = served + 1
  /\ acked' = served + 1
  /\ UNCHANGED <<offered, lost>>

stop == served' = Stopped /\ UNCHANGED <<acked, offered, lost>>

wear == lost' = lost + 1 /\ UNCHANGED <<served, acked, offered>>

CellNext == open \/ offer \/ publish \/ stop \/ wear

CellSpec == CellInit /\ [][CellNext]_cellVars

=============================================================================
