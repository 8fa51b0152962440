---------------------------- MODULE MCApiRequest ----------------------------
(* Bodies for the instances of ApiRequest: all that differ in at most two    *)
(* fields from a plain one.                                                  *)
EXTENDS ApiRequest, TLC

T(n, m) == [runes |-> n, blanks |-> m]

Plain == [name |-> T(1, 0), quantity |-> None, unit |-> None, note |-> None]

MCName == {None, T(0, 0), T(0, 1), T(2, 1), T(3, 0), T(4, 0)}
MCQuantity == {-1, 0, 1, MaxInt32, MaxInt32 + 1}
MCUnit == {"", "kg", "stone"}
MCTokens == MCUnit \cup {"amount"}
MCNote == {Null, T(0, 1), T(1, 0), T(1, 1), T(2, 0)}

MCBodies ==
  LET renamed == {[Plain EXCEPT !.name = t] : t \in MCName \cup {T(1, 0)}}
      counted(S) == {[b EXCEPT !.quantity = n] : b \in S, n \in MCQuantity}
      measured(S) == {[b EXCEPT !.unit = u] : b \in S, u \in MCUnit}
      noted(S) == {[b EXCEPT !.note = t] : b \in S, t \in MCNote}
  IN  renamed \cup counted(renamed) \cup measured(renamed) \cup noted(renamed)
        \cup counted(measured({Plain})) \cup counted(noted({Plain}))
        \cup measured(noted({Plain}))

\* Every operation and everything that is none.
MCAll == Operations \cup Elsewhere

=============================================================================
