----------------------------- MODULE RoutesProofs -----------------------------
(***************************************************************************)
(* Theorems about Routes for all positions, routes and bounds: saving the  *)
(* route never reads an empty list, selected points go into the route only *)
(* while its window is open, and, as long as the user keeps to the plain   *)
(* use, the point that is followed is the point the pointer stands on.     *)
(***************************************************************************)
EXTENDS Routes, SequenceTheorems, TLAPS

-----------------------------------------------------------------------------
(* Types of what the theorems speak of.                                    *)

Types ==
    /\ rows \in Seq(Places) /\ items \in Nat /\ pointer \in Nat
    /\ active \in BOOLEAN /\ edit \in BOOLEAN
    /\ window \in BOOLEAN /\ startable \in BOOLEAN
    /\ offered \in {"start", "stop"}

Inv == Types /\ SaveSafe /\ EditInWindow

\* A list without one of its rows is a list.
LEMMA RemoveAtType ==
    ASSUME NEW s \in Seq(Places), NEW k \in DOMAIN s
    PROVE  RemoveAt(s, k) \in Seq(Places)
<1>1. k \in 1 .. Len(s) /\ Len(s) \in Nat
  OBVIOUS
<1>2. SubSeq(s, 1, k - 1) \in Seq(Places)
  BY <1>1, SubSeqProperties
<1>3. SubSeq(s, k + 1, Len(s)) \in Seq(Places)
  BY <1>1, SubSeqProperties
<1> QED BY <1>2, <1>3, ConcatProperties DEF RemoveAt

LEMMA AddInv ==
    ASSUME Inv, NEW p \in Places, Add(p)
    PROVE  rows' \in Seq(Places) /\ items' \in Nat /\ rows' # <<>>
BY AppendProperties DEF Inv, Types, Add

LEMMA NewRouteInv ==
    ASSUME NEW ps \in Seq(Places), NewRoute(ps)
    PROVE  /\ rows' \in Seq(Places) /\ items' \in Nat /\ pointer' \in Nat
           /\ items' > 0 => rows' # <<>>
BY DEF NewRoute

\* The list of no rows is a list.
LEMMA NoRowsType == <<>> \in Seq(Places)
BY EmptySeq

LEMMA InitInv == Init => Inv
<1> SUFFICES ASSUME Init PROVE Inv
  OBVIOUS
<1>1. Types
  BY NoRowsType DEF Init, Types
<1>2. SaveSafe /\ EditInWindow
  BY DEF Init, SaveSafe, EditInWindow
<1> QED BY <1>1, <1>2 DEF Inv

\* Emptying the route and closing its window keeps the invariant.
LEMMA EmptiedInv ==
    ASSUME Inv, rows' = <<>>, items' = 0, window' = FALSE, edit' = FALSE,
           UNCHANGED <<pointer, active, startable, offered>>
    PROVE  Inv'
<1>1. items' \in Nat /\ ~(items' > 0)
  OBVIOUS
<1>2. rows' \in Seq(Places)
  BY NoRowsType
<1>3. SaveSafe'
  BY <1>1 DEF SaveSafe
<1>4. EditInWindow'
  BY DEF EditInWindow
<1>5. Types'
  BY <1>1, <1>2 DEF Inv, Types
<1> QED BY <1>3, <1>4, <1>5 DEF Inv

LEMMA NextInv == Inv /\ [Next]_vars => Inv'
<1> SUFFICES ASSUME Inv, [Next]_vars PROVE Inv'
  OBVIOUS
<1> USE DEF Inv, Types, SaveSafe, EditInWindow, list, routing, button, search
<1>1. CASE OpenWindow
  BY <1>1 DEF OpenWindow
<1>2. CASE CloseRouteWindow
  BY <1>2 DEF CloseRouteWindow, CloseWindow
<1>3. CASE StartStop
  BY <1>3 DEF StartStop, CloseWindow
<1>4. CASE RouteCancel
  <2>1. /\ rows' = <<>> /\ items' = 0 /\ window' = FALSE /\ edit' = FALSE
        /\ UNCHANGED <<pointer, active, startable, offered>>
    BY <1>4 DEF RouteCancel, CloseWindow
  <2> QED BY <2>1, EmptiedInv
<1>5. ASSUME NEW k \in DOMAIN rows, RemoveRoutepoint(k) PROVE Inv'
  <2>1. rows' \in Seq(Places)
    BY <1>5, RemoveAtType DEF RemoveRoutepoint
  <2>2. CASE rows' = <<>>
    <3>1. /\ items' = 0 /\ window' = FALSE /\ edit' = FALSE
          /\ UNCHANGED <<pointer, active, startable, offered>>
      BY <1>5, <2>2 DEF RemoveRoutepoint, CloseWindow
    <3> QED BY <2>2, <3>1, EmptiedInv
  <2>3. CASE rows' # <<>>
    <3>1. UNCHANGED <<items, pointer, active, edit, window, startable, offered>>
      BY <1>5, <2>3 DEF RemoveRoutepoint
    <3> QED BY <2>1, <2>3, <3>1
  <2> QED BY <2>2, <2>3
<1>6. CASE OpenLookup
  BY <1>6 DEF OpenLookup
<1>7. CASE LeaveLookup
  BY <1>7 DEF LeaveLookup
<1>8. CASE CloseLookup
  BY <1>8 DEF CloseLookup
<1>9. ASSUME NEW p \in Places, SelectPoi(p) PROVE Inv'
  <2>1. CASE edit
    <3>1. Add(p)
      BY <1>9, <2>1 DEF SelectPoi
    <3>2. rows' \in Seq(Places) /\ items' \in Nat /\ rows' # <<>>
      BY <3>1, AddInv
    <3> QED BY <1>9, <2>1, <3>2 DEF SelectPoi
  <2>2. CASE ~edit
    BY <1>9, <2>2 DEF SelectPoi
  <2> QED BY <2>1, <2>2
<1>10. ASSUME NEW p \in Places, QuickPoint(p) PROVE Inv'
  <2>1. rows' \in Seq(Places) /\ items' \in Nat /\ rows' # <<>>
    BY <1>10, AddInv DEF QuickPoint
  <2> QED BY <1>10, <2>1 DEF QuickPoint
<1>11. ASSUME NEW ps \in Calculated, RouteCalc(ps) PROVE Inv'
  <2>1. /\ rows' \in Seq(Places) /\ items' \in Nat /\ pointer' \in Nat
        /\ items' > 0 => rows' # <<>>
    BY <1>11, NewRouteInv, RoutesAssumption DEF RouteCalc
  <2> QED BY <1>11, <2>1 DEF RouteCalc, CloseWindow
<1>12. ASSUME NEW ps \in Files, GpxReadRoute(ps) PROVE Inv'
  <2>1. /\ rows' \in Seq(Places) /\ items' \in Nat /\ pointer' \in Nat
        /\ items' > 0 => rows' # <<>>
    BY <1>12, NewRouteInv, RoutesAssumption DEF GpxReadRoute
  <2> QED BY <1>12, <2>1 DEF GpxReadRoute
<1>13. CASE ForceNext
  BY <1>13 DEF ForceNext
<1>14. ASSUME NEW reached \in BOOLEAN, UpdateRoute(reached) PROVE Inv'
  <2>1. UNCHANGED <<rows, edit, window, startable, offered>>
    BY <1>14 DEF UpdateRoute
  <2>2. CASE pointer # items - 1
    <3>1. pointer' = pointer + 1 /\ items' = items /\ active' = active
      BY <1>14, <2>2 DEF UpdateRoute
    <3> QED BY <2>1, <3>1
  <2>3. CASE pointer = items - 1
    <3>1. pointer' = 0 /\ items' = 0 /\ active' = FALSE
      BY <1>14, <2>3 DEF UpdateRoute
    <3>2. Types'
      BY <2>1, <3>1
    <3>3. SaveSafe' /\ EditInWindow'
      BY <2>1, <3>1
    <3> QED BY <3>2, <3>3
  <2> QED BY <2>2, <2>3
<1>15. CASE UNCHANGED vars
  BY <1>15 DEF vars
<1> QED
  BY <1>1, <1>2, <1>3, <1>4, <1>5, <1>6, <1>7, <1>8, <1>9, <1>10, <1>11,
     <1>12, <1>13, <1>14, <1>15 DEF Next

(* Whatever the user does, the code that saves the route finds a first row *)
(* when route.items says there is a route (gpsdrive.c:685, 2707).          *)
THEOREM SavingIsSafe == Spec => []SaveSafe
<1>1. Inv => SaveSafe
  BY DEF Inv
<1> QED BY <1>1, InitInv, NextInv, PTL DEF Spec

(* Whatever the user does, a selected point goes into the route only while *)
(* the route window is open (poi_gui.c:360-369).                           *)
THEOREM EditingIsInWindow == Spec => []EditInWindow
<1>1. Inv => EditInWindow
  BY DEF Inv
<1> QED BY <1>1, InitInv, NextInv, PTL DEF Spec

-----------------------------------------------------------------------------
(* The types that the invariant does not need.                             *)

OtherTypes ==
    /\ dest \in Places /\ target \in Places /\ savedtarget \in Places
    /\ forcenext \in BOOLEAN /\ stale \in BOOLEAN /\ lookup \in BOOLEAN
    /\ uses \subseteq AllUses

\* The place of a row that exists, or the target of before.
LEMMA TargetAtType ==
    ASSUME NEW ps \in Seq(Places), NEW n \in Nat, target \in Places
    PROVE  TargetAt(ps, n) \in Places
<1>1. CASE n + 1 \in DOMAIN ps
  <2>1. ps[n + 1] \in Places
    BY <1>1, ElementOfSeq
  <2> QED BY <1>1, <2>1 DEF TargetAt
<1>2. CASE n + 1 \notin DOMAIN ps
  BY <1>2 DEF TargetAt
<1> QED BY <1>1, <1>2

LEMMA NewRouteTypes ==
    ASSUME dest \in Places, NEW ps \in Seq(Places), NewRoute(ps)
    PROVE  dest' \in Places /\ forcenext' = FALSE
<1>1. CASE ps = <<>>
  BY <1>1 DEF NewRoute
<1>2. CASE ps # <<>>
  <2>1. Len(ps) \in DOMAIN ps
    BY <1>2, EmptySeq
  <2>2. Last(ps) \in Places
    BY <2>1 DEF Last
  <2> QED BY <1>2, <2>2 DEF NewRoute
<1> QED BY <1>1, <1>2

LEMMA OtherTypesNext ==
    ASSUME Inv, OtherTypes, [Next]_vars
    PROVE  OtherTypes'
<1>u. uses' \subseteq AllUses
  BY DEF OtherTypes, Next, vars
<1>0. rows \in Seq(Places) /\ pointer \in Nat
  BY DEF Inv, Types
<1> SUFFICES /\ dest' \in Places /\ target' \in Places /\ savedtarget' \in Places
             /\ forcenext' \in BOOLEAN /\ stale' \in BOOLEAN /\ lookup' \in BOOLEAN
  BY <1>u DEF OtherTypes
<1> USE DEF OtherTypes, list, routing, button, search
<1>1. CASE OpenWindow
  BY <1>1 DEF OpenWindow
<1>2. CASE CloseRouteWindow
  BY <1>2 DEF CloseRouteWindow, CloseWindow
<1>3. CASE StartStop
  <2>1. TargetAt(rows, pointer) \in Places
    BY <1>0, TargetAtType
  <2> QED BY <1>3, <2>1 DEF StartStop, CloseWindow
<1>4. CASE RouteCancel
  BY <1>4 DEF RouteCancel, CloseWindow
<1>5. ASSUME NEW k \in DOMAIN rows, RemoveRoutepoint(k)
      PROVE  UNCHANGED <<dest, target, savedtarget, forcenext, stale, lookup>>
  BY <1>5 DEF RemoveRoutepoint, CloseWindow
<1>6. CASE OpenLookup
  BY <1>6 DEF OpenLookup
<1>7. CASE LeaveLookup
  BY <1>7 DEF LeaveLookup
<1>8. CASE CloseLookup
  BY <1>8 DEF CloseLookup
<1>9. ASSUME NEW p \in Places, SelectPoi(p)
      PROVE  /\ dest' \in Places /\ target' \in Places
             /\ UNCHANGED <<savedtarget, forcenext, stale, lookup>>
  BY <1>9 DEF SelectPoi, Add
<1>10. ASSUME NEW p \in Places, QuickPoint(p)
       PROVE  dest' \in Places /\ UNCHANGED <<target, savedtarget, forcenext, stale, lookup>>
  BY <1>10 DEF QuickPoint, Add
<1>11. ASSUME NEW ps \in Calculated, RouteCalc(ps)
       PROVE  /\ dest' \in Places /\ target' \in Places /\ forcenext' = FALSE
              /\ lookup' = FALSE /\ UNCHANGED <<savedtarget, stale>>
  <2>1. ps \in Seq(Places)
    BY RoutesAssumption
  <2>2. TargetAt(ps, 0) \in Places
    BY <2>1, TargetAtType
  <2>3. dest' \in Places /\ forcenext' = FALSE
    BY <1>11, <2>1, NewRouteTypes DEF RouteCalc
  <2> QED BY <1>11, <2>2, <2>3 DEF RouteCalc, CloseWindow
<1>12. ASSUME NEW ps \in Files, GpxReadRoute(ps)
       PROVE  /\ dest' \in Places /\ forcenext' = FALSE
              /\ stale' = window /\ UNCHANGED <<target, savedtarget, lookup>>
  <2>1. ps \in Seq(Places)
    BY RoutesAssumption
  <2>2. dest' \in Places /\ forcenext' = FALSE
    BY <1>12, <2>1, NewRouteTypes DEF GpxReadRoute
  <2> QED BY <1>12, <2>2 DEF GpxReadRoute
<1>13. CASE ForceNext
  BY <1>13 DEF ForceNext
<1>14. ASSUME NEW reached \in BOOLEAN, UpdateRoute(reached)
       PROVE  /\ target' \in Places /\ forcenext' = FALSE
              /\ UNCHANGED <<dest, savedtarget, stale, lookup>>
  <2>1. TargetAt(rows, pointer + 1) \in Places
    BY <1>0, TargetAtType
  <2>2. target' \in {target, TargetAt(rows, pointer + 1)}
    BY <1>14 DEF UpdateRoute
  <2> QED BY <1>14, <2>1, <2>2 DEF UpdateRoute
<1>15. CASE UNCHANGED vars
  BY <1>15 DEF vars
<1>16. window \in BOOLEAN
  BY DEF Inv, Types
<1> QED
  BY <1>1, <1>2, <1>3, <1>4, <1>5, <1>6, <1>7, <1>8, <1>9, <1>10, <1>11,
     <1>12, <1>13, <1>14, <1>15, <1>16 DEF Next

(* Every variable of the route has its type whatever the user does: in     *)
(* particular the target is always a position, also where the code reads a *)
(* row that is not there (routes.c:826).                                   *)
THEOREM TypeCorrect == Spec => []TypeOK
<1>1. Init => Inv /\ OtherTypes
  BY InitInv DEF Init, OtherTypes
<1>2. (Inv /\ OtherTypes) /\ [Next]_vars => (Inv /\ OtherTypes)'
  BY NextInv, OtherTypesNext
<1>3. Inv /\ OtherTypes => TypeOK
  <2> SUFFICES ASSUME Types, OtherTypes PROVE TypeOK
    BY DEF Inv
  <2> QED BY DEF Types, OtherTypes, TypeOK
<1> QED BY <1>1, <1>2, <1>3, PTL DEF Spec

-----------------------------------------------------------------------------
(* The plain use: points come from the lookup window, from files and from  *)
(* the navigation module, none are removed, and the buttons are pressed    *)
(* when they do what they say.                                             *)

PlainUse == uses = {}

\* The counters agree with the list: the pointer is in the counted part of
\* the list, and the list is at least as long as counted.
Counted ==
    /\ items <= Len(rows)
    /\ items > 0 => pointer < items
    /\ edit /\ items = 0 => pointer = 0

\* A button that says "start" and can be pressed has a route to start.
ButtonHolds ==
    window /\ offered = "start" => ~active /\ (startable => items > 0)

Following == active => items > 0 /\ target = rows[pointer + 1]

PlainInv == Inv /\ Counted /\ ButtonHolds /\ Following

LEMMA PlainInit == Init => PlainInv
BY InitInv DEF Init, PlainInv, Counted, ButtonHolds, Following

\* A route that has just been made has points, and its pointer is on the first.
LEMMA NewRouteCounted ==
    ASSUME NEW ps \in Seq(Places), ps # <<>>, NewRoute(ps)
    PROVE  /\ rows' = ps /\ items' > 0 /\ pointer' = 0 /\ 1 \in DOMAIN ps
           /\ items' = Len(rows') /\ items' \in Nat
BY DEF NewRoute

LEMMA AddCounted ==
    ASSUME PlainInv, NEW p \in Places, Add(p)
    PROVE  /\ Len(rows') = Len(rows) + 1 /\ items' = items + 1
           /\ \A k \in DOMAIN rows : rows'[k] = rows[k]
BY AppendProperties DEF PlainInv, Inv, Types, Add

LEMMA PlainNext ==
    ASSUME PlainUse, PlainInv, [Next]_vars
    PROVE  PlainInv'
<1>0. Inv'
  BY NextInv DEF PlainInv
<1>s. SUFFICES Counted' /\ ButtonHolds' /\ Following'
  BY <1>0 DEF PlainInv
<1> USE DEF PlainInv, Inv, Types, EditInWindow, Counted, ButtonHolds,
            Following, list, routing, button, search
<1>1. CASE OpenWindow
  BY <1>1 DEF OpenWindow
<1>2. CASE CloseRouteWindow
  BY <1>2 DEF CloseRouteWindow, CloseWindow
<1>3. CASE StartStop
  <2>1. CASE active
    BY <1>3, <2>1 DEF StartStop, CloseWindow
  <2>2. CASE ~active
    <3>1. offered = "start" /\ items > 0
      BY <1>3, <2>2 DEF StartStop, PlainUse
    <3>2. pointer + 1 \in DOMAIN rows
      BY <3>1
    <3> QED BY <1>3, <2>2, <3>1, <3>2 DEF StartStop, CloseWindow, TargetAt
  <2> QED BY <2>1, <2>2
<1>4. CASE RouteCancel
  BY <1>4 DEF RouteCancel, CloseWindow, PlainUse
<1>5. ASSUME NEW k \in DOMAIN rows, RemoveRoutepoint(k) PROVE FALSE
  BY <1>5 DEF RemoveRoutepoint, PlainUse
<1>6. CASE OpenLookup
  BY <1>6 DEF OpenLookup
<1>7. CASE LeaveLookup
  BY <1>7 DEF LeaveLookup
<1>8. CASE CloseLookup
  BY <1>8 DEF CloseLookup
<1>9. ASSUME NEW p \in Places, SelectPoi(p)
      PROVE  Counted' /\ ButtonHolds' /\ Following'
  <2>1. CASE edit
    <3>1. /\ Len(rows') = Len(rows) + 1 /\ items' = items + 1
          /\ \A k \in DOMAIN rows : rows'[k] = rows[k]
      BY <1>9, <2>1, AddCounted DEF SelectPoi
    <3>2. UNCHANGED <<pointer, active, edit, window, offered, target>>
      BY <1>9, <2>1 DEF SelectPoi
    <3>3. active => pointer + 1 \in DOMAIN rows
      OBVIOUS
    <3> QED BY <2>1, <3>1, <3>2, <3>3
  <2>2. CASE ~edit
    BY <1>9, <2>2 DEF SelectPoi
  <2> QED BY <2>1, <2>2
<1>10. ASSUME NEW p \in Places, QuickPoint(p) PROVE FALSE
  BY <1>10 DEF QuickPoint, PlainUse
<1>11. ASSUME NEW ps \in Calculated, RouteCalc(ps)
       PROVE  Counted' /\ ButtonHolds' /\ Following'
  <2>1. /\ rows' = ps /\ items' > 0 /\ pointer' = 0 /\ 1 \in DOMAIN ps
        /\ items' = Len(rows') /\ items' \in Nat
    BY <1>11, NewRouteCounted, RoutesAssumption DEF RouteCalc, PlainUse
  <2>2. active' = TRUE /\ window' = FALSE /\ edit' = FALSE
    BY <1>11 DEF RouteCalc, CloseWindow
  <2>3. target' = TargetAt(ps, 0)
    BY <1>11 DEF RouteCalc
  <2>4. target' = rows'[pointer' + 1]
    BY <2>1, <2>3 DEF TargetAt
  <2> QED BY <2>1, <2>2, <2>4
<1>12. ASSUME NEW ps \in Files, GpxReadRoute(ps)
       PROVE  Counted' /\ ButtonHolds' /\ Following'
  <2>1. /\ rows' = ps /\ items' > 0 /\ pointer' = 0 /\ 1 \in DOMAIN ps
        /\ items' = Len(rows') /\ items' \in Nat
    BY <1>12, NewRouteCounted, RoutesAssumption DEF GpxReadRoute, PlainUse
  <2>2. /\ active' = FALSE /\ edit' = FALSE
        /\ UNCHANGED <<window, offered, startable>>
    BY <1>12 DEF GpxReadRoute
  <2> QED BY <2>1, <2>2
<1>13. CASE ForceNext
  BY <1>13 DEF ForceNext
<1>14. ASSUME NEW reached \in BOOLEAN, UpdateRoute(reached)
       PROVE  Counted' /\ ButtonHolds' /\ Following'
  <2>1. CASE pointer # items - 1
    <3>1. pointer' = pointer + 1 /\ pointer' < items
      BY <1>14, <2>1 DEF UpdateRoute
    <3>2. pointer' + 1 \in DOMAIN rows
      BY <3>1
    <3> QED BY <1>14, <2>1, <3>1, <3>2 DEF UpdateRoute, TargetAt
  <2>2. CASE pointer = items - 1
    BY <1>14, <2>2 DEF UpdateRoute
  <2> QED BY <2>1, <2>2
<1>15. CASE UNCHANGED vars
  BY <1>15 DEF vars
<1> QED
  BY <1>1, <1>2, <1>3, <1>4, <1>5, <1>6, <1>7, <1>8, <1>9, <1>10, <1>11,
     <1>12, <1>13, <1>14, <1>15 DEF Next

\* Who keeps to the plain use goes on to.
LEMMA UseStays == [Next]_vars => uses' = uses
BY DEF Next, vars

(* In the plain use the target is always the point the pointer stands on:  *)
(* the vehicle is led to the point that is displayed (routes.c:885, 1066). *)
THEOREM PlainUseFollowsRoute == Spec => []TargetIsPoint
<1> DEFINE K == PlainUse => PlainInv
<1>1. Init => K
  BY PlainInit
<1>2. K /\ [Next]_vars => K'
  <2> SUFFICES ASSUME K, [Next]_vars, PlainUse' PROVE PlainInv'
    OBVIOUS
  <2>1. PlainUse
    BY UseStays DEF PlainUse
  <2> QED BY <2>1, PlainNext
<1>3. K => TargetIsPoint
  BY DEF PlainUse, PlainInv, Inv, Types, Counted, Following, TargetIsPoint
<1> HIDE DEF K
<1> QED BY <1>1, <1>2, <1>3, PTL DEF Spec

-----------------------------------------------------------------------------
(* The destination is the end of the route unless a point was removed.     *)

\* Last of a list to which p was added.
LEMMA LastAdded ==
    ASSUME NEW s \in Seq(Places), NEW p \in Places
    PROVE  Last(Append(s, p)) = p
BY DEF Last

LEMMA AddDestination ==
    ASSUME Inv, NEW p \in Places, Add(p)
    PROVE  DestinationIsEnd'
BY LastAdded DEF Inv, Types, Add, DestinationIsEnd

LEMMA DestinationStep ==
    ASSUME Inv, DestinationIsEnd, [Next]_vars
    PROVE  DestinationIsEnd'
<1>0. uses' = uses
  BY UseStays
<1>1. CASE UNCHANGED <<rows, dest>>
  BY <1>0, <1>1 DEF DestinationIsEnd
<1>2. CASE OpenWindow \/ CloseRouteWindow \/ StartStop \/ OpenLookup \/ LeaveLookup
           \/ CloseLookup \/ ForceNext \/ (\E reached \in BOOLEAN : UpdateRoute(reached))
  BY <1>1, <1>2 DEF OpenWindow, CloseRouteWindow, StartStop, OpenLookup, LeaveLookup,
     CloseLookup, ForceNext, UpdateRoute, list
<1>3. CASE RouteCancel
  BY <1>3 DEF RouteCancel, DestinationIsEnd
<1>4. ASSUME NEW k \in DOMAIN rows, RemoveRoutepoint(k) PROVE DestinationIsEnd'
  BY <1>0, <1>4 DEF RemoveRoutepoint, DestinationIsEnd
<1>5. ASSUME NEW p \in Places, SelectPoi(p) PROVE DestinationIsEnd'
  BY <1>5, <1>1, AddDestination DEF SelectPoi, list
<1>6. ASSUME NEW p \in Places, QuickPoint(p) PROVE DestinationIsEnd'
  BY <1>6, AddDestination DEF QuickPoint
<1>7. ASSUME NEW ps, NewRoute(ps) PROVE DestinationIsEnd'
  BY <1>7 DEF NewRoute, DestinationIsEnd
<1>8. CASE UNCHANGED vars
  BY <1>1, <1>8 DEF vars, list
<1> QED
  BY <1>2, <1>3, <1>4, <1>5, <1>6, <1>7, <1>8 DEF Next, RouteCalc, GpxReadRoute

(* Whichever way points come into the route, by windows, keys, files or    *)
(* the navigation module, the destination is its last one, as long as none *)
(* is removed (routes.c:653, 1102).                                        *)
THEOREM DestinationFollows == Spec => []DestinationIsEnd
<1>1. Init => Inv /\ DestinationIsEnd
  BY InitInv DEF Init, DestinationIsEnd
<1>2. (Inv /\ DestinationIsEnd) /\ [Next]_vars => (Inv /\ DestinationIsEnd)'
  BY NextInv, DestinationStep
<1> QED BY <1>1, <1>2, PTL DEF Spec

=============================================================================
