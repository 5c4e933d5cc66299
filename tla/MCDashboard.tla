---- MODULE MCDashboard ----
(* Values for the instance of Dashboard that TLC checks.                   *)
EXTENDS Dashboard

CONSTANTS p1, r1, r2, a1

(* A plan as far as it goes; two reports, one of them authorised; an alert *)
(* and a report.                                                           *)
OneThingAndAnother == {{p1}, {r1, r2}, {r2, a1}}
====
