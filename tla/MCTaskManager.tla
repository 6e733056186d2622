---------------------------- MODULE MCTaskManager ----------------------------
(* TLC instances of TaskManager.  The constants' values are in the .cfg    *)
(* files; every one of them is small enough for all of the table to fill.  *)
EXTENDS TaskManager

(* The reserved values keep their distance from the largest pid.           *)
MCWaitAll == MaxTasks + 1
MCNotBlocked == MaxTasks + 2
=============================================================================
