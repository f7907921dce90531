---- MODULE MCReconcile ----
EXTENDS Reconcile
====
