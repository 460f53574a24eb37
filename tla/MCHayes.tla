------------------------------ MODULE MCHayes ------------------------------
EXTENDS Hayes
====
