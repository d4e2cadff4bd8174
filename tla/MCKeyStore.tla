------------------------------ MODULE MCKeyStore ------------------------------
(* A small instance of KeyStore: two polynomials of degree 2.              *)
EXTENDS KeyStore

MCPolys == {<<7, 254>>, <<129, 1>>}
===============================================================================
