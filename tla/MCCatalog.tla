------------------------------ MODULE MCCatalog ------------------------------
(* Entries of OpenStack, one of which, as an image, has no metadata.        *)
EXTENDS Catalog

Has == [c \in Catalogs |-> IF c = "images" THEN Entry \ {"bare"} ELSE Entry]

=============================================================================
