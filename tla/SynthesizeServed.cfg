SPECIFICATION Spec
CONSTANTS
  Dbs <- ServedDbs
  Requests <- Calls
INVARIANTS NamesBackend OwnLevel CornersServed
