SPECIFICATION Spec
CONSTANTS
  Programs <- ViewPrograms
  ViewOf <- Views
  MaxTrips = 2
INVARIANT LoadsSeeTheProgram
