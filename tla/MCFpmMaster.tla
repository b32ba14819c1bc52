---------------------------- MODULE MCFpmMaster ----------------------------
(* Instances of FpmMaster for TLC.  A .cfg picks one of the pool            *)
(* configurations below and gives the bounds.                              *)
EXTENDS FpmMaster_refines, TLC

Symmetry == Permutations(Pid)

PoolConfig(pm, maxc, start, mins, maxs, rate) ==
  [pm |-> pm, pm_max_children |-> maxc, pm_start_servers |-> start,
   pm_min_spare_servers |-> mins, pm_max_spare_servers |-> maxs,
   pm_max_spawn_rate |-> rate, pm_max_requests |-> FALSE,
   request_terminate_timeout |-> FALSE]

WithTimeout(c)     == [c EXCEPT !.request_terminate_timeout = TRUE]
WithMaxRequests(c) == [c EXCEPT !.pm_max_requests = TRUE]

Static2       == <<PoolConfig("static", 2, 0, 0, 0, 32)>>
Dynamic2      == <<WithMaxRequests(WithTimeout(PoolConfig("dynamic", 2, 1, 1, 1, 2)))>>
Dynamic2Plain == <<PoolConfig("dynamic", 2, 1, 1, 1, 1)>>
Ondemand2     == <<PoolConfig("ondemand", 2, 0, 0, 0, 32)>>
Mixed         == <<PoolConfig("static", 1, 0, 0, 0, 32),
                   PoolConfig("ondemand", 2, 0, 0, 0, 32)>>
=============================================================================
