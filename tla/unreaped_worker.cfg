\* free_vram() does not wait for a worker that outlives its launcher.
CONSTANTS
  Pids = {p1, p2}
  Nobody = Nobody
SPECIFICATION Spec
PROPERTY GroupEscalated
